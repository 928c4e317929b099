---------------------------- MODULE L2TimerProofs ----------------------------
(***************************************************************************)
(* Nobody waits for ever: a link that waits for an answer has T1 running,  *)
(* or a frame that starts T1 is still with the driver.                     *)
(*                                                                         *)
(* AwaitingTimed is not inductive.  T1 stops when N(R) acknowledges the    *)
(* outstanding frames, in a state that waits for a final too, unless the   *)
(* frame is no final; an I frame never is one, as long as every I frame    *)
(* is a command.  The invariant TimerInv adds this to the type invariant.  *)
(*                                                                         *)
(* A handler is followed from the context it gets to the one it returns:   *)
(* Timed says of a context what AwaitingTimed says of a node.  The state   *)
(* tables enter the proof only through WaitsAll and StartsAll.             *)
(***************************************************************************)
EXTENDS L2LinkProofs

-----------------------------------------------------------------------------
(* Lists of frames.                                                        *)

(* A frame that starts T1 is among the frames of q.                        *)
Armed(q) == \E i \in 1 .. Len(q) : q[i].t1

(* Only commands carry messages.                                           *)
Commands(q) == \A i \in 1 .. Len(q) : q[i].t = "I" => q[i].cmd

LEMMA ConcatArmed ==
  ASSUME NEW p \in Seq(Frame), NEW q \in Seq(Frame)
  PROVE  /\ Armed(p) \/ Armed(q) => Armed(p \o q)
         /\ Commands(p) /\ Commands(q) => Commands(p \o q)
<1>1. ASSUME Armed(p) PROVE Armed(p \o q)
  <2>1. PICK i \in 1 .. Len(p) : p[i].t1 BY <1>1 DEF Armed
  <2>2. i \in 1 .. Len(p \o q) /\ (p \o q)[i] = p[i] OBVIOUS
  <2> QED BY <2>1, <2>2 DEF Armed
<1>2. ASSUME Armed(q) PROVE Armed(p \o q)
  <2>1. PICK i \in 1 .. Len(q) : q[i].t1 BY <1>2 DEF Armed
  <2>2. Len(p) + i \in 1 .. Len(p \o q) /\ (p \o q)[Len(p) + i] = q[i] OBVIOUS
  <2> QED BY <2>1, <2>2 DEF Armed
<1>3. ASSUME Commands(p), Commands(q), NEW i \in 1 .. Len(p \o q), (p \o q)[i].t = "I"
      PROVE  (p \o q)[i].cmd
  <2>1. CASE i <= Len(p)
    <3>1. i \in 1 .. Len(p) /\ (p \o q)[i] = p[i] BY <2>1
    <3> QED BY <1>3, <3>1 DEF Commands
  <2>2. CASE i > Len(p)
    <3>1. i - Len(p) \in 1 .. Len(q) /\ (p \o q)[i] = q[i - Len(p)] BY <2>2
    <3> QED BY <1>3, <3>1 DEF Commands
  <2> QED BY <2>1, <2>2
<1> QED BY <1>1, <1>2, <1>3 DEF Commands

LEMMA AppendArmed ==
  ASSUME NEW p \in Seq(Frame), NEW f \in Frame
  PROVE  /\ Armed(p) \/ f.t1 => Armed(Append(p, f))
         /\ Commands(p) /\ (f.t = "I" => f.cmd) => Commands(Append(p, f))
<1>1. ASSUME Armed(p) PROVE Armed(Append(p, f))
  <2>1. PICK i \in 1 .. Len(p) : p[i].t1 BY <1>1 DEF Armed
  <2>2. i \in 1 .. Len(Append(p, f)) /\ Append(p, f)[i] = p[i] OBVIOUS
  <2> QED BY <2>1, <2>2 DEF Armed
<1>2. ASSUME f.t1 PROVE Armed(Append(p, f))
  <2>1. Len(p) + 1 \in 1 .. Len(Append(p, f)) /\ Append(p, f)[Len(p) + 1] = f OBVIOUS
  <2> QED BY <1>2, <2>1 DEF Armed
<1>3. ASSUME Commands(p), f.t = "I" => f.cmd, NEW i \in 1 .. Len(Append(p, f)),
             Append(p, f)[i].t = "I"
      PROVE  Append(p, f)[i].cmd
  <2>1. CASE i <= Len(p)
    <3>1. i \in 1 .. Len(p) /\ Append(p, f)[i] = p[i] BY <2>1
    <3> QED BY <1>3, <3>1 DEF Commands
  <2>2. CASE i > Len(p)
    <3>1. Append(p, f)[i] = f BY <2>2
    <3> QED BY <1>3, <3>1
  <2> QED BY <2>1, <2>2
<1> QED BY <1>1, <1>2, <1>3 DEF Commands

LEMMA TailArmed ==
  ASSUME NEW q \in Seq(Frame), q # <<>>
  PROVE  /\ Armed(q) => Head(q).t1 \/ Armed(Tail(q))
         /\ Commands(q) => Commands(Tail(q)) /\ (Head(q).t = "I" => Head(q).cmd)
<1>1. ASSUME Armed(q), ~Head(q).t1 PROVE Armed(Tail(q))
  <2>1. PICK i \in 1 .. Len(q) : q[i].t1 BY <1>1 DEF Armed
  <2>2. i # 1 BY <1>1, <2>1
  <2>3. i - 1 \in 1 .. Len(Tail(q)) /\ Tail(q)[i - 1] = q[i] BY <2>2
  <2> QED BY <2>1, <2>3 DEF Armed
<1>2. ASSUME Commands(q), NEW i \in 1 .. Len(Tail(q)), Tail(q)[i].t = "I"
      PROVE  Tail(q)[i].cmd
  <2>1. i + 1 \in 1 .. Len(q) /\ Tail(q)[i] = q[i + 1] OBVIOUS
  <2> QED BY <1>2, <2>1 DEF Commands
<1>3. ASSUME Commands(q), Head(q).t = "I" PROVE Head(q).cmd
  <2>1. 1 \in 1 .. Len(q) /\ Head(q) = q[1] OBVIOUS
  <2> QED BY <1>3, <2>1 DEF Commands
<1> QED BY <1>1, <1>2, <1>3 DEF Commands

LEMMA EmptyArmed == Commands(<<>>) /\ ~Armed(<<>>)
BY DEF Armed, Commands

-----------------------------------------------------------------------------
(* The transmitting functions.                                             *)

(* Transmitting functions add frames and leave state and T1 alone.         *)
Grows(c, d) ==
  (Armed(c.out) => Armed(d.out)) /\ (Commands(c.out) => Commands(d.out))

Calm(c, d) == d.l.st = c.l.st /\ d.l.T1 = c.l.T1 /\ Grows(c, d)

LEMMA CalmLink ==
  ASSUME NEW c \in Ctx, NEW m \in Link, m.st = c.l.st, m.T1 = c.l.T1
  PROVE  Calm(c, [c EXCEPT !.l = m])
<1>1. [c EXCEPT !.l = m].l = m /\ [c EXCEPT !.l = m].out = c.out BY WithLink
<1> QED BY <1>1 DEF Calm, Grows

LEMMA CalmSend ==
  ASSUME NEW c \in Ctx, NEW f \in Frame, f.t = "I" => f.cmd
  PROVE  /\ Calm(c, Send(c, f))
         /\ f.t1 => Armed(Send(c, f).out)
<1>1. c.out \in Seq(Frame) BY DEF Ctx
<1>2. Send(c, f).out = Append(c.out, f) /\ Send(c, f).l = c.l BY DEF Ctx, Send
<1> QED BY <1>1, <1>2, AppendArmed DEF Calm, Grows

LEMMA CalmTrans ==
  ASSUME NEW c, NEW d, NEW e, Calm(c, d), Calm(d, e) PROVE Calm(c, e)
BY DEF Calm, Grows

(* Link operations that leave T1 alone.                                    *)
LEMMA ClrT2T1 == ASSUME NEW l \in Link PROVE ClrT2(l).T1 = l.T1
BY LinkElim DEF ClrT2, IsRec, Fields

LEMMA SetT2T1 == ASSUME NEW l \in Link, NEW s PROVE SetT2(l, s).T1 = l.T1
BY LinkElim DEF SetT2, IsRec, Fields

LEMMA ClrT3T1 == ASSUME NEW l \in Link PROVE ClrT3(l).T1 = l.T1
BY LinkElim DEF ClrT3, IsRec, Fields

LEMMA I2tolxT1 == ASSUME NEW l \in Link, NEW k PROVE I2tolx(l, k).T1 = l.T1
<1>1. IsRec(l) BY LinkElim
<1>2. ASSUME NEW r PROVE [l EXCEPT !.rcvd = r].T1 = l.T1 BY <1>1 DEF IsRec, Fields
<1> QED BY <1>2 DEF I2tolx

LEMMA ChangeMaxframeT1 ==
  ASSUME NEW l \in Link, NEW d PROVE ChangeMaxframe(l, d).T1 = l.T1
<1>1. IsRec(l) BY LinkElim
<1>2. ASSUME NEW k PROVE [l EXCEPT !.maxframe = k].T1 = l.T1 BY <1>1 DEF IsRec, Fields
<1>3. ASSUME NEW k, NEW g PROVE [l EXCEPT !.flag = g, !.maxframe = k].T1 = l.T1
  BY <1>1 DEF IsRec, Fields
<1> QED BY <1>2, <1>3 DEF ChangeMaxframe

LEMMA SendSCalm ==
  ASSUME NEW c \in Ctx, NEW t \in {"RR", "RNR", "REJ"}, NEW cmd \in BOOLEAN, NEW pf \in BOOLEAN
  PROVE  /\ Calm(c, SendS(c, t, cmd, pf))
         /\ cmd => Armed(SendS(c, t, cmd, pf).out)
<1> DEFINE f == [UFrame(t, cmd, pf, cmd) EXCEPT !.x = c.l.ext, !.nr = c.l.VR]
           m == [ClrT2(c.l) EXCEPT !.ltxdNR = c.l.VR]
<1>1. c.l \in Link BY DEF Ctx
<1>2. f \in Frame /\ f.t # "I" /\ f.t1 = cmd
  <2>1. UFrame(t, cmd, pf, cmd) \in Frame BY UFrameType DEF FrameTypes
  <2>2. c.l.ext \in BOOLEAN /\ c.l.VR \in 0 .. 127 BY <1>1, Numbers
  <2>3. f \in Frame BY <2>1, <2>2 DEF Frame
  <2>4. f.t = t /\ f.t1 = cmd BY DEF UFrame
  <2> QED BY <2>3, <2>4
<1>3. m \in Link /\ m.st = c.l.st /\ m.T1 = c.l.T1
  <2>1. IsRec(c.l) /\ Typed(c.l) BY <1>1, LinkElim
  <2>2. IsRec(m) BY <2>1, Put, Zenon DEF ClrT2
  <2>3. Typed(m) BY <2>1 DEF ClrT2, IsRec, Fields, Typed, RStypes
  <2>4. m.st = c.l.st /\ m.T1 = c.l.T1 BY <2>1 DEF ClrT2, IsRec, Fields
  <2> QED BY <2>2, <2>3, <2>4, LinkIntro
<1>4. SendS(c, t, cmd, pf) = [Send(c, f) EXCEPT !.l = m] BY DEF SendS
<1> HIDE DEF f, m
<1>5. Calm(c, Send(c, f)) /\ (cmd => Armed(Send(c, f).out)) BY <1>2, CalmSend
<1>6. Send(c, f) \in Ctx /\ Send(c, f).l = c.l BY <1>2, SendType
<1>7. /\ Calm(Send(c, f), [Send(c, f) EXCEPT !.l = m])
      /\ [Send(c, f) EXCEPT !.l = m].out = Send(c, f).out
  BY <1>3, <1>6, CalmLink, WithLink
<1> QED BY <1>4, <1>5, <1>7, CalmTrans

LEMMA SdiCalm ==
  ASSUME NEW c \in Ctx, NEW skip \in Nat, NEW max \in Int
  PROVE  Calm(c, Sdi(c, skip, max))
<1>1. c.l \in Link BY DEF Ctx
<1>2. IsRec(c.l) /\ Typed(c.l) BY <1>1, LinkElim
<1>3. c.l.maxframe \in Int BY <1>1, Numbers
<1>4. Len(c.l.sendil) \in Nat BY <1>1, SendilType
<1> DEFINE l == c.l
           some == Least(max, Least(Len(l.sendil) - skip, l.maxframe - skip))
           n == IF some < 0 THEN 0 ELSE some
           fs == [i \in 1 .. n |-> IFrame(l, skip, i)]
           m == [ClrT2(l) EXCEPT !.VS = Plus(l, l.VS, n), !.ltxdNR = l.VR]
           d == [c EXCEPT !.out = @ \o fs, !.l = m]
<1>5. n \in Nat /\ (n # 0 => skip + n <= Len(l.sendil)) BY <1>3, <1>4 DEF Least
<1>6. ASSUME n # 0 PROVE fs \in Seq(Frame) /\ Commands(fs)
  <2> HIDE DEF n
  <2>1. ASSUME NEW i \in 1 .. n PROVE IFrame(l, skip, i) \in Frame
    <3>1. i \in Nat \ {0} /\ skip + i <= Len(l.sendil) BY <1>4, <1>5, <1>6
    <3> HIDE DEF l
    <3> QED BY <1>1, <3>1, IFrameType DEF l
  <2>2. ASSUME NEW i PROVE IFrame(l, skip, i).cmd BY DEF IFrame
  <2> HIDE DEF l
  <2> QED BY <1>5, <2>1, <2>2 DEF Commands
<1>7. m.st = l.st /\ m.T1 = l.T1 BY <1>2 DEF ClrT2, IsRec, Fields
<1>8. Sdi(c, skip, max) = IF n = 0 THEN c ELSE d BY DEF Sdi
<1>9. CASE n = 0
  <2>1. Sdi(c, skip, max) = c BY <1>8, <1>9, Zenon
  <2> QED BY <2>1 DEF Calm, Grows
<1>10. CASE n # 0
  <2>1. Sdi(c, skip, max) = d BY <1>8, <1>10, Zenon
  <2>2. fs \in Seq(Frame) /\ Commands(fs) BY <1>6, <1>10
  <2> HIDE DEF fs, m, l, n
  <2>3. c.out \in Seq(Frame) /\ d.out = c.out \o fs /\ d.l = m BY DEF Ctx
  <2> HIDE DEF d
  <2>4. Grows(c, d) BY <2>2, <2>3, ConcatArmed DEF Grows
  <2> QED BY <1>7, <2>1, <2>3, <2>4 DEF Calm, l
<1> QED BY <1>9, <1>10

LEMMA SdoiCalm == ASSUME NEW c \in Ctx PROVE Calm(c, Sdoi(c))
<1> DEFINE q == [c.l EXCEPT !.VS = c.l.lrxdNR]
           b == [c EXCEPT !.l = q]
           again == Sdi(b, 0, OutsdI(c.l))
           m == [again.l EXCEPT !.VS = c.l.VS, !.flag = @ \ {"REPEAT"}]
<1>1. c.l \in Link BY DEF Ctx
<1>2. q \in Link /\ q.st = c.l.st /\ q.T1 = c.l.T1 /\ q.VS = q.lrxdNR
  <2>1. c.l.lrxdNR \in 0 .. 127 BY <1>1, Numbers
  <2>2. IsRec(c.l) BY <1>1, LinkElim
  <2>3. q.T1 = c.l.T1 /\ q.VS = q.lrxdNR BY <2>2 DEF IsRec, Fields
  <2>4. q \in Link /\ q.st = c.l.st BY <1>1, <2>1, WithVS
  <2> QED BY <2>3, <2>4
<1>3. Sdoi(c) = c \/ Sdoi(c) = [again EXCEPT !.l = m] BY DEF Sdoi
<1> HIDE DEF q
<1>4. b \in Ctx /\ Calm(c, b) BY <1>2, CalmLink, WithLink
<1>5. Calm(b, again) /\ again \in Ctx
  <2>1. OutsdI(c.l) \in 0 .. 127 BY <1>1, OutsdIType
  <2>2. OutsdI(c.l) \in Int BY <2>1
  <2>3. OutsdI(b.l) <= 0 /\ 0 \in Nat
    <3>1. OutsdI(q) = 0 BY <1>2, NothingOut
    <3>2. b.l = q BY <1>4 DEF Ctx
    <3> QED BY <3>1, <3>2
  <2> HIDE DEF b
  <2> QED BY <1>4, <2>2, <2>3, SdiCalm, SdiType DEF Keeps
<1>6. Calm(c, again)
  <2> HIDE DEF again, b
  <2> QED BY <1>4, <1>5, CalmTrans
<1> HIDE DEF again
<1>7. again.l \in Link BY <1>5 DEF Ctx
<1>8. m.st = again.l.st /\ m.T1 = again.l.T1
  <2>1. IsRec(again.l) BY <1>7, LinkElim
  <2> QED BY <2>1 DEF IsRec, Fields
<1> HIDE DEF m
<1>9. [again EXCEPT !.l = m].l = m /\ [again EXCEPT !.l = m].out = again.out BY <1>5 DEF Ctx
<1>10. Calm(c, [again EXCEPT !.l = m]) BY <1>6, <1>8, <1>9 DEF Calm, Grows
<1>11. Calm(c, c) BY DEF Calm, Grows
<1> QED BY <1>3, <1>10, <1>11

LEMMA SdipollCalm ==
  ASSUME NEW c \in Ctx PROVE Calm(c, Sdipoll(c)) /\ Armed(Sdipoll(c).out)
<1>1. c.l \in Link BY DEF Ctx
<1> DEFINE l == c.l
           f == [t |-> "I", cmd |-> TRUE, pf |-> TRUE, x |-> FALSE,
                 nr |-> l.VR % 8, ns |-> l.lrxdNR, d |-> l.sendil[1], t1 |-> TRUE]
           m == [ClrT3(ClrT2(l)) EXCEPT !.ltxdNR = l.VR]
           g == ShortFrames /\ l.tries < IpollRetry /\ l.sendil # <<>>
<1>2. ASSUME l.sendil # <<>> PROVE f \in Frame
  <2>1. l.lrxdNR \in 0 .. 127 /\ l.VR \in Int BY <1>1, Numbers, Integer
  <2>2. l.VR % 8 \in 0 .. 127 BY <2>1
  <2>3. l.sendil[1] \in Nat
    <3>1. l.sendil \in Seq(Nat) BY <1>1, SendilType
    <3> HIDE DEF l
    <3> QED BY <1>2, <3>1
  <2> HIDE DEF l
  <2> QED BY <2>1, <2>2, <2>3 DEF Frame, FrameTypes
<1>3. m.st = l.st /\ m.T1 = l.T1
  <2>1. IsRec(l) BY <1>1, LinkElim
  <2> QED BY <2>1 DEF ClrT2, ClrT3, IsRec, Fields
<1>4. Sdipoll(c) = IF g THEN [Send(c, f) EXCEPT !.l = m] ELSE SendS(c, "RR", TRUE, TRUE)
  BY DEF Sdipoll
<1>5. CASE g
  <2>1. f \in Frame BY <1>2, <1>5
  <2>2. f.cmd /\ f.t1 OBVIOUS
  <2> HIDE DEF f, m, l, g
  <2>3. Calm(c, Send(c, f)) /\ Armed(Send(c, f).out) BY <2>1, <2>2, CalmSend
  <2>4. Send(c, f) \in Ctx /\ Send(c, f).l = l BY <2>1, SendType DEF l
  <2>5. [Send(c, f) EXCEPT !.l = m].l = m /\ [Send(c, f) EXCEPT !.l = m].out = Send(c, f).out
    BY <2>4 DEF Ctx
  <2>6. Sdipoll(c) = [Send(c, f) EXCEPT !.l = m] BY <1>4, <1>5, Zenon
  <2> QED BY <1>3, <2>3, <2>4, <2>5, <2>6 DEF Calm, Grows
<1>6. CASE ~g
  <2> HIDE DEF f, m, l, g
  <2>1. Sdipoll(c) = SendS(c, "RR", TRUE, TRUE) BY <1>4, <1>6, Zenon
  <2> QED BY <2>1, SendSCalm
<1> QED BY <1>5, <1>6, Zenon

LEMMA XsabmCalm ==
  ASSUME NEW c \in Ctx PROVE Calm(c, Xsabm(c)) /\ Armed(Xsabm(c).out)
<1> DEFINE ext == (c.l.ext \/ EaxMode[c.n] = 3) /\ EaxMode[c.n] # 0
           f == UFrame(IF ext THEN "SABME" ELSE "SABM", TRUE, TRUE, TRUE)
           m == [c.l EXCEPT !.ext = ext]
<1>1. c.l \in Link BY DEF Ctx
<1>2. f \in Frame /\ f.t # "I" /\ f.t1
  <2> HIDE DEF ext
  <2>1. f \in Frame BY UFrameType DEF FrameTypes
  <2>2. f.t # "I" /\ f.t1 BY DEF UFrame
  <2> QED BY <2>1, <2>2
<1>3. m.st = c.l.st /\ m.T1 = c.l.T1
  <2>1. IsRec(c.l) BY <1>1, LinkElim
  <2> QED BY <2>1 DEF IsRec, Fields
<1>4. Xsabm(c) = [Send(c, f) EXCEPT !.l.ext = ext] BY DEF Xsabm
<1> HIDE DEF f, ext
<1>5. Calm(c, Send(c, f)) /\ Armed(Send(c, f).out) BY <1>2, CalmSend
<1>6. Send(c, f) \in Ctx /\ Send(c, f).l = c.l BY <1>2, SendType
<1>7. Xsabm(c) = [Send(c, f) EXCEPT !.l = m] BY <1>4, <1>6
<1> HIDE DEF m
<1>8. [Send(c, f) EXCEPT !.l = m].l = m /\ [Send(c, f) EXCEPT !.l = m].out = Send(c, f).out
  BY <1>6 DEF Ctx
<1> QED BY <1>3, <1>5, <1>6, <1>7, <1>8 DEF Calm, Grows

(* The functions that send a frame that starts T1.                         *)
T1Funcs == {"xsabm", "xdisc", "xfrmr", "xrrc", "xrnrc", "sdipoll"}

LEMMA FuncCalm ==
  ASSUME NEW c \in Ctx, NEW f \in Funcs
  PROVE  Calm(c, Func(c, f)) /\ (f \in T1Funcs => Armed(Func(c, f).out))
<1>1. c.pf \in BOOLEAN /\ c.l \in Link BY DEF Ctx
<1>2. CASE f = "xsabm"
  <2>1. Func(c, f) = Xsabm(c) BY <1>2 DEF Func
  <2> QED BY <2>1, XsabmCalm
<1>3. CASE f \in {"xdm", "xua", "xdisc", "xfrmr"}
  <2>1. PICK t \in {"DM", "UA", "DISC", "FRMR"}, cmd \in BOOLEAN, pf \in BOOLEAN,
             t1 \in BOOLEAN :
          /\ Func(c, f) = Send(c, UFrame(t, cmd, pf, t1))
          /\ f \in {"xdisc", "xfrmr"} => t1
    BY <1>1, <1>3 DEF Func, Xdisc, Xfrmr
  <2>2. UFrame(t, cmd, pf, t1) \in Frame BY UFrameType DEF FrameTypes
  <2>3. UFrame(t, cmd, pf, t1).t # "I" /\ UFrame(t, cmd, pf, t1).t1 = t1 BY DEF UFrame
  <2> QED BY <1>3, <2>1, <2>2, <2>3, CalmSend DEF T1Funcs
<1>4. CASE f \in {"xrrr", "xrnrr", "xrejr", "xrrc", "xrnrc"}
  <2>1. PICK t \in {"RR", "RNR", "REJ"}, cmd \in BOOLEAN, pf \in BOOLEAN :
          Func(c, f) = SendS(c, t, cmd, pf) /\ (f \in {"xrrc", "xrnrc"} => cmd)
    BY <1>1, <1>4 DEF Func
  <2> QED BY <1>4, <2>1, SendSCalm DEF T1Funcs
<1>5. CASE f \in {"t2rrr", "t2rnrr", "t2rejr"}
  <2>1. PICK s \in RStypes : Func(c, f) = [c EXCEPT !.l = SetT2(c.l, s)]
    BY <1>5 DEF Func, RStypes
  <2>2. SetT2(c.l, s) \in Link /\ SetT2(c.l, s).st = c.l.st BY <1>1, SetT2Type DEF Same
  <2>3. SetT2(c.l, s).T1 = c.l.T1 BY <1>1, SetT2T1
  <2> QED BY <1>5, <2>1, <2>2, <2>3, CalmLink DEF T1Funcs
<1>6. CASE f = "sdipoll"
  <2>1. Func(c, f) = Sdipoll(c) BY <1>6 DEF Func
  <2> QED BY <2>1, SdipollCalm
<1>7. CASE f = "xnull"
  <2>1. Func(c, f) = c BY <1>7 DEF Func
  <2> QED BY <1>7, <2>1 DEF Calm, Grows, T1Funcs
<1> QED BY <1>2, <1>3, <1>4, <1>5, <1>6, <1>7 DEF Funcs

-----------------------------------------------------------------------------
(* The state tables.                                                       *)

(* Events whose message function stops T1.                                 *)
Clearing == {"CONNT", "DISCF", "FAILW", "BUSYF", "LRESF", "LREST"}

(* A table that brings a link to wait for an answer sends a frame that     *)
(* starts T1, or finds it waiting and does not stop T1.                    *)
Starts(e) == e.next \in Awaiting => e.func \in T1Funcs

Waits(t) == \A s \in States : Starts(t[s]) \/ (s \in Awaiting /\ t[s].msg \notin Clearing)

LEMMA WaitsAll ==
  /\ Waits(stbl00) /\ Waits(stbl01) /\ Waits(stbl02) /\ Waits(stbl03)
  /\ Waits(stbl06) /\ Waits(stbl07) /\ Waits(stbl08) /\ Waits(stbl09)
  /\ Waits(stbl10) /\ Waits(stbl14) /\ Waits(stbl16) /\ Waits(stbl17)
  /\ Waits(stbl18) /\ Waits(stbl19) /\ Waits(stbl20) /\ Waits(stbl21)
  /\ Waits(stbl22) /\ Waits(stbl23) /\ Waits(stbl24) /\ Waits(stbl25)
  /\ Waits(stbl26) /\ Waits(stb26b) /\ Waits(stbl27)
<1> USE DEF Waits, Starts, Awaiting, WaitStates, T1Funcs, Clearing, Table,
            Column, States, L2SDSCED, L2SLKSUP, L2SFRREJ, L2SDSCRQ, L2SWA,
            L2SWADBS, L2SWARBS, L2SWABBS, Down, Setup, Quiet, Silent, PollQuiet,
            RRorRNR, T2RRorRNR, RemoteReady, RemoteBusy, Polled
<1>1. Waits(stbl00) BY SMTT(40) DEF stbl00
<1>2. Waits(stbl01) BY SMTT(40) DEF stbl01
<1>3. Waits(stbl02) BY SMTT(40) DEF stbl02
<1>4. Waits(stbl03) BY SMTT(40) DEF stbl03
<1>5. Waits(stbl06) BY SMTT(40) DEF stbl06
<1>6. Waits(stbl07) BY SMTT(40) DEF stbl07
<1>7. Waits(stbl08) BY SMTT(40) DEF stbl08
<1>8. Waits(stbl09) BY SMTT(40) DEF stbl09
<1>9. Waits(stbl10) BY SMTT(40) DEF stbl10
<1>10. Waits(stbl14) BY SMTT(40) DEF stbl14
<1>11. Waits(stbl16) BY SMTT(40) DEF stbl16
<1>12. Waits(stbl17) BY SMTT(40) DEF stbl17
<1>13. Waits(stbl18) BY SMTT(40) DEF stbl18
<1>14. Waits(stbl19) BY SMTT(40) DEF stbl19
<1>15. Waits(stbl20) BY SMTT(40) DEF stbl20
<1>16. Waits(stbl21) BY SMTT(40) DEF stbl21
<1>17. Waits(stbl22) BY SMTT(40) DEF stbl22
<1>18. Waits(stbl23) BY SMTT(40) DEF stbl23
<1>19. Waits(stbl24) BY SMTT(40) DEF stbl24
<1>20. Waits(stbl25) BY SMTT(40) DEF stbl25
<1>21. Waits(stbl26) BY SMTT(40) DEF stbl26
<1>22. Waits(stb26b) BY SMTT(40) DEF stb26b
<1>23. Waits(stbl27) BY SMTT(40) DEF stbl27
<1> HIDE DEF Waits
<1> QED BY <1>1, <1>2, <1>3, <1>4, <1>5, <1>6, <1>7, <1>8, <1>9, <1>10, <1>11, <1>12,
           <1>13, <1>14, <1>15, <1>16, <1>17, <1>18, <1>19, <1>20, <1>21, <1>22, <1>23

(* The tables that are entered with T1 stopped.                            *)
LEMMA StartsAll ==
  ASSUME NEW s \in States
  PROVE  /\ Starts(stbl19[s]) /\ Starts(stbl20[s]) /\ Starts(stbl23[s]) /\ Starts(stbl25[s])
         /\ s \in Transfer =>
              Starts(stbl10[s]) /\ Starts(stbl14[s]) /\ Starts(stbl27[s])
<1> USE DEF Starts, Awaiting, WaitStates, T1Funcs, Transfer, Table,
            Column, States, L2SDSCED, L2SLKSUP, L2SFRREJ, L2SDSCRQ, L2SWA,
            L2SWADBS, L2SWARBS, L2SWABBS, Down, Setup, Quiet, Silent, PollQuiet,
            RRorRNR, T2RRorRNR, RemoteReady, RemoteBusy, Polled
<1>1. Starts(stbl19[s]) BY SMTT(40) DEF stbl19
<1>2. Starts(stbl20[s]) BY SMTT(40) DEF stbl20
<1>3. Starts(stbl23[s]) BY SMTT(40) DEF stbl23
<1>4. Starts(stbl25[s]) BY SMTT(40) DEF stbl25
<1>5. s \in Transfer => Starts(stbl10[s]) BY SMTT(40) DEF stbl10
<1>6. s \in Transfer => Starts(stbl14[s]) BY SMTT(40) DEF stbl14
<1>7. s \in Transfer => Starts(stbl27[s]) BY SMTT(40) DEF stbl27
<1> HIDE DEF Starts
<1> QED BY <1>1, <1>2, <1>3, <1>4, <1>5, <1>6, <1>7

-----------------------------------------------------------------------------
(* Contexts that are timed.                                                *)

(* b says whether a frame that starts T1 is already with the driver.       *)
Timed(c, b) ==
  /\ Commands(c.out)
  /\ c.l.st \in Awaiting => c.l.T1 \/ b \/ Armed(c.out)

LEMMA MessageSt ==
  ASSUME NEW l \in Link, NEW m \in Msgs
  PROVE  Message(l, m).st = l.st /\ (m \notin Clearing => Message(l, m) = l)
<1>1. /\ IniLnk(l).st = l.st /\ ClrLnk(l).st = l.st /\ ResLnk(l).st = l.st
  BY IniLnkType, ClrLnkType, ResLnkType
<1>2. Message(l, m) \in {IniLnk(l), ClrLnk(l), ResLnk(l), l} BY DEF Message
<1>3. m \notin Clearing => Message(l, m) = l BY DEF Message, Clearing
<1> QED BY <1>1, <1>2, <1>3

LEMMA StmaTimed ==
  ASSUME NEW c \in Ctx, NEW t, TableOK(t), Commands(c.out), NEW b,
         Starts(t[c.l.st]) \/ (Waits(t) /\ Timed(c, b))
  PROVE  Timed(Stma(c, t), b)
<1> DEFINE e == t[c.l.st]
           d == Func(c, e.func)
           p == [d.l EXCEPT !.st = e.next]
           q == Message(p, e.msg)
<1>1. c.l \in Link BY DEF Ctx
<1>2. c.l.st \in States
  <2>1. Typed(c.l) BY <1>1, LinkElim
  <2> QED BY <2>1, Zenon DEF Typed
<1>3. e.func \in Funcs /\ e.next \in States /\ e.msg \in Msgs BY <1>2 DEF TableOK
<1>4. Starts(e) \/ (Timed(c, b) /\ c.l.st \in Awaiting /\ e.msg \notin Clearing)
  BY <1>2 DEF Waits
<1>5. Stma(c, t) = [d EXCEPT !.l = q] BY DEF Stma
<1> HIDE DEF e
<1>6. d \in Ctx /\ Calm(c, d) /\ (e.func \in T1Funcs => Armed(d.out)) BY <1>3, FuncType, FuncCalm
<1> HIDE DEF d
<1>7. d.l \in Link BY <1>6 DEF Ctx
<1>8. p \in Link /\ p.st = e.next BY <1>3, <1>7, WithSt
<1>9. p.T1 = d.l.T1
  <2>1. IsRec(d.l) BY <1>7, LinkElim
  <2> QED BY <2>1 DEF IsRec, Fields
<1> HIDE DEF p
<1>10. q.st = p.st /\ (e.msg \notin Clearing => q = p) BY <1>3, <1>8, MessageSt
<1> HIDE DEF q
<1>11. Stma(c, t).l = q /\ Stma(c, t).out = d.out BY <1>5, <1>6 DEF Ctx
<1>12. Commands(d.out) BY <1>6 DEF Calm, Grows
<1>13. CASE Starts(e)
  BY <1>6, <1>8, <1>10, <1>11, <1>12, <1>13 DEF Timed, Starts
<1>14. CASE Timed(c, b) /\ c.l.st \in Awaiting /\ e.msg \notin Clearing
  BY <1>6, <1>9, <1>10, <1>11, <1>12, <1>14 DEF Timed, Calm, Grows
<1> QED BY <1>4, <1>13, <1>14

LEMMA CalmTimed ==
  ASSUME NEW c, NEW d, NEW b, Timed(c, b), Calm(c, d) PROVE Timed(d, b)
BY DEF Timed, Calm, Grows

LEMMA TimedStma ==
  ASSUME NEW c, NEW a, Handled(c, a), NEW b, Timed(a, b), NEW t, TableOK(t), Waits(t)
  PROVE  Timed(Stma(a, t), b)
<1>1. a \in Ctx BY LinkIn
<1>2. Commands(a.out) BY DEF Timed
<1> QED BY <1>1, <1>2, StmaTimed

LEMMA TimedStart ==
  ASSUME NEW a, a \in Ctx, NEW b, Commands(a.out), NEW t, TableOK(t), Starts(t[a.l.st])
  PROVE  Timed(Stma(a, t), b)
BY StmaTimed

LEMMA StType == ASSUME NEW l \in Link PROVE l.st \in States
<1>1. Typed(l) BY LinkElim
<1> QED BY <1>1, Zenon DEF Typed

LEMMA SdfrmrTimed ==
  ASSUME NEW c \in Ctx, NEW b, Timed(c, b) \/ (Commands(c.out) /\ c.l.st \in Transfer)
  PROVE  Timed(Sdfrmr(c), b)
<1> DEFINE m == ClrT2(ClrT1(c.l))
           d == [c EXCEPT !.l = m]
<1>1. c.l \in Link BY DEF Ctx
<1>2. Same(c.l, ClrT1(c.l)) BY <1>1, ClrT1Type
<1>3. Same(ClrT1(c.l), m) BY <1>2, ClrT2Type DEF Same
<1>4. m \in Link /\ m.st = c.l.st BY <1>2, <1>3 DEF Same
<1>5. CASE c.l.st \notin Transfer
  <2>1. Sdfrmr(c) = c BY <1>5 DEF Sdfrmr
  <2> QED BY <1>5, <2>1
<1>6. CASE c.l.st \in Transfer
  <2>1. Sdfrmr(c) = Stma(d, stbl27) BY <1>6 DEF Sdfrmr
  <2> HIDE DEF m
  <2>2. d \in Ctx /\ d.l = m /\ d.out = c.out BY <1>4, WithLink
  <2> HIDE DEF d
  <2>3. Starts(stbl27[d.l.st]) BY <1>1, <1>4, <1>6, <2>2, StType, StartsAll
  <2>4. Commands(d.out) BY <2>2 DEF Timed
  <2> QED BY <2>1, <2>2, <2>3, <2>4, TimedStart, TablesOK
<1> QED BY <1>5, <1>6

(* srxdNR: T1 stops, but in a state that waits for the final only when the *)
(* final has come.                                                         *)
LEMMA FinalT1 ==
  ASSUME NEW l \in Link, NEW f, ~(~f.cmd /\ f.pf) PROVE Final(l, f).T1
<1>1. IsRec(l) BY LinkElim
<1>2. Final(l, f) = [l EXCEPT !.T1 = TRUE] BY DEF Final
<1> QED BY <1>1, <1>2 DEF IsRec, Fields

LEMMA SrxdNRT1 ==
  ASSUME NEW l \in Link, NEW f \in Frame, ~BadNR(l, f)
  PROVE  /\ l.st \notin Transfer => SrxdNR(l, f) = l
         /\ l.st \in WaitStates /\ ~(~f.cmd /\ f.pf) => SrxdNR(l, f).T1
<1> DEFINE done == Acknowledged(l, f)
<1>1. l.st \notin Transfer => SrxdNR(l, f) = l BY DEF SrxdNR
<1>2. CASE l.st \in WaitStates
  <2>1. l.st \in Transfer
    BY <1>2 DEF WaitStates, Transfer, L2SWA, L2SWADBS, L2SWARBS, L2SWABBS
  <2>2. SrxdNR(l, f) = Final(done, f) BY <1>2, <2>1 DEF SrxdNR, Acknowledged
  <2>3. done \in Link BY <2>1, AcknowledgedType DEF Same
  <2> HIDE DEF done
  <2> QED BY <1>1, <2>2, <2>3, FinalT1
<1> QED BY <1>1, <1>2

LEMMA WithTriesT1 == ASSUME NEW l \in Link, NEW k PROVE [l EXCEPT !.tries = k].T1 = l.T1
BY LinkElim DEF IsRec, Fields

(* A context after srxdNR, for a frame that is no final.                   *)
LEMMA SrxdNRTimed ==
  ASSUME NEW c \in Ctx, Sound(c.l), NEW b, Timed(c, b), NEW f \in Frame, ~(~f.cmd /\ f.pf),
         ~BadNR(c.l, f), NEW m, m \in Link, m.st = c.l.st, m.T1 = SrxdNR(c.l, f).T1
  PROVE  Timed([c EXCEPT !.l = m], b)
<1>1. c.l \in Link BY DEF Ctx
<1>2. [c EXCEPT !.l = m].l = m /\ [c EXCEPT !.l = m].out = c.out BY WithLink
<1>3. CASE c.l.st \notin Transfer
  <2>1. m.T1 = c.l.T1 BY <1>1, <1>3, SrxdNRT1
  <2> QED BY <1>2, <2>1 DEF Timed
<1>4. CASE c.l.st \in WaitStates
  <2>1. m.T1 BY <1>1, <1>4, SrxdNRT1
  <2> QED BY <1>2, <2>1 DEF Timed
<1>5. CASE c.l.st \in Transfer \ WaitStates
  <2>1. c.l.st \notin Awaiting
    BY <1>5 DEF Awaiting, Transfer, L2SLKSUP, L2SFRREJ, L2SDSCRQ
  <2> QED BY <1>2, <2>1 DEF Timed
<1> QED BY <1>3, <1>4, <1>5

LEMMA TimedLink ==
  ASSUME NEW c \in Ctx, NEW b, Timed(c, b), NEW m \in Link, m.st = c.l.st, m.T1 = c.l.T1
  PROVE  Timed([c EXCEPT !.l = m], b)
BY CalmLink, CalmTimed

-----------------------------------------------------------------------------
(* l2rx.                                                                   *)

LEMMA AcceptITimed ==
  ASSUME NEW c \in Ctx, Sound(c.l), NEW b, Timed(c, b), NEW f \in Frame
  PROVE  Timed(AcceptI(c, f), b)
<1> DEFINE open == c.l.st \in Transfer /\ ~LinkBusy(c.l)
           l == IF open THEN [c.l EXCEPT !.VR = Plus(c.l, c.l.VR, 1)] ELSE c.l
           m == [l EXCEPT !.tries = 0]
           a == [c EXCEPT !.l = m]
           d == Stma(a, IF f.pf THEN stbl00 ELSE stbl01)
           full == (d.l.VR - d.l.ltxdNR) % Mod(d.l) = Mod(d.l) - 1
           kept == d.l.flag \cap {"DSLE", "DIMM"} = {}
           t2 == d.l.T2 /\ ~full
           rcvd == IF open /\ kept THEN d.l.rcvd + 1 ELSE d.l.rcvd
           busyrx == IF open /\ "BUSY" \in d.l.flag THEN (d.l.busyrx + 1) % 256 ELSE d.l.busyrx
           last == IF open THEN f.d ELSE d.l.last
           got == IF open THEN d.l.got \cup {f.d} ELSE d.l.got
           p == [d.l EXCEPT !.T2 = t2, !.rcvd = rcvd, !.busyrx = busyrx, !.last = last, !.got = got]
<1>1. c.l \in Link BY DEF Ctx
<1>2. AcceptI(c, f) = [d EXCEPT !.l = p] BY DEF AcceptI
<1>3. Same(c.l, l) /\ l.T1 = c.l.T1
  <2>1. c.l.VR \in Int BY <1>1, Integer
  <2>2. Plus(c.l, c.l.VR, 1) \in 0 .. 127 BY <2>1, PlusRange
  <2>3. Plus(c.l, c.l.VR, 1) \in 0 .. Mod(c.l) - 1 BY <2>1, PlusType
  <2> DEFINE v == [c.l EXCEPT !.VR = Plus(c.l, c.l.VR, 1)]
  <2>4. Same(c.l, v) BY <1>1, <2>2, <2>3, WithVR DEF Same
  <2>5. Same(c.l, c.l) BY <1>1 DEF Same
  <2>6. v.T1 = c.l.T1
    <3>1. IsRec(c.l) BY <1>1, LinkElim
    <3> QED BY <3>1 DEF IsRec, Fields
  <2> HIDE DEF v, open
  <2>7. l = v \/ l = c.l BY DEF v
  <2> HIDE DEF l
  <2> QED BY <2>4, <2>5, <2>6, <2>7
<1> HIDE DEF l, open
<1>4. m \in Link /\ m.st = c.l.st /\ m.T1 = c.l.T1 /\ Same(c.l, m)
  <2>1. l \in Link /\ 0 \in 0 .. 127 BY <1>3 DEF Same
  <2>2. Same(l, m) BY <2>1, WithTries, Zenon
  <2>3. m.T1 = l.T1 BY <2>1, WithTriesT1
  <2> HIDE DEF m
  <2> QED BY <1>3, <2>2, <2>3 DEF Same
<1> HIDE DEF m
<1>5. Handled(c, a) /\ Timed(a, b) BY <1>1, <1>4, HandledSame, TimedLink
<1> HIDE DEF a
<1>6. Handled(c, d) /\ Timed(d, b)
  <2> DEFINE t == IF f.pf THEN stbl00 ELSE stbl01
  <2>1. TableOK(t) /\ Waits(t) BY TablesOK, WaitsAll
  <2> HIDE DEF t
  <2>2. Handled(c, Stma(a, t)) BY <1>5, <2>1, HandledStma
  <2>3. Timed(Stma(a, t), b) BY <1>5, <2>1, TimedStma
  <2> QED BY <2>2, <2>3 DEF t
<1> HIDE DEF d
<1>7. d \in Ctx /\ d.l \in Link BY <1>6, LinkIn
<1>8. p.st = d.l.st /\ p.T1 = d.l.T1
  <2>1. IsRec(d.l) BY <1>7, LinkElim
  <2> HIDE DEF t2, rcvd, busyrx, last, got
  <2> QED BY <2>1 DEF IsRec, Fields
<1> HIDE DEF p
<1>9. [d EXCEPT !.l = p].l = p /\ [d EXCEPT !.l = p].out = d.out BY <1>7 DEF Ctx
<1> QED BY <1>2, <1>6, <1>8, <1>9 DEF Timed

LEMMA RxITimed ==
  ASSUME NEW c \in Ctx, Sound(c.l), NEW b, Timed(c, b), NEW f \in Frame, f.cmd
  PROVE  Timed(RxI(c, f), b)
<1> DEFINE m == SrxdNR(c.l, f)
           a == [c EXCEPT !.l = m]
           t == IF f.pf THEN stb26b ELSE stbl26
<1>1. c.l \in Link BY DEF Ctx
<1>12. Timed(Sdfrmr(c), b) BY SdfrmrTimed
<1>13. CASE BadNR(c.l, f) BY <1>12, <1>13 DEF RxI
<1>14. SUFFICES ASSUME ~BadNR(c.l, f) PROVE Timed(RxI(c, f), b) BY <1>13
<1>2. Same(c.l, m) BY <1>1, <1>14, SrxdNRType
<1>3. m \in Link /\ m.st = c.l.st BY <1>2 DEF Same
<1>4. Timed(a, b) BY <1>3, <1>14, SrxdNRTimed
<1>5. Handled(c, a) BY <1>2, HandledSame
<1>6. RxI(c, f) \in {Sdfrmr(c), AcceptI(a, f), Stma(a, t), Sdfrmr(a)} BY DEF RxI
<1> HIDE DEF a
<1>7. a \in Ctx /\ Sound(a.l) BY <1>5, LinkIn
<1>9. Timed(Sdfrmr(a), b) BY <1>4, <1>7, SdfrmrTimed
<1>10. Timed(AcceptI(a, f), b) BY <1>4, <1>7, AcceptITimed
<1>11. Timed(Stma(a, t), b)
  <2>1. TableOK(t) /\ Waits(t) BY TablesOK, WaitsAll
  <2> HIDE DEF t
  <2> QED BY <1>4, <1>5, <2>1, TimedStma
<1> QED BY <1>6, <1>9, <1>10, <1>11, <1>12

LEMMA RepeatCalm == ASSUME NEW c \in Ctx PROVE Calm(c, Repeat(c))
<1>1. c.l \in Link BY DEF Ctx
<1> DEFINE m == [c.l EXCEPT !.flag = c.l.flag \cup {"REPEAT"}]
<1>2. Repeat(c) = [c EXCEPT !.l = m] BY DEF Repeat
<1>3. m.st = c.l.st /\ m.T1 = c.l.T1
  <2>1. IsRec(c.l) BY <1>1, LinkElim
  <2> QED BY <2>1 DEF IsRec, Fields
<1> HIDE DEF m
<1>4. Repeat(c).l = m /\ Repeat(c).out = c.out BY <1>2 DEF Ctx
<1> QED BY <1>3, <1>4 DEF Calm, Grows

LEMMA RxSTimed ==
  ASSUME NEW c \in Ctx, Sound(c.l), NEW b, Timed(c, b), NEW f \in Frame,
         f.t \in {"RR", "RNR", "REJ"}
  PROVE  Timed(RxS(c, f), b)
<1> DEFINE m == [SrxdNR(c.l, f) EXCEPT !.tries = 0]
           a == [c EXCEPT !.l = m]
           t == STable(f)
           d == Stma(a, t)
           e == [d EXCEPT !.l = ChangeMaxframe(d.l, -1)]
<1>1. c.l \in Link BY DEF Ctx
<1>15. Timed(Sdfrmr(c), b) BY SdfrmrTimed
<1>16. CASE BadNR(c.l, f) BY <1>15, <1>16 DEF RxS
<1>17. SUFFICES ASSUME ~BadNR(c.l, f) PROVE Timed(RxS(c, f), b) BY <1>16
<1>2. Same(c.l, m) /\ m.T1 = SrxdNR(c.l, f).T1
  <2>1. Same(c.l, SrxdNR(c.l, f)) BY <1>1, <1>17, SrxdNRType
  <2>2. SrxdNR(c.l, f) \in Link /\ 0 \in 0 .. 127 BY <2>1 DEF Same
  <2>3. Same(SrxdNR(c.l, f), m) BY <2>2, WithTries, Zenon
  <2>4. m.T1 = SrxdNR(c.l, f).T1 BY <2>2, WithTriesT1
  <2> HIDE DEF m
  <2> QED BY <2>1, <2>3, <2>4, SameTrans
<1>3. RxS(c, f) \in {Sdfrmr(c), Repeat(d), Sdoi(Repeat(e)), d} BY DEF RxS
<1>4. f.pf \in BOOLEAN /\ f.cmd \in BOOLEAN BY DEF Frame
<1>5. m \in Link /\ m.st = c.l.st BY <1>2 DEF Same
<1>6. Handled(c, a) /\ a.l = m /\ a.out = c.out
  <2> HIDE DEF m
  <2> QED BY <1>2, <1>5, HandledSame, WithLink
<1>7. Timed(d, b)
  <2>1. TableOK(t) /\ Waits(t) BY <1>4, TablesOK, WaitsAll DEF STable
  <2>2. CASE ~(~f.cmd /\ f.pf)
    <3>1. Timed(a, b)
      <4> HIDE DEF m
      <4> QED BY <1>2, <1>5, <1>17, <2>2, SrxdNRTimed
    <3> HIDE DEF a, t
    <3> QED BY <1>6, <2>1, <3>1, TimedStma
  <2>3. CASE ~f.cmd /\ f.pf /\ c.l.st \notin Transfer
    <3>1. m.T1 = c.l.T1 BY <1>1, <1>2, <1>17, <2>3, SrxdNRT1
    <3>2. Timed(a, b)
      <4> HIDE DEF m
      <4> QED BY <1>5, <3>1, TimedLink
    <3> HIDE DEF a, t
    <3> QED BY <1>6, <2>1, <3>2, TimedStma
  <2>4. CASE ~f.cmd /\ f.pf /\ c.l.st \in Transfer
    <3>1. t \in {stbl10, stbl14} BY <2>4 DEF STable
    <3>2. a.l.st \in Transfer /\ a.l.st \in States
      <4> HIDE DEF a, m
      <4> QED BY <1>1, <1>5, <1>6, <2>4, StType
    <3>3. Starts(t[a.l.st])
      <4> HIDE DEF a, t
      <4> QED BY <3>1, <3>2, StartsAll
    <3>4. Commands(a.out)
      <4> HIDE DEF a
      <4> QED BY <1>6 DEF Timed
    <3>5. a \in Ctx BY <1>6, LinkIn
    <3> HIDE DEF a, t
    <3> QED BY <2>1, <3>3, <3>4, <3>5, TimedStart
  <2> QED BY <1>4, <2>2, <2>3, <2>4
<1> HIDE DEF m
<1>8. Handled(c, d)
  <2>1. TableOK(t) BY <1>4, TablesOK DEF STable
  <2> HIDE DEF a, t
  <2> QED BY <1>6, <2>1, HandledStma
<1> HIDE DEF d, a
<1>9. d \in Ctx /\ d.l \in Link /\ Sound(d.l) BY <1>8, LinkIn
<1>10. Timed(Repeat(d), b) BY <1>7, <1>9, RepeatCalm, CalmTimed
<1>11. Timed(e, b) /\ e \in Ctx
  <2>1. ChangeMaxframe(d.l, -1) \in Link /\ ChangeMaxframe(d.l, -1).st = d.l.st
    BY <1>9, ChangeMaxframeType DEF Same
  <2>2. ChangeMaxframe(d.l, -1).T1 = d.l.T1 BY <1>9, ChangeMaxframeT1
  <2> QED BY <1>7, <1>9, <2>1, <2>2, TimedLink, WithLink
<1>12. Handled(d, e)
  <2>1. Same(d.l, ChangeMaxframe(d.l, -1)) BY <1>9, ChangeMaxframeType
  <2> QED BY <1>9, <2>1, HandledSame
<1> HIDE DEF e
<1>13. Timed(Sdoi(Repeat(e)), b)
  <2>1. Timed(Repeat(e), b) BY <1>11, RepeatCalm, CalmTimed
  <2>2. Repeat(e) \in Ctx BY <1>12, LinkIn, RepeatType
  <2> QED BY <2>1, <2>2, SdoiCalm, CalmTimed
<1> QED BY <1>3, <1>7, <1>10, <1>13, <1>15

LEMMA WithExtT1 == ASSUME NEW l \in Link, NEW e PROVE [l EXCEPT !.ext = e].T1 = l.T1
BY LinkElim DEF IsRec, Fields

LEMMA RxSABMTimed ==
  ASSUME NEW c \in Ctx, NEW b, Timed(c, b), NEW f
  PROVE  Timed(RxSABM(c, f), b)
<1> DEFINE e == f.t = "SABME"
           k == IF e THEN MaxframeExt ELSE c.l.maxframe
           m == [c.l EXCEPT !.ext = e, !.maxframe = k]
           d == [c EXCEPT !.l = m]
<1>1. c.l \in Link BY DEF Ctx
<1>2. m \in Link
  <2>1. e \in BOOLEAN OBVIOUS
  <2>2. k \in 1 .. 127
    <3>1. c.l.maxframe \in 1 .. 127 BY <1>1, Numbers
    <3> QED BY <3>1, WindowAssumption
  <2> HIDE DEF e, k
  <2> QED BY <1>1, <2>1, <2>2, WithMode
<1>3. m.st = c.l.st /\ m.T1 = c.l.T1
  <2>1. IsRec(c.l) BY <1>1, LinkElim
  <2> HIDE DEF e, k
  <2> QED BY <2>1 DEF IsRec, Fields
<1>4. RxSABM(c, f) \in {Func(c, "xdm"), Stma(d, stbl08)} BY DEF RxSABM
<1> HIDE DEF m
<1>5. d \in Ctx /\ Timed(d, b) BY <1>2, <1>3, WithLink, TimedLink
<1> HIDE DEF d
<1>6. Commands(d.out) BY <1>5 DEF Timed
<1>7. Timed(Stma(d, stbl08), b) BY <1>5, <1>6, StmaTimed, TablesOK, WaitsAll
<1>8. Timed(Func(c, "xdm"), b) BY FuncCalm, CalmTimed DEF Funcs
<1> QED BY <1>4, <1>7, <1>8

LEMMA RxUTimed ==
  ASSUME NEW c \in Ctx, Sound(c.l), NEW b, Timed(c, b), NEW f \in Frame,
         f.t \notin {"I", "RR", "RNR", "REJ"}
  PROVE  Timed(RxU(c, f), b)
<1> DEFINE a == [c EXCEPT !.l = ClrT3(c.l)]
           g == IF f.pf /\ f.cmd THEN "xdm" ELSE "xua"
           e == (EaxMode[c.n] = 3)
           m == [a.l EXCEPT !.ext = e]
           d == [a EXCEPT !.l = m]
<1>1. c.l \in Link BY DEF Ctx
<1>2. Handled(c, a) BY <1>1, ClrT3Type, HandledSame
<1>3. Timed(a, b)
  <2>1. ClrT3(c.l) \in Link /\ ClrT3(c.l).st = c.l.st /\ ClrT3(c.l).T1 = c.l.T1
    BY <1>1, ClrT3Type, ClrT3T1 DEF Same
  <2> QED BY <2>1, TimedLink
<1>4. f.t \in FrameTypes BY DEF Frame
<1>5. RxU(c, f) \in {RxSABM(a, f), Func(a, g), Stma(a, stbl09), Stma(a, stbl16),
                     d, Stma(a, stbl17), Stma(c, stbl18)}
  <2>1. d = [a EXCEPT !.l.ext = (EaxMode[c.n] = 3)] OBVIOUS
  <2> HIDE DEF d
  <2>2. CASE f.t \in {"SABM", "SABME"} BY <2>2 DEF RxU
  <2>3. CASE f.t = "DISC" BY <2>3 DEF RxU
  <2>4. CASE f.t = "UA" BY <2>4 DEF RxU
  <2>5. CASE f.t = "DM" BY <2>1, <2>5 DEF RxU
  <2>6. CASE f.t = "FRMR" BY <2>6 DEF RxU
  <2> QED BY <1>4, <2>2, <2>3, <2>4, <2>5, <2>6 DEF FrameTypes
<1> HIDE DEF a
<1>6. a \in Ctx /\ a.l \in Link BY <1>2, LinkIn
<1>7. Timed(RxSABM(a, f), b) BY <1>3, <1>6, RxSABMTimed
<1>8. Timed(Func(a, g), b)
  <2>1. g \in Funcs BY DEF Funcs
  <2> HIDE DEF g
  <2> QED BY <1>3, <1>6, <2>1, FuncCalm, CalmTimed
<1>9. Timed(Stma(a, stbl09), b) /\ Timed(Stma(a, stbl16), b) /\ Timed(Stma(a, stbl17), b)
  BY <1>2, <1>3, TimedStma, TablesOK, WaitsAll
<1>10. Timed(Stma(c, stbl18), b)
  <2>1. Handled(c, c) BY DEF Handled
  <2> QED BY <2>1, TimedStma, TablesOK, WaitsAll
<1>11. Timed(d, b)
  <2>1. e \in BOOLEAN OBVIOUS
  <2> HIDE DEF e
  <2>2. m \in Link /\ m.st = a.l.st /\ m.T1 = a.l.T1 BY <1>6, <2>1, WithExt, WithExtT1
  <2> HIDE DEF m
  <2> QED BY <1>3, <1>6, <2>2, TimedLink
<1> QED BY <1>5, <1>7, <1>8, <1>9, <1>10, <1>11

LEMMA L2rxTimed ==
  ASSUME NEW c \in Ctx, Sound(c.l), NEW b, Timed(c, b), NEW f \in Frame, f.t = "I" => f.cmd
  PROVE  Timed(L2rx(c, f), b)
<1>1. CASE f.t = "I"
  <2>1. L2rx(c, f) = RxI(c, f) BY <1>1 DEF L2rx
  <2> QED BY <1>1, <2>1, RxITimed
<1>2. CASE f.t \in {"RR", "RNR", "REJ"}
  <2>1. L2rx(c, f) = RxS(c, f) BY <1>2 DEF L2rx
  <2> QED BY <1>2, <2>1, RxSTimed
<1>3. CASE f.t \notin {"I", "RR", "RNR", "REJ"}
  <2>1. L2rx(c, f) = RxU(c, f) BY <1>3 DEF L2rx
  <2> QED BY <1>3, <2>1, RxUTimed
<1> QED BY <1>1, <1>2, <1>3

LEMMA NoLinkTimed ==
  ASSUME NEW c \in Ctx, NEW b, Timed(c, b), NEW f
  PROVE  Timed(NoLink(c, f), b)
<1>1. NoLink(c, f) \in {Func(c, "xdm"), Func(c, "xua"), c} BY DEF NoLink
<1>2. Timed(Func(c, "xdm"), b) /\ Timed(Func(c, "xua"), b) BY FuncCalm, CalmTimed DEF Funcs
<1> QED BY <1>1, <1>2

-----------------------------------------------------------------------------
(* l2tx and l2timr.                                                        *)

LEMMA L2txTimed ==
  ASSUME NEW c \in Ctx, NEW b, Timed(c, b) PROVE Timed(L2tx(c), b)
<1>1. c.l \in Link BY DEF Ctx
<1>2. L2tx(c) \in {c, Sdoi(c), Sdi(c, OutsdI(c.l), c.l.maxframe)} BY DEF L2tx
<1>3. Timed(Sdoi(c), b) BY SdoiCalm, CalmTimed
<1>4. Timed(Sdi(c, OutsdI(c.l), c.l.maxframe), b)
  <2>1. OutsdI(c.l) \in 0 .. 127 /\ c.l.maxframe \in 1 .. 127 BY <1>1, OutsdIType, Numbers
  <2>2. OutsdI(c.l) \in Nat /\ c.l.maxframe \in Int BY <2>1
  <2> QED BY <2>2, SdiCalm, CalmTimed
<1> QED BY <1>2, <1>3, <1>4

LEMMA T3PartTimed ==
  ASSUME NEW c \in Ctx, NEW b, Timed(c, b), NEW late
  PROVE  Timed(T3Part(c, late), b)
<1>1. c.l \in Link BY DEF Ctx
<1> DEFINE a == [c EXCEPT !.l = ClrT3(c.l)]
<1>2. ClrT3(c.l) \in Link /\ ClrT3(c.l).st = c.l.st /\ ClrT3(c.l).T1 = c.l.T1
  BY <1>1, ClrT3Type, ClrT3T1 DEF Same
<1>3. Timed(a, b) /\ a \in Ctx BY <1>2, TimedLink, WithLink
<1>4. T3Part(c, late) \in {c, Stma(a, stbl24)} BY DEF T3Part
<1> HIDE DEF a
<1>5. Timed(Stma(a, stbl24), b)
  <2>1. Commands(a.out) BY <1>3 DEF Timed
  <2> QED BY <1>3, <2>1, StmaTimed, TablesOK, WaitsAll
<1> QED BY <1>4, <1>5

(* A context whose flags are changed.                                      *)
LEMMA FlagTimed ==
  ASSUME NEW c \in Ctx, NEW b, Timed(c, b), NEW g
  PROVE  Timed([c EXCEPT !.l.flag = g], b)
<1>1. c.l \in Link BY DEF Ctx
<1> DEFINE m == [c.l EXCEPT !.flag = g]
           d == [c EXCEPT !.l.flag = g]
<1>2. m.st = c.l.st /\ m.T1 = c.l.T1
  <2>1. IsRec(c.l) BY <1>1, LinkElim
  <2> QED BY <2>1 DEF IsRec, Fields
<1>3. d = [c EXCEPT !.l = m] OBVIOUS
<1> HIDE DEF m
<1>4. d.l = m /\ d.out = c.out BY <1>3 DEF Ctx
<1> HIDE DEF d
<1>5. Timed(d, b) BY <1>2, <1>4 DEF Timed
<1> QED BY <1>5 DEF d

LEMMA BusyPartTimed ==
  ASSUME NEW c \in Ctx, Sound(c.l), NEW b, Timed(c, b), NEW mem
  PROVE  Timed(BusyPart(c, mem), b)
<1> DEFINE m == [c.l EXCEPT !.flag = c.l.flag \cup {"BUSY"}, !.busyrx = 0]
           a == [c EXCEPT !.l = m]
           g == c.l.flag \ {"BUSY"}
           d == [c EXCEPT !.l.flag = g]
<1>1. c.l \in Link BY DEF Ctx
<1>2. m \in Link /\ m.st = c.l.st /\ m.T1 = c.l.T1
  <2>1. IsRec(c.l) /\ Typed(c.l) BY <1>1, LinkElim
  <2>2. IsRec(m) BY <2>1, Put, Zenon
  <2>3. c.l.flag \cup {"BUSY"} \in SUBSET Flags BY <1>1, FlagType DEF Flags
  <2>4. ASSUME NEW h \in SUBSET Flags
        PROVE  LET p == [c.l EXCEPT !.flag = h, !.busyrx = 0]
               IN  Typed(p) /\ p.st = c.l.st /\ p.T1 = c.l.T1
    <3> DEFINE p == [c.l EXCEPT !.flag = h, !.busyrx = 0]
    <3>1. Typed(p) BY <2>1 DEF IsRec, Fields, Typed
    <3>2. p.st = c.l.st /\ p.T1 = c.l.T1 BY <2>1 DEF IsRec, Fields
    <3> QED BY <3>1, <3>2
  <2>5. Typed(m) /\ m.st = c.l.st /\ m.T1 = c.l.T1 BY <2>3, <2>4
  <2> HIDE DEF m
  <2> QED BY <2>2, <2>5, LinkIntro
<1>3. BusyPart(c, mem) \in {c, Stma(a, stbl21), Stma(d, stbl22)} BY DEF BusyPart
<1> HIDE DEF m
<1>4. a \in Ctx /\ Timed(a, b) BY <1>2, WithLink, TimedLink
<1>5. d \in Ctx /\ Timed(d, b)
  <2>1. g \in SUBSET Flags BY <1>1, FlagType
  <2> HIDE DEF g
  <2>2. Handled(c, d) BY <2>1, FlagPart
  <2>3. Timed(d, b) BY FlagTimed
  <2> HIDE DEF d
  <2> QED BY <2>2, <2>3, LinkIn
<1> HIDE DEF a, d
<1>6. Commands(a.out) /\ Commands(d.out) BY <1>4, <1>5 DEF Timed
<1>7. Timed(Stma(a, stbl21), b) BY <1>4, <1>6, StmaTimed, TablesOK, WaitsAll
<1>8. Timed(Stma(d, stbl22), b) BY <1>5, <1>6, StmaTimed, TablesOK, WaitsAll
<1> QED BY <1>3, <1>7, <1>8

LEMMA T1PartTimed ==
  ASSUME NEW c \in Ctx, Sound(c.l), NEW b, Timed(c, b), NEW late
  PROVE  Timed(T1Part(c, late), b)
<1>1. c.l \in Link BY DEF Ctx
<1> DEFINE more == c.l.tries + 1
           l    == [c.l EXCEPT !.T1 = FALSE, !.T3 = TRUE]
           m    == IF more > 1 THEN ChangeMaxframe(l, -1) ELSE l
           p    == [m EXCEPT !.tries = more]
           q    == [m EXCEPT !.tries = 0]
           a    == [c EXCEPT !.l = p]
           d    == [c EXCEPT !.l = q]
<1>2. Same(c.l, l) BY <1>1, WithT1T3
<1>3. more \in Nat
  <2>1. c.l.tries \in 0 .. 127 BY <1>1, Numbers
  <2> QED BY <2>1
<1>4. \/ T1Part(c, late) = c
      \/ T1Part(c, late) = Stma(d, stbl25)
      \/ more < Retry /\ T1Part(c, late) = Stma(a, stbl23)
  BY DEF T1Part
<1> HIDE DEF l, more
<1>5. Same(c.l, m)
  <2>1. Same(l, ChangeMaxframe(l, -1)) BY <1>2, ChangeMaxframeType DEF Same
  <2>2. Same(c.l, ChangeMaxframe(l, -1)) BY <1>2, <2>1, SameTrans
  <2> QED BY <1>2, <2>2
<1> HIDE DEF m
<1>6. m \in Link BY <1>5 DEF Same
<1>7. q \in Link
  <2>1. 0 \in 0 .. 127 OBVIOUS
  <2>2. Same(m, q) BY <1>6, <2>1, WithTries, Zenon
  <2> HIDE DEF q
  <2> QED BY <2>2 DEF Same
<1>8. ASSUME more < Retry PROVE p \in Link
  <2>1. more \in 0 .. 127 BY <1>3, <1>8, PortAssumption
  <2>2. Same(m, p) BY <1>6, <2>1, WithTries, Zenon
  <2> HIDE DEF p
  <2> QED BY <2>2 DEF Same
<1> HIDE DEF p, q
<1>9. Timed(Stma(d, stbl25), b)
  <2>1. d \in Ctx /\ d.out = c.out BY <1>7, WithLink
  <2>2. Commands(d.out) BY <2>1 DEF Timed
  <2>3. d.l.st \in States BY <2>1, StType DEF Ctx
  <2> HIDE DEF d
  <2> QED BY <2>1, <2>2, <2>3, StartsAll, TimedStart, TablesOK
<1>10. ASSUME more < Retry PROVE Timed(Stma(a, stbl23), b)
  <2>1. a \in Ctx /\ a.out = c.out BY <1>8, <1>10, WithLink
  <2>2. Commands(a.out) BY <2>1 DEF Timed
  <2>3. a.l.st \in States BY <2>1, StType DEF Ctx
  <2> HIDE DEF a
  <2> QED BY <2>1, <2>2, <2>3, StartsAll, TimedStart, TablesOK
<1> HIDE DEF a, d
<1> QED BY <1>4, <1>9, <1>10

LEMMA T2PartTimed ==
  ASSUME NEW c \in Ctx, NEW b, Timed(c, b), NEW late
  PROVE  Timed(T2Part(c, late), b)
<1>1. c.l \in Link BY DEF Ctx
<1> DEFINE s == IF "BUSY" \in c.l.flag THEN "RNR" ELSE c.l.RStype
           m == [c.l EXCEPT !.T2 = FALSE]
           due == ~c.l.T2 \/ "T2" \in late
<1>2. c.l.RStype \in RStypes
  <2>1. Typed(c.l) BY <1>1, LinkElim
  <2> QED BY <2>1, Zenon DEF Typed
<1>3. T2Part(c, late) = CASE due /\ c.l.RStype # "none" -> SendS(c, s, FALSE, FALSE)
                          [] due /\ c.l.RStype = "none" -> [c EXCEPT !.l.T2 = FALSE]
                          [] ~due -> c
  BY DEF T2Part
<1> HIDE DEF due
<1>4. CASE due /\ c.l.RStype # "none"
  <2>1. T2Part(c, late) = SendS(c, s, FALSE, FALSE) BY <1>3, <1>4
  <2>2. s \in {"RR", "RNR", "REJ"} BY <1>2, <1>4 DEF RStypes
  <2> HIDE DEF s
  <2> QED BY <2>1, <2>2, SendSCalm, CalmTimed
<1>5. CASE due /\ c.l.RStype = "none"
  <2>1. T2Part(c, late) = [c EXCEPT !.l = m] BY <1>3, <1>5
  <2>2. m.st = c.l.st /\ m.T1 = c.l.T1
    <3>1. IsRec(c.l) BY <1>1, LinkElim
    <3> QED BY <3>1 DEF IsRec, Fields
  <2>3. m \in Link BY <1>1, WithT2 DEF Same
  <2> HIDE DEF m
  <2> QED BY <2>1, <2>2, <2>3, TimedLink
<1>6. CASE ~due
  <2>1. T2Part(c, late) = c BY <1>3, <1>6
  <2> QED BY <2>1
<1> QED BY <1>4, <1>5, <1>6

LEMMA L2timrTimed ==
  ASSUME NEW c \in Ctx, Sound(c.l), NEW b, Timed(c, b),
         NEW late, NEW mem, NEW k \in Nat, NEW busy \in BOOLEAN
  PROVE  Timed(L2timr(c, late, mem, k, busy), b)
<1> DEFINE a == T3Part(c, late)
           x == [a EXCEPT !.l.flag = a.l.flag \cup {"DIMM"}]
           e == IF Len(a.l.sendil) > TosendMax /\ a.l.st \in Transfer THEN x ELSE a
           i == [e EXCEPT !.l = I2tolx(e.l, k)]
           d == BusyPart(i, mem)
           r == [e EXCEPT !.l = ResLnk(e.l)]
           stop == Stma(e, stbl20)
           y == [stop EXCEPT !.l.flag = stop.l.flag \ {"DIMM"}]
<1>1. Handled(c, a) /\ Timed(a, b) BY T3PartType, T3PartTimed
<1>2. L2timr(c, late, mem, k, busy)
        \in {y, Stma(r, stbl20), d, T2Part(T1Part(d, late), late)}
  BY DEF L2timr
<1> HIDE DEF a
<1>3. Handled(c, e) /\ Timed(e, b)
  <2>1. a \in Ctx /\ a.l \in Link /\ Sound(a.l) BY <1>1, LinkIn
  <2>2. a.l.flag \cup {"DIMM"} \in SUBSET Flags BY <2>1, FlagType DEF Flags
  <2>3. Handled(a, x) BY <2>1, <2>2, FlagPart
  <2>4. Timed(x, b) BY <1>1, <2>1, FlagTimed
  <2> HIDE DEF x
  <2>5. Handled(c, x) BY <1>1, <2>3, HandledTrans
  <2> QED BY <1>1, <2>4, <2>5
<1> HIDE DEF e
<1>4. e \in Ctx /\ e.l \in Link /\ Sound(e.l) BY <1>3, LinkIn
<1>5. Timed(y, b)
  <2>1. Handled(c, stop) /\ Timed(stop, b) BY <1>3, HandledStma, TimedStma, TablesOK, WaitsAll
  <2> HIDE DEF stop
  <2>2. stop \in Ctx BY <2>1, LinkIn
  <2> QED BY <2>1, <2>2, FlagTimed
<1>6. Timed(Stma(r, stbl20), b)
  <2>1. ResLnk(e.l) \in Link /\ Sound(ResLnk(e.l)) BY <1>4, ResLnkType
  <2>2. r \in Ctx /\ r.out = e.out BY <1>4, <2>1, WithLink
  <2>3. Commands(r.out) BY <1>3, <2>2 DEF Timed
  <2>4. r.l.st \in States BY <2>2, StType DEF Ctx
  <2> HIDE DEF r
  <2> QED BY <2>2, <2>3, <2>4, StartsAll, TimedStart, TablesOK
<1>7. Handled(c, d) /\ Timed(d, b)
  <2>1. Handled(e, i) BY <1>4, I2tolxType, HandledSame
  <2>2. I2tolx(e.l, k) \in Link /\ I2tolx(e.l, k).st = e.l.st /\ I2tolx(e.l, k).T1 = e.l.T1
    BY <1>4, I2tolxType, I2tolxT1 DEF Same
  <2>3. Timed(i, b) BY <1>3, <1>4, <2>2, TimedLink
  <2> HIDE DEF i
  <2>4. Handled(c, i) BY <1>3, <2>1, HandledTrans
  <2>5. i \in Ctx /\ Sound(i.l) BY <2>4, LinkIn
  <2>6. Timed(d, b) BY <2>3, <2>5, BusyPartTimed
  <2>7. Handled(c, d) BY <2>4, <2>5, BusyPartType, HandledTrans
  <2> QED BY <2>6, <2>7
<1> HIDE DEF d, y, r
<1>8. d \in Ctx /\ Sound(d.l) BY <1>7, LinkIn
<1>9. T1Part(d, late) \in Ctx BY <1>8, T1PartType, LinkIn
<1>10. Timed(T1Part(d, late), b) BY <1>7, <1>8, T1PartTimed
<1>11. Timed(T2Part(T1Part(d, late), late), b) BY <1>9, <1>10, T2PartTimed
<1> QED BY <1>2, <1>5, <1>6, <1>7, <1>11

LEMMA TurnTimed ==
  ASSUME NEW n \in Node, lk[n] \in Link, Sound(lk[n]),
         NEW b, lk[n].st \in Awaiting => lk[n].T1 \/ b,
         NEW ticked, NEW late, NEW mem, NEW k \in Nat, NEW busy \in BOOLEAN
  PROVE  Timed(Turn(n, ticked, late, mem, k, busy), b)
<1> DEFINE c == Context(n, FALSE)
           s == IF busy THEN c ELSE L2tx(c)
<1>1. c \in Ctx /\ c.l = lk[n] /\ c.out = <<>> BY DEF Context, Ctx
<1>2. Turn(n, ticked, late, mem, k, busy) = IF ticked THEN L2timr(s, late, mem, k, busy) ELSE s
  BY DEF Turn
<1> HIDE DEF c
<1>3. Timed(c, b) BY <1>1, EmptyArmed DEF Timed
<1>4. Timed(s, b) /\ Handled(c, s)
  <2>1. Handled(c, L2tx(c)) /\ Timed(L2tx(c), b) BY <1>1, <1>3, L2txType, L2txTimed
  <2>2. Handled(c, c) BY <1>1 DEF Handled
  <2> QED BY <1>3, <2>1, <2>2
<1> HIDE DEF s
<1>5. s \in Ctx /\ Sound(s.l) BY <1>4, LinkIn
<1>6. Timed(L2timr(s, late, mem, k, busy), b) BY <1>4, <1>5, L2timrTimed
<1> QED BY <1>2, <1>4, <1>6

-----------------------------------------------------------------------------
(* The actions.                                                            *)

(* What one node contributes to the invariant.                             *)
Awaits(n) == lk[n].st \in Awaiting => lk[n].T1 \/ Armed(txq[n])

TimerInv ==
  /\ IInv
  /\ \A n \in Node : Awaits(n) /\ Commands(txq[n]) /\ Commands(rxq[n])

LEMMA SentTimed ==
  ASSUME TimerInv, NEW n \in Node, NEW c, c \in Ctx, Timed(c, Armed(txq[n])), Sent(n, c)
  PROVE  \A m \in Node : Awaits(m)' /\ Commands(txq'[m])
<1>1. c.l \in Link /\ c.out \in Seq(Frame) BY DEF Ctx
<1>2. lk' = [lk EXCEPT ![n] = c.l] /\ txq' = [txq EXCEPT ![n] = txq[n] \o c.out] BY DEF Sent
<1>3. lk \in [Node -> Link] /\ txq \in [Node -> Seq(Frame)] BY DEF TimerInv, IInv
<1>4. lk'[n] = c.l /\ txq'[n] = txq[n] \o c.out BY <1>2, <1>3
<1>5. Awaits(n)' /\ Commands(txq'[n])
  <2>1. txq[n] \in Seq(Frame) /\ Commands(txq[n]) BY <1>3 DEF TimerInv
  <2>2. /\ Armed(txq[n]) \/ Armed(c.out) => Armed(txq'[n])
        /\ Commands(c.out) => Commands(txq'[n])
    BY <1>1, <1>4, <2>1, ConcatArmed
  <2> QED BY <1>4, <2>2 DEF Timed, Awaits
<1>6. ASSUME NEW m \in Node, m # n PROVE Awaits(m)' /\ Commands(txq'[m])
  <2>1. lk'[m] = lk[m] /\ txq'[m] = txq[m] BY <1>2, <1>3, <1>6
  <2>2. Awaits(m) /\ Commands(txq[m]) BY DEF TimerInv
  <2> QED BY <2>1, <2>2 DEF Awaits
<1> QED BY <1>5, <1>6

LEMMA ContextTimed ==
  ASSUME TimerInv, NEW n \in Node, NEW pf
  PROVE  Timed(Context(n, pf), Armed(txq[n])) /\ Context(n, pf).out = <<>>
<1>1. Awaits(n) BY DEF TimerInv
<1>2. Context(n, pf).l = lk[n] /\ Context(n, pf).out = <<>> BY DEF Context
<1> QED BY <1>1, <1>2, EmptyArmed DEF Timed, Awaits

LEMMA ConnectTimed == ASSUME TimerInv, NEW n \in Node, Connect(n) PROVE TimerInv'
<1>1. IInv /\ IInv' BY ConnectType DEF TimerInv
<1>2. PICK eax \in BOOLEAN :
        Sent(n, Stma([Context(n, FALSE) EXCEPT !.l = ResLnk([lk[n] EXCEPT !.ext = eax])], stbl19))
  <2>1. \A eax \in (IF EaxMode[n] = 2 THEN {TRUE} ELSE DestEax) : eax \in BOOLEAN
    BY PortAssumption
  <2> QED BY <2>1, Zenon DEF Connect
<1> DEFINE c == Context(n, FALSE)
           e == [lk[n] EXCEPT !.ext = eax]
           d == [c EXCEPT !.l = ResLnk(e)]
<1>3. c \in Ctx /\ lk[n] \in Link BY <1>1, ContextType
<1>4. c.out = <<>> BY DEF Context
<1>5. e \in Link BY <1>3, WithExt
<1> HIDE DEF c, e
<1>6. ResLnk(e) \in Link /\ Sound(ResLnk(e)) BY <1>5, ResLnkType
<1>7. d \in Ctx /\ Sound(d.l) /\ d.out = <<>> BY <1>3, <1>4, <1>6, WithLink
<1>8. Sent(n, Stma(d, stbl19)) BY <1>2 DEF c, d, e
<1> HIDE DEF d
<1>9. Stma(d, stbl19) \in Ctx
  <2>1. Handled(d, d) BY <1>7 DEF Handled
  <2> QED BY <2>1, HandledStma, TablesOK, LinkIn
<1>10. Timed(Stma(d, stbl19), Armed(txq[n]))
  <2>1. Commands(d.out) BY <1>7, EmptyArmed
  <2>2. d.l.st \in States BY <1>7, StType DEF Ctx
  <2> QED BY <1>7, <2>1, <2>2, StartsAll, TimedStart, TablesOK
<1>11. \A m \in Node : Awaits(m)' /\ Commands(txq'[m]) BY <1>8, <1>9, <1>10, SentTimed
<1>12. rxq' = rxq BY DEF Connect
<1> QED BY <1>1, <1>11, <1>12 DEF TimerInv

(* A request that leaves the state and T1 of every link alone.             *)
LEMMA RequestTimed ==
  ASSUME TimerInv, IInv', NEW n \in Node, NEW m, m.st = lk[n].st, m.T1 = lk[n].T1,
         lk' = [lk EXCEPT ![n] = m], UNCHANGED <<txq, rxq>>
  PROVE  TimerInv'
<1>1. lk \in [Node -> Link] BY DEF TimerInv, IInv
<1>2. ASSUME NEW i \in Node PROVE Awaits(i)'
  <2>1. lk'[i].st = lk[i].st /\ lk'[i].T1 = lk[i].T1 BY <1>1
  <2>2. Awaits(i) BY DEF TimerInv
  <2> QED BY <2>1, <2>2 DEF Awaits
<1> QED BY <1>2 DEF TimerInv

LEMMA DisconnectTimed == ASSUME TimerInv, NEW n \in Node, Disconnect(n) PROVE TimerInv'
<1>1. IInv /\ IInv' BY DisconnectType DEF TimerInv
<1>2. PICK why : lk' = [lk EXCEPT ![n] = [lk[n] EXCEPT !.rcvd = 0, !.flag = lk[n].flag \cup {why}]]
  BY DEF Disconnect
<1> DEFINE g == lk[n].flag \cup {why}
           m == [lk[n] EXCEPT !.rcvd = 0, !.flag = g]
<1>3. m.st = lk[n].st /\ m.T1 = lk[n].T1
  <2>1. lk[n] \in Link BY <1>1 DEF IInv
  <2>2. IsRec(lk[n]) BY <2>1, LinkElim
  <2> HIDE DEF g
  <2> QED BY <2>2 DEF IsRec, Fields
<1>4. lk' = [lk EXCEPT ![n] = m] BY <1>2
<1> HIDE DEF m
<1> QED BY <1>1, <1>3, <1>4, RequestTimed DEF Disconnect

LEMMA QueueTimed == ASSUME TimerInv, NEW n \in Node, Queue(n) PROVE TimerInv'
<1>1. IInv /\ IInv' BY QueueType DEF TimerInv
<1> DEFINE s == Append(lk[n].sendil, used.msg[n] + 1)
           m == [lk[n] EXCEPT !.sendil = s]
<1>2. lk' = [lk EXCEPT ![n] = m]
  <2>1. lk' = [lk EXCEPT ![n].sendil = Append(@, used.msg[n] + 1)] BY DEF Queue
  <2> QED BY <2>1
<1>3. m.st = lk[n].st /\ m.T1 = lk[n].T1
  <2>1. lk[n] \in Link BY <1>1 DEF IInv
  <2>2. IsRec(lk[n]) BY <2>1, LinkElim
  <2> HIDE DEF s
  <2> QED BY <2>2 DEF IsRec, Fields
<1> HIDE DEF m
<1> QED BY <1>1, <1>2, <1>3, RequestTimed DEF Queue

(* setT1 keeps the state and starts T1.                                    *)
LEMMA SetT1T1 ==
  ASSUME NEW n, NEW l \in Link PROVE SetT1(n, l).st = l.st /\ SetT1(n, l).T1
<1>1. IsRec(l) BY LinkElim
<1> DEFINE e == l.ext /\ ~(l.tries # 0 /\ l.st = L2SLKSUP /\ EaxMode[n] = 2)
<1>2. SetT1(n, l) = [l EXCEPT !.T1 = TRUE, !.ext = e] BY DEF SetT1
<1> HIDE DEF e
<1> QED BY <1>1, <1>2 DEF IsRec, Fields

LEMMA TransmittedTimed ==
  ASSUME TimerInv, NEW n \in Node, Transmitted(n)
  PROVE  /\ \A m \in Node : Awaits(m)' /\ Commands(txq'[m])
         /\ Head(txq[n]).t = "I" => Head(txq[n]).cmd
<1>1. lk \in [Node -> Link] /\ txq \in [Node -> Seq(Frame)] BY DEF TimerInv, IInv
<1>2. lk[n] \in Link /\ txq[n] \in Seq(Frame) /\ txq[n] # <<>> BY <1>1 DEF Transmitted
<1>3. Awaits(n) /\ Commands(txq[n]) BY DEF TimerInv
<1> DEFINE m == IF Head(txq[n]).t1 THEN SetT1(n, lk[n]) ELSE lk[n]
<1>4. /\ m.st = lk[n].st
      /\ Head(txq[n]).t1 => m.T1
      /\ ~Head(txq[n]).t1 => m.T1 = lk[n].T1
  BY <1>2, SetT1T1
<1>5. lk' = [lk EXCEPT ![n] = m] /\ txq' = [txq EXCEPT ![n] = Tail(txq[n])] BY DEF Transmitted
<1> HIDE DEF m
<1>6. lk'[n] = m /\ txq'[n] = Tail(txq[n]) BY <1>1, <1>5
<1>7. /\ Armed(txq[n]) => Head(txq[n]).t1 \/ Armed(Tail(txq[n]))
      /\ Commands(Tail(txq[n])) /\ (Head(txq[n]).t = "I" => Head(txq[n]).cmd)
  BY <1>2, <1>3, TailArmed
<1>8. Awaits(n)' /\ Commands(txq'[n]) BY <1>3, <1>4, <1>6, <1>7 DEF Awaits
<1>9. ASSUME NEW i \in Node, i # n PROVE Awaits(i)' /\ Commands(txq'[i])
  <2>1. lk'[i] = lk[i] /\ txq'[i] = txq[i] BY <1>1, <1>5, <1>9
  <2>2. Awaits(i) /\ Commands(txq[i]) BY DEF TimerInv
  <2> QED BY <2>1, <2>2 DEF Awaits
<1> QED BY <1>7, <1>8, <1>9

LEMMA TransmitTimed == ASSUME TimerInv, NEW n \in Node, Transmit(n) PROVE TimerInv'
<1>1. IInv /\ IInv' BY TransmitType DEF TimerInv
<1>2. /\ \A m \in Node : Awaits(m)' /\ Commands(txq'[m])
      /\ Head(txq[n]).t = "I" => Head(txq[n]).cmd
  BY TransmittedTimed DEF Transmit
<1>3. \A m \in Node : Commands(rxq'[m])
  <2> DEFINE f == Head(txq[n])
  <2>1. f \in Frame BY <1>1, TransmittedType DEF Transmit
  <2>2. rxq' = [rxq EXCEPT ![Peer(n)] = Append(rxq[Peer(n)], f)] BY DEF Transmit
  <2>3. rxq \in [Node -> Seq(Frame)] BY <1>1 DEF IInv
  <2>4. f.t = "I" => f.cmd BY <1>2
  <2> HIDE DEF f
  <2> TAKE m \in Node
  <2>5. rxq[m] \in Seq(Frame) /\ Commands(rxq[m]) BY <2>3 DEF TimerInv
  <2>6. rxq'[m] = Append(rxq[m], f) \/ rxq'[m] = rxq[m] BY <2>2, <2>3
  <2> QED BY <2>1, <2>4, <2>5, <2>6, AppendArmed
<1> QED BY <1>1, <1>2, <1>3 DEF TimerInv

LEMMA LoseTimed == ASSUME TimerInv, NEW n \in Node, Lose(n) PROVE TimerInv'
<1>1. IInv' BY LoseType DEF TimerInv
<1>2. \A m \in Node : Awaits(m)' /\ Commands(txq'[m]) BY TransmittedTimed DEF Lose
<1> QED BY <1>1, <1>2 DEF TimerInv, Lose

LEMMA ReceiveTimed == ASSUME TimerInv, NEW n \in Node, Receive(n) PROVE TimerInv'
<1> DEFINE f == Head(rxq[n])
           c == Context(n, f.pf)
           b == Armed(txq[n])
<1>1. IInv /\ IInv' BY ReceiveType DEF TimerInv
<1>2. rxq \in [Node -> Seq(Frame)] /\ rxq[n] # <<>> BY <1>1 DEF IInv, Receive
<1>3. rxq[n] \in Seq(Frame) /\ Commands(rxq[n]) BY <1>2 DEF TimerInv
<1>4. f \in Frame BY <1>2, <1>3, HeadType
<1>5. Commands(Tail(rxq[n])) /\ (f.t = "I" => f.cmd) BY <1>2, <1>3, TailArmed
<1>6. f.pf \in BOOLEAN BY <1>4 DEF Frame
<1>7. c \in Ctx /\ Sound(c.l) BY <1>1, <1>6, ContextType
<1>8. Timed(c, b) BY ContextTimed
<1>9. Sent(n, L2rx(c, f)) \/ Sent(n, NoLink(c, f)) BY DEF Receive
<1>10. rxq' = [rxq EXCEPT ![n] = Tail(rxq[n])] BY DEF Receive
<1> HIDE DEF f, c
<1>11. L2rx(c, f) \in Ctx /\ Timed(L2rx(c, f), b)
  <2>1. L2rx(c, f) \in Ctx BY <1>4, <1>7, L2rxType, LinkIn
  <2> HIDE DEF b
  <2> QED BY <1>4, <1>5, <1>7, <1>8, <2>1, L2rxTimed
<1>12. NoLink(c, f) \in Ctx /\ Timed(NoLink(c, f), b)
  <2>1. NoLink(c, f) \in Ctx BY <1>7, NoLinkType, LinkIn
  <2> HIDE DEF b
  <2> QED BY <1>7, <1>8, <2>1, NoLinkTimed
<1>13. \A m \in Node : Awaits(m)' /\ Commands(txq'[m]) BY <1>9, <1>11, <1>12, SentTimed
<1>14. \A m \in Node : Commands(rxq'[m])
  <2> TAKE m \in Node
  <2>1. rxq'[m] = Tail(rxq[n]) \/ rxq'[m] = rxq[m] BY <1>2, <1>10
  <2>2. Commands(rxq[m]) BY DEF TimerInv
  <2> QED BY <1>5, <2>1, <2>2
<1> QED BY <1>1, <1>13, <1>14 DEF TimerInv

LEMMA ServeTimed ==
  ASSUME TimerInv, NEW n \in Node, NEW ticked, NEW late, NEW mem, NEW k \in Nat,
         NEW busy \in BOOLEAN, Serve(n, ticked, late, mem, k, busy)
  PROVE  TimerInv'
<1> DEFINE c == Turn(n, ticked, late, mem, k, busy)
           b == Armed(txq[n])
<1>1. IInv BY DEF TimerInv
<1>2. IInv' BY <1>1, ServeType
<1>3. lk[n] \in Link /\ Sound(lk[n]) BY <1>1 DEF IInv
<1>4. c \in Ctx BY <1>3, TurnType, LinkIn
<1>5. lk[n].st \in Awaiting => lk[n].T1 \/ b
  <2>1. Awaits(n) BY DEF TimerInv
  <2> QED BY <2>1 DEF Awaits
<1>6. Timed(c, b)
  <2> HIDE DEF b
  <2> QED BY <1>3, <1>5, TurnTimed
<1>7. Sent(n, c) BY DEF Serve
<1> HIDE DEF c
<1>8. \A m \in Node : Awaits(m)' /\ Commands(txq'[m]) BY <1>4, <1>6, <1>7, SentTimed
<1>9. rxq' = rxq BY DEF Serve
<1> QED BY <1>2, <1>8, <1>9 DEF TimerInv

LEMMA L2Timed == ASSUME TimerInv, NEW n \in Node, L2(n) PROVE TimerInv'
<1>1. CASE Serve(n, FALSE, {}, "high", 0, FALSE) BY <1>1, ServeTimed
<1>2. ASSUME NEW late \in SUBSET Due(n), NEW mem \in Memory, NEW k \in 0 .. lk[n].rcvd,
             NEW busy \in BOOLEAN, Serve(n, TRUE, late, mem, k, busy)
      PROVE  TimerInv'
  <2>1. k \in Nat OBVIOUS
  <2> QED BY <1>2, <2>1, ServeTimed
<1> QED BY <1>1, <1>2 DEF L2

LEMMA RestartTimed == ASSUME TimerInv, NEW n \in Node, Restart(n) PROVE TimerInv'
<1> DEFINE m == [BlankLink EXCEPT !.got = lk[n].got]
<1>1. IInv /\ IInv' BY RestartType DEF TimerInv
<1>2. lk \in [Node -> Link] /\ txq \in [Node -> Seq(Frame)] /\ rxq \in [Node -> Seq(Frame)]
  BY <1>1 DEF IInv
<1>3. m.st = L2SDSCED BY DEF BlankLink
<1>4. lk' = [lk EXCEPT ![n] = m] /\ txq' = [txq EXCEPT ![n] = <<>>]
      /\ rxq' = [rxq EXCEPT ![n] = <<>>]
  BY DEF Restart
<1> HIDE DEF m
<1>5. ASSUME NEW i \in Node PROVE Awaits(i)' /\ Commands(txq'[i]) /\ Commands(rxq'[i])
  <2>1. CASE i = n
    <3>1. lk'[i] = m /\ txq'[i] = <<>> /\ rxq'[i] = <<>> BY <1>2, <1>4, <2>1
    <3>2. L2SDSCED \notin Awaiting
      BY DEF Awaiting, WaitStates, L2SDSCED, L2SLKSUP, L2SFRREJ, L2SDSCRQ, L2SWA, L2SWADBS,
             L2SWARBS, L2SWABBS
    <3> QED BY <1>3, <3>1, <3>2, EmptyArmed DEF Awaits
  <2>2. CASE i # n
    <3>1. lk'[i] = lk[i] /\ txq'[i] = txq[i] /\ rxq'[i] = rxq[i] BY <1>2, <1>4, <2>2
    <3>2. Awaits(i) /\ Commands(txq[i]) /\ Commands(rxq[i]) BY DEF TimerInv
    <3> QED BY <3>1, <3>2 DEF Awaits
  <2> QED BY <2>1, <2>2
<1> QED BY <1>1, <1>5 DEF TimerInv

LEMMA InitTimed == Init => TimerInv
<1> SUFFICES ASSUME Init PROVE TimerInv OBVIOUS
<1>1. L2SDSCED \notin Awaiting
  BY DEF Awaiting, WaitStates, L2SDSCED, L2SLKSUP, L2SFRREJ, L2SDSCRQ, L2SWA, L2SWADBS,
         L2SWARBS, L2SWABBS
<1>2. ASSUME NEW n \in Node PROVE Awaits(n) /\ Commands(txq[n]) /\ Commands(rxq[n])
  <2>1. lk[n].st = L2SDSCED /\ txq[n] = <<>> /\ rxq[n] = <<>> BY DEF Init, BlankLink
  <2> QED BY <1>1, <2>1, EmptyArmed DEF Awaits
<1> QED BY <1>2, InitType DEF TimerInv

(* A link that waits for an answer (to SABM, DISC, FRMR or a poll) always  *)
(* has T1 running, or a frame with the driver that will start it: whatever *)
(* arrives, is lost or runs out, l2timr repeats the question or gives up.  *)
THEOREM AwaitingAlwaysTimed == Spec => []AwaitingTimed
<1>1. TimerInv /\ [Next]_vars => TimerInv'
  <2> SUFFICES ASSUME TimerInv, [Next]_vars PROVE TimerInv' OBVIOUS
  <2>1. CASE UNCHANGED vars
    <3>1. IInv' BY <2>1 DEF TimerInv, IInv, vars
    <3> QED BY <2>1, <3>1 DEF TimerInv, Awaits, vars
  <2>2. CASE Next
    BY <2>2, ConnectTimed, DisconnectTimed, QueueTimed, TransmitTimed, LoseTimed,
       ReceiveTimed, L2Timed, RestartTimed DEF Next
  <2> QED BY <2>1, <2>2
<1>2. TimerInv => AwaitingTimed
  <2> SUFFICES ASSUME TimerInv, NEW n \in Node, lk[n].st \in Awaiting
               PROVE  lk[n].T1 \/ \E i \in 1 .. Len(txq[n]) : txq[n][i].t1
    BY DEF AwaitingTimed
  <2>1. Awaits(n) BY DEF TimerInv
  <2> QED BY <2>1 DEF Awaits, Armed
<1> QED BY <1>1, <1>2, InitTimed, PTL DEF Spec
=============================================================================
