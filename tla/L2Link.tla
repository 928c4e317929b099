------------------------------- MODULE L2Link -------------------------------
(***************************************************************************)
(* The AX.25 level 2 link of TheNetNode between two nodes that both run    *)
(* this code (l2rx.c, l2tx.c, l2timer.c, l2misc.c, l2stma.c).              *)
(*                                                                         *)
(* Each node has one link block and two frame lists: txq, the frames       *)
(* level 2 handed to the driver (txl2fl), and rxq, the frames the driver   *)
(* received (rxfl).  The program is single threaded: main() calls the      *)
(* drivers and l2() in turn, and l2() runs clrstfl, l2rx, l2tx and l2timr. *)
(* A step of the model is one user request, one frame that the driver      *)
(* sent, one turn of the loop of l2rx, or l2tx with l2timr once rxfl is    *)
(* empty.  The two nodes and the air between them interleave freely.       *)
(*                                                                         *)
(* A handler maps a context to a context: the link, the frames it sends,   *)
(* and the poll bit an answer repeats (the globals lnkpoi and txfPF).      *)
(***************************************************************************)
EXTENDS L2Tables, FiniteSets

CONSTANTS
  Node,          \* the two nodes
  ModStd,        \* sequence numbers of a standard link, bitmask + 1 (8)
  MaxframeStd,   \* port parameter maxframe
  MaxframeExt,   \* port parameter maxframe_eax
  EaxMode,       \* port parameter eax_behaviour, per node
  DestEax,       \* what the MHeard list may say of the peer's EAX.25
  AutoMaxframe,  \* port flag MODE_am
  Retry,         \* port parameter retry (N2)
  IpollRetry,    \* port parameter ipoll_retry
  ShortFrames,   \* is a message shorter than ipoll_paclen?
  Level3,        \* messages come from level 3, which ignores conctl
  Conctl,        \* congestion control: frames a link may hold
  TosendMax,     \* more frames to send than this cut the link (150)
  \* Bounds of the state space.
  MaxMsg,        \* messages a node may queue
  Callers,       \* nodes whose users connect
  TxMax,         \* frames that wait in a txq
  RxMax,         \* frames that wait in an rxq
  MaxConnects,   \* connect requests of a node
  MaxDisconnects,\* disconnect requests of a node
  MaxLoss,       \* frames lost on the air
  MaxRestarts,   \* restarts of a node's program
  IdleTimer,     \* may T3 expire?
  Patient,       \* do T1 and users outlast the frames that are under way?
  MaxLow         \* how often a node finds that few buffers are free

ASSUME NodeAssumption == IsFiniteSet(Node) /\ Cardinality(Node) = 2
ASSUME WindowAssumption ==
  /\ ModStd \in 2 .. 128
  /\ MaxframeStd \in 1 .. 127 /\ MaxframeExt \in 1 .. 127
ASSUME PortAssumption ==
  /\ EaxMode \in [Node -> 0 .. 3]
  /\ DestEax \in SUBSET BOOLEAN
  /\ {AutoMaxframe, ShortFrames, Level3, IdleTimer, Patient} \subseteq BOOLEAN
  /\ Retry \in 1 .. 127
  /\ {IpollRetry, Conctl, TosendMax} \subseteq Nat
ASSUME BoundAssumption ==
  /\ Callers \subseteq Node
  /\ MaxMsg \in [Node -> Nat]
  /\ {TxMax, RxMax, MaxConnects, MaxDisconnects, MaxLoss, MaxRestarts,
      MaxLow} \subseteq Nat

VARIABLES
  lk,     \* lk[n]: the link block of n
  txq,    \* txq[n]: frames of n that wait for the driver
  rxq,    \* rxq[n]: frames that arrived at n
  used    \* how much of each bound is used up

vars == <<lk, txq, rxq, used>>

Flags == {"REPEAT", "BUSY", "DSLE", "DIMM", "CMDEL"}
FrameTypes == {"I", "RR", "RNR", "REJ", "SABM", "SABME", "DISC", "UA", "DM",
               "FRMR"}

Frame == [t : FrameTypes,      \* control field
          cmd : BOOLEAN,       \* command (or response)
          pf : BOOLEAN,        \* poll/final
          x : BOOLEAN,         \* the control field has two octets
          nr : 0 .. 127, ns : 0 .. 127,
          d : Nat,             \* the message an I frame carries
          t1 : BOOLEAN]        \* L2FT1ST: T1 starts when it has been sent

Link == [st : States,
         ext : BOOLEAN,        \* bitmask = 0x7F
         VS : 0 .. 127, VR : 0 .. 127,
         ltxdNR : 0 .. 127, lrxdNR : 0 .. 127,
         maxframe : 1 .. 127,
         tries : 0 .. 127,
         T1 : BOOLEAN, T2 : BOOLEAN, T3 : BOOLEAN,   \* does it run?
         RStype : {"none", "RR", "RNR", "REJ"},
         flag : SUBSET Flags,
         busyrx : 0 .. 255,
         sendil : Seq(Nat),    \* messages to send
         rcvd : Nat,           \* messages received and not yet fetched
         \* History, not in the code:
         last : Nat,           \* last message accepted since reslnk, or 0
         got : SUBSET Nat]     \* messages accepted

Peer(n) == CHOOSE m \in Node : m # n
Least(a, b) == IF a <= b THEN a ELSE b

Mod(l) == IF l.ext THEN 128 ELSE ModStd
PortMax(l) == IF l.ext THEN MaxframeExt ELSE MaxframeStd

(* Mutant: a sum without its bitmask.                                      *)
Plus_Unmasked(l, s, k) == s + k

Plus(l, s, k) == (s + k) % Mod(l)

OutsdI(l) == (l.VS - l.lrxdNR) % Mod(l)

-----------------------------------------------------------------------------
(* Timers and link variables.                                              *)

(* Mutant: T3 is not started when T1 stops.                                *)
ClrT1_NoT3(l) == [l EXCEPT !.T1 = FALSE, !.tries = 0]

ClrT1(l) == [l EXCEPT !.T1 = FALSE, !.tries = 0, !.T3 = TRUE]

ClrT2(l) == [l EXCEPT !.T2 = FALSE, !.RStype = "none"]

SetT2(l, s) == [l EXCEPT !.T2 = TRUE, !.RStype = s]

ClrT3(l) == [l EXCEPT !.T3 = FALSE]

(* setT1 also gives up EAX.25 when a SABME had to be repeated.             *)
SetT1(n, l) ==
  [l EXCEPT !.T1 = TRUE,
            !.ext = @ /\ ~(l.tries # 0 /\ l.st = L2SLKSUP /\ EaxMode[n] = 2)]

ChangeMaxframe(l, dif) ==
  LET full    == PortMax(l)
      delayed == dif > 0 /\ "CMDEL" \notin l.flag
      wanted  == l.maxframe + IF delayed THEN 0 ELSE dif
  IN  IF ~AutoMaxframe THEN [l EXCEPT !.maxframe = full]
      ELSE IF dif > 0 /\ l.maxframe = full THEN l
      ELSE [l EXCEPT !.flag = IF delayed THEN @ \cup {"CMDEL"} ELSE @ \ {"CMDEL"},
                     !.maxframe = IF wanted < 1 THEN 1 ELSE Least(wanted, full)]

(* Mutant: V(R) survives a reset.                                          *)
ResLnk_KeepsVR(l) ==
  [ClrT2(ClrT1(l)) EXCEPT !.VS = 0, !.ltxdNR = 0, !.lrxdNR = 0, !.flag = {},
                          !.last = 0]

ResLnk(l) ==
  [ClrT2(ClrT1(l)) EXCEPT !.VS = 0, !.VR = 0, !.ltxdNR = 0, !.lrxdNR = 0,
                          !.flag = {}, !.last = 0]

IniLnk(l) == [ResLnk(l) EXCEPT !.maxframe = PortMax(l)]

ClrLnk(l) == [ResLnk(l) EXCEPT !.sendil = <<>>, !.rcvd = 0, !.ext = FALSE]

(* i2tolx: the higher levels take k of the received messages.              *)
I2tolx(l, k) ==
  IF l.st = L2SDSCRQ \/ l.flag \cap {"DSLE", "DIMM"} # {}
    THEN [l EXCEPT !.rcvd = 0]
    ELSE [l EXCEPT !.rcvd = @ - Least(@, k)]

-----------------------------------------------------------------------------
(* Frames.  c.l is the link, c.out the frames sent, c.pf the poll bit.     *)

Send(c, f) == [c EXCEPT !.out = Append(@, f)]

UFrame(t, cmd, pf, t1) ==
  [t |-> t, cmd |-> cmd, pf |-> pf, x |-> FALSE, nr |-> 0, ns |-> 0, d |-> 0,
   t1 |-> t1]

(* sendS: a supervisory frame acknowledges everything received.            *)
SendS(c, t, cmd, pf) ==
  [Send(c, [UFrame(t, cmd, pf, cmd) EXCEPT !.x = c.l.ext, !.nr = c.l.VR])
     EXCEPT !.l = [ClrT2(c.l) EXCEPT !.ltxdNR = c.l.VR]]

(* Mutant: a SABM is sent for an EAX.25 link.                              *)
Xsabm_Plain(c) == Send(c, UFrame("SABM", TRUE, TRUE, TRUE))

Xsabm(c) ==
  LET ext == (c.l.ext \/ EaxMode[c.n] = 3) /\ EaxMode[c.n] # 0
  IN  [Send(c, UFrame(IF ext THEN "SABME" ELSE "SABM", TRUE, TRUE, TRUE))
         EXCEPT !.l.ext = ext]

(* Mutant: a DISC does not start T1.                                       *)
Xdisc_NoT1(c) == Send(c, UFrame("DISC", TRUE, TRUE, FALSE))

Xdisc(c) == Send(c, UFrame("DISC", TRUE, TRUE, TRUE))

Xfrmr(c) == Send(c, UFrame("FRMR", FALSE, c.pf, TRUE))

(* The i-th of the frames sdi sends.  T1 is to start after the frame that  *)
(* fills the window or empties the list.                                   *)
IFrame(l, skip, i) ==
  LET vs == Plus(l, l.VS, i)
  IN  [t |-> "I", cmd |-> TRUE, pf |-> FALSE, x |-> l.ext, nr |-> l.VR,
       ns |-> Plus(l, l.VS, i - 1), d |-> l.sendil[skip + i],
       t1 |-> \/ vs = Plus(l, l.lrxdNR, l.maxframe)
              \/ Len(l.sendil) = (vs - l.lrxdNR) % Mod(l)]

(* sdi: send up to max messages behind the first skip ones.                *)
Sdi(c, skip, max) ==
  LET l    == c.l
      some == Least(max, Least(Len(l.sendil) - skip, l.maxframe - skip))
      n    == IF some < 0 THEN 0 ELSE some
  IN  IF n = 0 THEN c
      ELSE [c EXCEPT
              !.out = @ \o [i \in 1 .. n |-> IFrame(l, skip, i)],
              !.l = [ClrT2(l) EXCEPT !.VS = Plus(l, l.VS, n),
                                     !.ltxdNR = l.VR]]

(* sdoi: repeat everything outstanding; V(S) is back where it was.         *)
Sdoi(c) ==
  IF c.l.st \notin SendStates THEN c
  ELSE LET again == Sdi([c EXCEPT !.l.VS = c.l.lrxdNR], 0, OutsdI(c.l))
       IN  [again EXCEPT !.l = [again.l EXCEPT !.VS = c.l.VS,
                                               !.flag = @ \ {"REPEAT"}]]

(* sdipoll: after T1, poll with the first message when it is short, else   *)
(* with RR.  The control field is a single octet even on an EAX.25 link.   *)
Sdipoll(c) ==
  LET l == c.l
  IN  IF ShortFrames /\ l.tries < IpollRetry /\ l.sendil # <<>>
        THEN [Send(c, [t |-> "I", cmd |-> TRUE, pf |-> TRUE, x |-> FALSE,
                       nr |-> l.VR % 8, ns |-> l.lrxdNR,
                       d |-> l.sendil[1], t1 |-> TRUE])
                EXCEPT !.l = [ClrT3(ClrT2(l)) EXCEPT !.ltxdNR = l.VR]]
        ELSE SendS(c, "RR", TRUE, TRUE)

(* The functions of the state tables.                                      *)
Func(c, f) ==
  CASE f = "xdm"     -> Send(c, UFrame("DM", FALSE, c.pf, FALSE))
    [] f = "xua"     -> Send(c, UFrame("UA", FALSE, c.pf, FALSE))
    [] f = "xsabm"   -> Xsabm(c)
    [] f = "xdisc"   -> Xdisc(c)
    [] f = "xfrmr"   -> Xfrmr(c)
    [] f = "xrrr"    -> SendS(c, "RR", FALSE, c.pf)
    [] f = "xrnrr"   -> SendS(c, "RNR", FALSE, c.pf)
    [] f = "xrejr"   -> SendS(c, "REJ", FALSE, c.pf)
    [] f = "xrrc"    -> SendS(c, "RR", TRUE, TRUE)
    [] f = "xrnrc"   -> SendS(c, "RNR", TRUE, TRUE)
    [] f = "sdipoll" -> Sdipoll(c)
    [] f = "t2rrr"   -> [c EXCEPT !.l = SetT2(c.l, "RR")]
    [] f = "t2rnrr"  -> [c EXCEPT !.l = SetT2(c.l, "RNR")]
    [] f = "t2rejr"  -> [c EXCEPT !.l = SetT2(c.l, "REJ")]
    [] f = "xnull"   -> c

(* mftb[]: what an event does to the link before it is reported.           *)
Message(l, m) ==
  CASE m = "CONNT"            -> IniLnk(l)
    [] m \in {"DISCF", "FAILW", "BUSYF"} -> ClrLnk(l)
    [] m \in {"LRESF", "LREST"} -> ResLnk(l)
    [] OTHER                  -> l

(* l2stma: function, new state, message function.                          *)
Stma(c, tbl) ==
  LET e == tbl[c.l.st]
      d == Func(c, e.func)
  IN  [d EXCEPT !.l = Message([d.l EXCEPT !.st = e.next], e.msg)]

(* sdfrmr: reject the frame; only a link that is up does.                  *)
Sdfrmr(c) ==
  IF c.l.st \notin Transfer THEN c
  ELSE Stma([c EXCEPT !.l = ClrT2(ClrT1(c.l))], stbl27)

-----------------------------------------------------------------------------
(* l2rx: one received frame f.                                             *)

(* N(R) and N(S) as this link reads them: a link that disagrees with its   *)
(* peer on EAX.25 looks for them in the wrong octet or the wrong bits.     *)
BitOr(a, b) ==
  LET bit(w) == IF (a \div w) % 2 = 1 \/ (b \div w) % 2 = 1 THEN w ELSE 0
  IN  bit(1) + bit(2) + bit(4)

HighBits(f) == BitOr(f.nr % 8, f.ns \div 16)

RxNR(l, f) ==
  CASE f.x /\ l.ext               -> f.nr
    [] f.x /\ ~l.ext /\ f.t = "I" -> (f.ns \div 16) % ModStd
    [] ~f.x /\ ~l.ext             -> HighBits(f) % ModStd
    [] OTHER                      -> 0

(* Mutant: N(S) is not looked at.                                          *)
RxNS_Any(l, f) == l.VR

RxNS(l, f) ==
  IF f.x THEN f.ns % Mod(l) ELSE (16 * HighBits(f) + (f.ns % 8)) % Mod(l)

(* LINKBUSY: C groups the macro as (busyrx >= (bitmask == 0x7F)) ? 16 : 7. *)
LinkBusy(l) ==
  /\ "BUSY" \in l.flag
  /\ (IF l.busyrx >= (IF l.ext THEN 1 ELSE 0) THEN 16 ELSE 7) # 0

(* Mutant: the acknowledged frames go, the lower edge of the window stays. *)
Acknowledge_KeepsNR(l, nr, k) ==
  [ClrT1(l) EXCEPT !.T1 = k # OutsdI(l), !.sendil = SubSeq(@, k + 1, Len(@))]

(* srxdNR, N(R) acknowledges k of the outstanding frames.                  *)
Acknowledge(l, nr, k) ==
  LET all  == k = OutsdI(l)
      taken == [ClrT1([l EXCEPT !.lrxdNR = nr]) EXCEPT
                  !.T1 = ~all,
                  !.sendil = SubSeq(@, k + 1, Len(@))]
  IN  IF all THEN ChangeMaxframe(taken, 1) ELSE taken

(* Mutant: what is outstanding after the final is not sent again.          *)
Final_NoRepeat(l, f) ==
  IF ~f.cmd /\ f.pf THEN ClrT1(l) ELSE [l EXCEPT !.T1 = TRUE]

(* srxdNR in a state that waits for the final.                             *)
Final(l, f) ==
  IF ~f.cmd /\ f.pf
    THEN [ClrT1(l) EXCEPT
            !.flag = IF l.VS # l.lrxdNR THEN @ \cup {"REPEAT"} ELSE @]
    ELSE [l EXCEPT !.T1 = TRUE]

(* Mutant: N(R) may not acknowledge the whole window.                      *)
BadNR_OffByOne(l, f) ==
  /\ l.st \in Transfer
  /\ OutsdI(l) # 0
  /\ (RxNR(l, f) - l.lrxdNR) % Mod(l) >= OutsdI(l)

(* Does srxdNR reject N(R)?  Only when something is outstanding.           *)
BadNR(l, f) ==
  /\ l.st \in Transfer
  /\ OutsdI(l) # 0
  /\ (RxNR(l, f) - l.lrxdNR) % Mod(l) > OutsdI(l)

SrxdNR(l, f) ==
  LET k    == (RxNR(l, f) - l.lrxdNR) % Mod(l)
      done == IF OutsdI(l) # 0 /\ k # 0 THEN Acknowledge(l, RxNR(l, f), k) ELSE l
  IN  IF l.st \notin Transfer THEN l
      ELSE IF l.st \in WaitStates THEN Final(done, f) ELSE done

(* The I frame is the next one, or the state has no information transfer.  *)
AcceptI(c, f) ==
  LET open == c.l.st \in Transfer /\ ~LinkBusy(c.l)
      l    == IF open THEN [c.l EXCEPT !.VR = Plus(c.l, @, 1)] ELSE c.l
      d    == Stma([c EXCEPT !.l = [l EXCEPT !.tries = 0]],
                   IF f.pf THEN stbl00 ELSE stbl01)
      full == (d.l.VR - d.l.ltxdNR) % Mod(d.l) = Mod(d.l) - 1
      kept == d.l.flag \cap {"DSLE", "DIMM"} = {}
  IN  [d EXCEPT !.l = [d.l EXCEPT
         !.T2 = @ /\ ~full,
         !.rcvd = IF open /\ kept THEN @ + 1 ELSE @,
         !.busyrx = IF open /\ "BUSY" \in d.l.flag THEN (@ + 1) % 256 ELSE @,
         !.last = IF open THEN f.d ELSE @,
         !.got = IF open THEN @ \cup {f.d} ELSE @]]

RxI(c, f) ==
  LET a == [c EXCEPT !.l = SrxdNR(c.l, f)]
  IN  IF BadNR(c.l, f) THEN Sdfrmr(c)
      ELSE IF a.l.st \notin Transfer THEN AcceptI(a, f)
      ELSE IF RxNS(a.l, f) # a.l.VR
             THEN Stma(a, IF f.pf THEN stb26b ELSE stbl26)
      ELSE IF Plus(a.l, a.l.ltxdNR, Mod(a.l) - 1) = a.l.VR THEN Sdfrmr(a)
      ELSE AcceptI(a, f)

(* Mutant: a final is taken for an unpolled frame.                         *)
STable_NoFinal(f) ==
  CASE f.t = "RNR" /\ f.cmd /\ f.pf    -> stbl06
    [] f.t = "RNR" /\ ~(f.cmd /\ f.pf) -> stbl07
    [] f.t # "RNR" /\ f.cmd /\ f.pf    -> stbl02
    [] f.t # "RNR" /\ ~(f.cmd /\ f.pf) -> stbl03

STable(f) ==
  CASE f.t = "RNR" /\ f.cmd /\ f.pf  -> stbl06
    [] f.t = "RNR" /\ ~f.cmd /\ f.pf -> stbl14
    [] f.t = "RNR" /\ ~f.pf          -> stbl07
    [] f.t # "RNR" /\ f.cmd /\ f.pf  -> stbl02
    [] f.t # "RNR" /\ ~f.cmd /\ f.pf -> stbl10
    [] f.t # "RNR" /\ ~f.pf          -> stbl03

Repeat(c) == [c EXCEPT !.l.flag = @ \cup {"REPEAT"}]

RxS(c, f) ==
  LET a == [c EXCEPT !.l = [SrxdNR(c.l, f) EXCEPT !.tries = 0]]
      d == Stma(a, STable(f))
  IN  CASE BadNR(c.l, f) -> Sdfrmr(c)
        [] ~BadNR(c.l, f) /\ f.t = "RNR" -> Repeat(d)
        [] ~BadNR(c.l, f) /\ f.t = "REJ" /\ c.l.st \in Transfer ->
             Sdoi(Repeat([d EXCEPT !.l = ChangeMaxframe(d.l, -1)]))
        [] OTHER -> d

RxSABM(c, f) ==
  LET e == f.t = "SABME"
  IN  IF EaxMode[c.n] = (IF e THEN 0 ELSE 3)
        THEN Func(c, "xdm")
        ELSE Stma([c EXCEPT !.l = [c.l EXCEPT
                             !.ext = e,
                             !.maxframe = IF e THEN MaxframeExt ELSE @]],
                  stbl08)

RxU(c, f) ==
  LET a == [c EXCEPT !.l = ClrT3(c.l)]
  IN  CASE f.t \in {"SABM", "SABME"} -> RxSABM(a, f)
        [] f.t = "DISC" /\ c.l.st = L2SDSCED ->
             Func(a, IF f.pf /\ f.cmd THEN "xdm" ELSE "xua")
        [] f.t = "DISC" /\ c.l.st # L2SDSCED -> Stma(a, stbl09)
        [] f.t = "UA" -> Stma(a, stbl16)
        [] f.t = "DM" /\ c.l.st = L2SLKSUP /\ c.l.ext ->
             [a EXCEPT !.l.ext = EaxMode[c.n] = 3]
        [] f.t = "DM" /\ ~(c.l.st = L2SLKSUP /\ c.l.ext) -> Stma(a, stbl17)
        [] f.t = "FRMR" -> Stma(c, stbl18)

L2rx(c, f) ==
  CASE f.t = "I"                   -> RxI(c, f)
    [] f.t \in {"RR", "RNR", "REJ"} -> RxS(c, f)
    [] OTHER                       -> RxU(c, f)

(* getlnk found no link block: too few buffers are free.                   *)
NoLink(c, f) ==
  CASE f.t \in {"SABM", "SABME"} \/ (f.pf /\ f.cmd) -> Func(c, "xdm")
    [] f.t = "DISC" /\ ~(f.pf /\ f.cmd)             -> Func(c, "xua")
    [] OTHER                                        -> c

-----------------------------------------------------------------------------
(* l2tx and l2timr.                                                        *)

(* itxwnd: the window is open and there is something new to send.          *)
ItxWnd(l) ==
  /\ l.st \in SendStates
  /\ OutsdI(l) < l.maxframe
  /\ Len(l.sendil) > OutsdI(l)

L2tx(c) ==
  CASE c.l.RStype = "REJ" -> c
    [] c.l.RStype # "REJ" /\ "REPEAT" \in c.l.flag -> Sdoi(c)
    [] c.l.RStype # "REJ" /\ "REPEAT" \notin c.l.flag /\ ItxWnd(c.l) ->
         Sdi(c, OutsdI(c.l), c.l.maxframe)
    [] OTHER -> c

(* Mutant: nothing happens when T3 expires.                                *)
T3Part_Ignored(c, late) == c

T3Part(c, late) ==
  IF c.l.T3 /\ "T3" \in late THEN Stma([c EXCEPT !.l = ClrT3(c.l)], stbl24)
  ELSE c

(* Mutant: the limit below which a busy node is ready again is one less.   *)
BusyPart_OffByOne(c, mem) ==
  LET short == mem = "low" \/ c.l.rcvd >= Conctl
      ample == mem = "high" /\ c.l.rcvd < Conctl \div 2 - 1
  IN  CASE "BUSY" \notin c.l.flag /\ short ->
             Stma([c EXCEPT !.l = [c.l EXCEPT !.flag = @ \cup {"BUSY"},
                                              !.busyrx = 0]], stbl21)
        [] "BUSY" \in c.l.flag /\ ample ->
             Stma([c EXCEPT !.l.flag = @ \ {"BUSY"}], stbl22)
        [] OTHER -> c

(* The link becomes busy or ready again.                                   *)
BusyPart(c, mem) ==
  LET short == mem = "low" \/ c.l.rcvd >= Conctl
      ample == mem = "high" /\ c.l.rcvd < Conctl \div 2
  IN  CASE "BUSY" \notin c.l.flag /\ short ->
             Stma([c EXCEPT !.l = [c.l EXCEPT !.flag = @ \cup {"BUSY"},
                                              !.busyrx = 0]], stbl21)
        [] "BUSY" \in c.l.flag /\ ample ->
             Stma([c EXCEPT !.l.flag = @ \ {"BUSY"}], stbl22)
        [] OTHER -> c

T1Part(c, late) ==
  LET more == c.l.tries + 1
      l    == [c.l EXCEPT !.T1 = FALSE, !.T3 = TRUE]
      m    == IF more > 1 THEN ChangeMaxframe(l, -1) ELSE l
  IN  IF ~(c.l.T1 /\ "T1" \in late) THEN c
      ELSE IF more < Retry THEN Stma([c EXCEPT !.l = [m EXCEPT !.tries = more]], stbl23)
      ELSE Stma([c EXCEPT !.l = [m EXCEPT !.tries = 0]], stbl25)

(* Nothing delays the answer that is due any longer.                       *)
T2Part(c, late) ==
  LET due == ~c.l.T2 \/ "T2" \in late
      s   == IF "BUSY" \in c.l.flag THEN "RNR" ELSE c.l.RStype
  IN  CASE due /\ c.l.RStype # "none" -> SendS(c, s, FALSE, FALSE)
        [] due /\ c.l.RStype = "none" -> [c EXCEPT !.l.T2 = FALSE]
        [] ~due -> c

(* l2timr for a link, when timers "late" expire, mem says how many buffers *)
(* are free, the higher levels take k messages and the port is busy or not.*)
L2timr(c, late, mem, k, busy) ==
  LET a == T3Part(c, late)
      b == IF Len(a.l.sendil) > TosendMax /\ a.l.st \in Transfer
             THEN [a EXCEPT !.l.flag = @ \cup {"DIMM"}] ELSE a
      d == BusyPart([b EXCEPT !.l = I2tolx(b.l, k)], mem)
      stop == Stma(b, stbl20)
  IN  CASE "DIMM" \in b.l.flag -> [stop EXCEPT !.l.flag = @ \ {"DIMM"}]
        [] "DIMM" \notin b.l.flag /\ "DSLE" \in b.l.flag /\ b.l.sendil = <<>> ->
             Stma([b EXCEPT !.l = ResLnk(b.l)], stbl20)
        [] OTHER -> IF busy THEN d ELSE T2Part(T1Part(d, late), late)

-----------------------------------------------------------------------------
(* The specification.                                                      *)

Context(n, pf) == [n |-> n, l |-> lk[n], out |-> <<>>, pf |-> pf]

(* The frames of c join n's list for the driver (sdl2fr).                  *)
Fits(n, c) == Len(txq[n]) + Len(c.out) <= TxMax

Sent(n, c) ==
  /\ Fits(n, c)
  /\ lk' = [lk EXCEPT ![n] = c.l]
  /\ txq' = [txq EXCEPT ![n] = @ \o c.out]

Use(what) == used' = [used EXCEPT ![what] = @ + 1]

BlankLink ==
  [st |-> L2SDSCED, ext |-> FALSE, VS |-> 0, VR |-> 0, ltxdNR |-> 0,
   lrxdNR |-> 0, maxframe |-> MaxframeStd, tries |-> 0, T1 |-> FALSE,
   T2 |-> FALSE, T3 |-> FALSE, RStype |-> "none", flag |-> {}, busyrx |-> 0,
   sendil |-> <<>>, rcvd |-> 0, last |-> 0, got |-> {}]

Init ==
  /\ lk = [n \in Node |-> BlankLink]
  /\ txq = [n \in Node |-> <<>>]
  /\ rxq = [n \in Node |-> <<>>]
  /\ used = [connect |-> 0, disconnect |-> 0, loss |-> 0, restart |-> 0,
             low |-> 0, msg |-> [n \in Node |-> 0]]

OnAir == \E n \in Node : txq[n] # <<>> \/ rxq[n] # <<>>

(* A user of n connects to the peer: newlnk.  A patient one waits until    *)
(* nothing of an earlier link is still under way, but may cross a connect  *)
(* of the peer.                                                            *)
Connect(n) ==
  /\ n \in Callers
  /\ lk[n].st = L2SDSCED
  /\ Patient /\ OnAir => lk[Peer(n)].st = L2SLKSUP
  /\ used.connect < MaxConnects
  /\ \E eax \in (IF EaxMode[n] = 2 THEN {TRUE} ELSE DestEax) :
       LET l == ResLnk([lk[n] EXCEPT !.ext = eax])
       IN  Sent(n, Stma([Context(n, FALSE) EXCEPT !.l = l], stbl19))
  /\ Use("connect")
  /\ UNCHANGED rxq

(* A user of n disconnects: dsclnk.  The frames go out before the link.    *)
Disconnect(n) ==
  /\ lk[n].st # L2SDSCED
  /\ used.disconnect < MaxDisconnects
  /\ LET now == lk[n].st \in {L2SLKSUP, L2SDSCRQ} \/ "DSLE" \in lk[n].flag
         why == IF now THEN "DIMM" ELSE "DSLE"
     IN  lk' = [lk EXCEPT ![n] = [lk[n] EXCEPT !.rcvd = 0, !.flag = @ \cup {why}]]
  /\ Use("disconnect")
  /\ UNCHANGED <<txq, rxq>>

(* A user of n sends the next message: itolnk.                             *)
Queue(n) ==
  /\ lk[n].st \notin {L2SDSCED, L2SDSCRQ}
  /\ Level3 \/ Len(lk[n].sendil) < Conctl
  /\ used.msg[n] < MaxMsg[n]
  /\ lk' = [lk EXCEPT ![n].sendil = Append(@, used.msg[n] + 1)]
  /\ used' = [used EXCEPT !.msg[n] = @ + 1]
  /\ UNCHANGED <<txq, rxq>>

(* The driver has sent a frame: it arrives, and clrstfl starts T1.         *)
Transmitted(n) ==
  /\ txq[n] # <<>>
  /\ txq' = [txq EXCEPT ![n] = Tail(@)]
  /\ lk' = [lk EXCEPT ![n] = IF Head(txq[n]).t1 THEN SetT1(n, @) ELSE @]

Transmit(n) ==
  /\ Transmitted(n)
  /\ Len(rxq[Peer(n)]) < RxMax
  /\ rxq' = [rxq EXCEPT ![Peer(n)] = Append(@, Head(txq[n]))]
  /\ UNCHANGED used

(* The same, but the air, or sdl2fr for want of buffers, lost the frame.   *)
Lose(n) ==
  /\ Transmitted(n)
  /\ used.loss < MaxLoss
  /\ Use("loss")
  /\ UNCHANGED rxq

(* l2rx takes the next frame; a free link block may be refused.            *)
Receive(n) ==
  /\ rxq[n] # <<>>
  /\ rxq' = [rxq EXCEPT ![n] = Tail(@)]
  /\ LET f == Head(rxq[n])
         c == Context(n, f.pf)
     IN  \/ /\ Sent(n, L2rx(c, f))
            /\ UNCHANGED used
         \/ /\ lk[n].st = L2SDSCED
            /\ used.low < MaxLow
            /\ Sent(n, NoLink(c, f))
            /\ Use("low")

(* l2tx, and l2timr when the clock has ticked.                             *)
Turn(n, ticked, late, mem, k, busy) ==
  LET c == Context(n, FALSE)
      s == IF busy THEN c ELSE L2tx(c)
  IN  IF ticked THEN L2timr(s, late, mem, k, busy) ELSE s

Serve(n, ticked, late, mem, k, busy) ==
  /\ lk[n].st # L2SDSCED
  /\ rxq[n] = <<>>
  /\ Sent(n, Turn(n, ticked, late, mem, k, busy))
  /\ IF mem = "low" THEN Use("low") ELSE UNCHANGED used
  /\ UNCHANGED rxq

(* How many buffers are free, as l2timr sees it.                           *)
Memory == {"high"} \cup (IF MaxLow > 0 THEN {"middle"} ELSE {})
                   \cup (IF used.low < MaxLow THEN {"low"} ELSE {})

(* The timers that may have run out: T1 and T3 if they run, and T2, which  *)
(* may also start and run out in the same tick.  A patient T1 leaves time  *)
(* for all the frames that are still on their way, and T3 outlasts it.     *)
Due(n) ==
  {t \in {"T1", "T2", "T3"} :
     /\ t = "T1" => lk[n].T1
     /\ t = "T3" => lk[n].T3
     /\ t # "T2" /\ Patient => ~OnAir
     /\ t = "T3" => IdleTimer /\ (Patient => ~lk[n].T1)}

L2(n) ==
  \/ Serve(n, FALSE, {}, "high", 0, FALSE)
  \/ \E late \in SUBSET Due(n), mem \in Memory, k \in 0 .. lk[n].rcvd,
        busy \in BOOLEAN : Serve(n, TRUE, late, mem, k, busy)

(* The program of n is restarted; nothing of level 2 is kept.              *)
Restart(n) ==
  /\ used.restart < MaxRestarts
  /\ lk' = [lk EXCEPT ![n] = [BlankLink EXCEPT !.got = lk[n].got]]
  /\ txq' = [txq EXCEPT ![n] = <<>>]
  /\ rxq' = [rxq EXCEPT ![n] = <<>>]
  /\ Use("restart")

Next ==
  \E n \in Node :
    \/ Connect(n) \/ Disconnect(n) \/ Queue(n)
    \/ Transmit(n) \/ Lose(n) \/ Receive(n) \/ L2(n)
    \/ Restart(n)

Spec == Init /\ [][Next]_vars

(* main() calls the drivers and l2() for ever, the clock ticks, and the    *)
(* higher levels fetch what has arrived; what is due does run out.  Each   *)
(* l2() ends with l2tx and l2timr, however often l2rx had work, so that    *)
(* Tick is strongly fair.  ENABLED is written out, and Tick begins with    *)
(* what every Serve leaves alone: TLC is slow at them.                     *)

Tick(n) ==
  /\ UNCHANGED <<rxq, used, lk[Peer(n)], txq[Peer(n)]>>
  /\ Serve(n, TRUE, Due(n), "high", lk[n].rcvd, FALSE)

CanTick(n) ==
  LET c == Turn(n, TRUE, Due(n), "high", lk[n].rcvd, FALSE)
  IN  /\ lk[n].st # L2SDSCED
      /\ rxq[n] = <<>>
      /\ Fits(n, c)
      /\ c # Context(n, FALSE)

CanReceive(n) ==
  /\ rxq[n] # <<>>
  /\ LET f == Head(rxq[n]) IN Fits(n, L2rx(Context(n, f.pf), f))

Fairness ==
  \A n \in Node :
    /\ WF_vars(Transmit(n))
    /\ []<>~CanReceive(n) \/ []<><<Receive(n)>>_vars
    /\ <>[]~CanTick(n) \/ []<><<Tick(n)>>_vars

FairSpec == Spec /\ Fairness
-----------------------------------------------------------------------------
(* Properties.                                                             *)

Used == [connect : Nat, disconnect : Nat, loss : Nat, restart : Nat,
         low : Nat, msg : [Node -> Nat]]

(* Every variable keeps its type, and the numbers of an established link   *)
(* stay within its bitmask.                                                *)
Masked(l) ==
  l.st \in Transfer => {l.VS, l.VR, l.ltxdNR, l.lrxdNR} \subseteq 0 .. Mod(l) - 1

TypeOK ==
  /\ lk \in [Node -> Link]
  /\ \A n \in Node : Masked(lk[n])
  /\ txq \in [Node -> Seq(Frame)]
  /\ rxq \in [Node -> Seq(Frame)]
  /\ used \in Used

(* sdi() and srxdNR() walk and cut sendil by the number of outstanding     *)
(* frames without looking at its end: a link that is up never has more     *)
(* frames outstanding than sendil holds.                                   *)
WindowInQueue ==
  \A n \in Node : lk[n].st \in Transfer => OutsdI(lk[n]) <= Len(lk[n].sendil)

(* Nobody waits for ever: a link that waits for an answer has T1 running,  *)
(* or a frame that will start T1 is still with the driver.                 *)
Awaiting == {L2SLKSUP, L2SFRREJ, L2SDSCRQ} \cup WaitStates

AwaitingTimed ==
  \A n \in Node : lk[n].st \in Awaiting =>
    lk[n].T1 \/ \E i \in 1 .. Len(txq[n]) : txq[n][i].t1

(* Level 2 implements the two pipes of L2Pipe: whatever is lost, repeated, *)
(* polled again, reset, refused or restarted, a message is accepted in     *)
(* order, without gap or duplicate between two resets, and leaves its      *)
(* sender's list by N(R) only after the peer accepted it.                  *)
Pipe ==
  INSTANCE L2Pipe WITH
    offered <- used.msg,
    pending <- [n \in Node |-> lk[n].sendil],
    taken   <- [n \in Node |-> lk[n].got],
    last    <- [n \in Node |-> lk[n].last],
    up      <- [n \in Node |-> lk[n].st # L2SDSCED]

PipeSpec == Pipe!Spec

(* An established link has T1 or T3 running, or a frame with the driver    *)
(* that will start T1.                                                     *)
Supervised ==
  \A n \in Node : lk[n].st \in Transfer =>
    lk[n].T1 \/ lk[n].T3 \/ \E i \in 1 .. Len(txq[n]) : txq[n][i].t1

(* Two established links agree on EAX.25, and read each other's frames the *)
(* way they were meant.                                                    *)
SameMode ==
  \A n \in Node : lk[n].st \in Transfer =>
    /\ ~OnAir /\ lk[Peer(n)].st \in Transfer => lk[n].ext = lk[Peer(n)].ext
    /\ \A i \in 1 .. Len(rxq[n]) :
         rxq[n][i].t \in {"I", "RR", "RNR", "REJ"} => rxq[n][i].x = lk[n].ext

(* A reset cleared L2FBUSY (reslnk) of a link whose state stayed busy: no  *)
(* operation takes that state back (BusyClears).                           *)
StaleBusy(n) ==
  lk[n].st \in DeviceBusyStates /\ "BUSY" \notin lk[n].flag

(* While frames are lost only finitely often, a link with messages to send *)
(* delivers them or goes down: neither a busy end, nor two, nor a reject,  *)
(* nor a lost "ready again" blocks it for ever.  The one busy condition    *)
(* that does is the one a reset left behind, StaleBusy.                    *)
Delivers ==
  \A n \in Node :
    lk[n].sendil # <<>> /\ lk[n].st \in Transfer
      ~> \/ lk[n].sendil = <<>>
         \/ lk[n].st = L2SDSCED
         \/ StaleBusy(Peer(n))

(* Under the same fairness a link that waits for an answer, to a setup, a  *)
(* disconnect, a FRMR or a poll, gets it or goes down.                     *)
Answered ==
  \A n \in Node : lk[n].st \in Awaiting ~> lk[n].st \notin Awaiting

(* A node whose peer has lost the link notices it.                         *)
NoHalfOpen ==
  \A n \in Node :
    lk[n].st \in Transfer /\ lk[Peer(n)].st = L2SDSCED
      ~> lk[n].st \notin Transfer \/ lk[Peer(n)].st # L2SDSCED

(* Two nodes with this code never have a frame to reject.                  *)
NoReject == \A n \in Node : lk[n].st # L2SFRREJ

-----------------------------------------------------------------------------
(* What the comments of the source say, and the code does not do.          *)

(* l2timer.c: with enough free buffers and few messages to fetch, the busy *)
(* condition is dissolved.                                                 *)
BusyClears ==
  \A n \in Node :
    lk[n].st \in DeviceBusyStates ~> lk[n].st \notin DeviceBusyStates

(* getlnk: a link block that is free is empty.  The messages of one link   *)
(* are never sent on the next one, which may lead to another station.      *)
FreeBlockEmpty ==
  \A n \in Node : lk[n].st = L2SDSCED => lk[n].sendil = <<>>
=============================================================================
