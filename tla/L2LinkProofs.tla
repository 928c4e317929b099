---------------------------- MODULE L2LinkProofs ----------------------------
(***************************************************************************)
(* Proofs about L2Link, for every value of its constants.                  *)
(***************************************************************************)
EXTENDS L2Link, SequenceTheorems, TLAPS

-----------------------------------------------------------------------------
(* The state tables.  A link that enters or keeps information transfer has *)
(* not just sent a SABM, or is reset by the message function.              *)

TableOK(t) ==
  \A s \in States :
    /\ t[s].func \in Funcs
    /\ t[s].next \in States
    /\ t[s].msg \in Msgs
    /\ t[s].next \in Transfer =>
         \/ t[s].msg \in {"CONNT", "LRESF"}
         \/ s \in Transfer /\ t[s].func # "xsabm"

LEMMA TablesOK ==
  /\ TableOK(stbl00) /\ TableOK(stbl01) /\ TableOK(stbl02) /\ TableOK(stbl03)
  /\ TableOK(stbl06) /\ TableOK(stbl07) /\ TableOK(stbl08) /\ TableOK(stbl09)
  /\ TableOK(stbl10) /\ TableOK(stbl14) /\ TableOK(stbl16) /\ TableOK(stbl17)
  /\ TableOK(stbl18) /\ TableOK(stbl19) /\ TableOK(stbl20) /\ TableOK(stbl21)
  /\ TableOK(stbl22) /\ TableOK(stbl23) /\ TableOK(stbl24) /\ TableOK(stbl25)
  /\ TableOK(stbl26) /\ TableOK(stb26b) /\ TableOK(stbl27)
<1> USE DEF TableOK, Table, Column, States, Transfer, Funcs, Msgs, L2SDSCED,
            L2SLKSUP, L2SFRREJ, L2SDSCRQ, Down, Setup, Quiet, Silent, PollQuiet,
            RRorRNR, T2RRorRNR, RemoteReady, RemoteBusy, Polled
<1>1. TableOK(stbl00) BY SMTT(40) DEF stbl00
<1>2. TableOK(stbl01) BY SMTT(40) DEF stbl01
<1>3. TableOK(stbl02) BY SMTT(40) DEF stbl02
<1>4. TableOK(stbl03) BY SMTT(40) DEF stbl03
<1>5. TableOK(stbl06) BY SMTT(40) DEF stbl06
<1>6. TableOK(stbl07) BY SMTT(40) DEF stbl07
<1>7. TableOK(stbl08) BY SMTT(40) DEF stbl08
<1>8. TableOK(stbl09) BY SMTT(40) DEF stbl09
<1>9. TableOK(stbl10) BY SMTT(40) DEF stbl10
<1>10. TableOK(stbl14) BY SMTT(40) DEF stbl14
<1>11. TableOK(stbl16) BY SMTT(40) DEF stbl16
<1>12. TableOK(stbl17) BY SMTT(40) DEF stbl17
<1>13. TableOK(stbl18) BY SMTT(40) DEF stbl18
<1>14. TableOK(stbl19) BY SMTT(40) DEF stbl19
<1>15. TableOK(stbl20) BY SMTT(40) DEF stbl20
<1>16. TableOK(stbl21) BY SMTT(40) DEF stbl21
<1>17. TableOK(stbl22) BY SMTT(40) DEF stbl22
<1>18. TableOK(stbl23) BY SMTT(40) DEF stbl23
<1>19. TableOK(stbl24) BY SMTT(40) DEF stbl24
<1>20. TableOK(stbl25) BY SMTT(40) DEF stbl25
<1>21. TableOK(stbl26) BY SMTT(40) DEF stbl26
<1>22. TableOK(stb26b) BY SMTT(40) DEF stb26b
<1>23. TableOK(stbl27) BY SMTT(40) DEF stbl27
<1> HIDE DEF TableOK
<1> QED BY <1>1, <1>2, <1>3, <1>4, <1>5, <1>6, <1>7, <1>8, <1>9, <1>10, <1>11, <1>12,
           <1>13, <1>14, <1>15, <1>16, <1>17, <1>18, <1>19, <1>20, <1>21, <1>22, <1>23

-----------------------------------------------------------------------------
(* Link blocks.  The provers reason about the fields of a record with many *)
(* fields, not about the record set: IsRec says that l is a record of      *)
(* these fields, Typed what they hold.                                     *)

Fields == {"st", "ext", "VS", "VR", "ltxdNR", "lrxdNR", "maxframe", "tries",
           "T1", "T2", "T3", "RStype", "flag", "busyrx", "sendil", "rcvd",
           "last", "got"}

IsRec(l) == l = [f \in Fields |-> l[f]]

RStypes == {"none", "RR", "RNR", "REJ"}

Typed(l) ==
  /\ l.st \in States /\ l.ext \in BOOLEAN
  /\ l.VS \in 0 .. 127 /\ l.VR \in 0 .. 127
  /\ l.ltxdNR \in 0 .. 127 /\ l.lrxdNR \in 0 .. 127
  /\ l.maxframe \in 1 .. 127 /\ l.tries \in 0 .. 127
  /\ l.T1 \in BOOLEAN /\ l.T2 \in BOOLEAN /\ l.T3 \in BOOLEAN
  /\ l.RStype \in RStypes /\ l.flag \in SUBSET Flags
  /\ l.busyrx \in 0 .. 255 /\ l.sendil \in Seq(Nat) /\ l.rcvd \in Nat
  /\ l.last \in Nat /\ l.got \in SUBSET Nat

(* An established link counts within its bitmask, and what is outstanding   *)
(* is still in its queue.                                                  *)
Sound(l) == Masked(l) /\ (l.st \in Transfer => OutsdI(l) <= Len(l.sendil))

(* m is a link block like l: in the same state, with the same bitmask.      *)
Same(l, m) ==
  m \in Link /\ m.st = l.st /\ m.ext = l.ext /\ (Sound(l) => Sound(m))

LEMMA LinkElim == ASSUME NEW l \in Link PROVE IsRec(l) /\ Typed(l)
BY DEF IsRec, Fields, Link, Typed, RStypes

LEMMA LinkIntro == ASSUME NEW l, IsRec(l), Typed(l) PROVE l \in Link
<1>1. l = [st |-> l.st, ext |-> l.ext, VS |-> l.VS, VR |-> l.VR,
           ltxdNR |-> l.ltxdNR, lrxdNR |-> l.lrxdNR, maxframe |-> l.maxframe,
           tries |-> l.tries, T1 |-> l.T1, T2 |-> l.T2, T3 |-> l.T3,
           RStype |-> l.RStype, flag |-> l.flag, busyrx |-> l.busyrx,
           sendil |-> l.sendil, rcvd |-> l.rcvd, last |-> l.last, got |-> l.got]
  BY DEF IsRec, Fields
<1> QED BY <1>1 DEF Typed, Link, RStypes

LEMMA Put == ASSUME NEW l, IsRec(l), NEW f, NEW v PROVE IsRec([l EXCEPT ![f] = v])
BY DEF IsRec

(* Timers and link variables keep the type, and the sequence numbers of an *)
(* established link within its bitmask.                                    *)

LEMMA ModType == ASSUME NEW l PROVE Mod(l) \in 2 .. 128
BY WindowAssumption DEF Mod

LEMMA PlusType == ASSUME NEW l, NEW s \in Int, NEW k \in Int
                  PROVE  Plus(l, s, k) \in 0 .. Mod(l) - 1
BY ModType DEF Plus

LEMMA PortMaxType == ASSUME NEW l PROVE PortMax(l) \in 1 .. 127
BY WindowAssumption DEF PortMax

LEMMA ModRange == ASSUME NEW a \in Int, NEW b \in Nat \ {0} PROVE a % b \in 0 .. b - 1
OBVIOUS

LEMMA ModSmall ==
  ASSUME NEW M \in Nat \ {0}, NEW v \in Int, 0 <= v, v < M
  PROVE  v % M = v
OBVIOUS

LEMMA ModNeg ==
  ASSUME NEW M \in Nat \ {0}, NEW v \in Int, -M <= v, v < 0
  PROVE  v % M = v + M
OBVIOUS

LEMMA ModBig ==
  ASSUME NEW M \in Nat \ {0}, NEW v \in Int, M <= v, v < 2 * M
  PROVE  v % M = v - M
OBVIOUS

(* The distance of two numbers of the same modulus, and when the higher    *)
(* one moves on.                                                           *)
LEMMA Distance ==
  ASSUME NEW M \in Nat \ {0}, NEW a \in 0 .. M - 1, NEW b \in 0 .. M - 1
  PROVE  (a - b) % M = IF a >= b THEN a - b ELSE a - b + M
<1>1. CASE a >= b BY <1>1, ModSmall
<1>2. CASE a < b BY <1>2, ModNeg
<1> QED BY <1>1, <1>2

LEMMA Advance ==
  ASSUME NEW M \in Nat \ {0}, NEW a \in 0 .. M - 1, NEW b \in 0 .. M - 1, NEW k \in Nat
  PROVE  (((a + k) % M) - b) % M <= ((a - b) % M) + k
<1> DEFINE v == (a + k) % M
<1>1. v \in 0 .. M - 1 BY ModRange
<1>2. (v - b) % M = IF v >= b THEN v - b ELSE v - b + M BY <1>1, Distance
<1>3. (a - b) % M = IF a >= b THEN a - b ELSE a - b + M BY Distance
<1>4. CASE a + k < M
  <2>1. v = a + k BY <1>4, ModSmall
  <2> QED BY <1>2, <1>3, <2>1
<1>5. CASE a + k >= M
  <2> HIDE DEF v
  <2>1. CASE a >= b
    <3>1. (v - b) % M <= M - 1 /\ (v >= b => (v - b) % M = v - b) BY <1>1, <1>2
    <3>2. CASE k >= M BY <1>1, <1>2, <1>3, <2>1, <3>1, <3>2
    <3>3. CASE k < M
      <4>2. a + k \in Int /\ M <= a + k /\ a + k < 2 * M BY <1>5, <3>3
      <4>3. M \in Nat \ {0} OBVIOUS
      <4>4. ASSUME NEW x \in Int, M <= x, x < 2 * M PROVE x % M = x - M BY <4>3, <4>4, ModBig
      <4>5. (a + k) % M = a + k - M
        <5> DEFINE x == a + k
        <5>1. x \in Int /\ M <= x /\ x < 2 * M BY <4>2
        <5> HIDE DEF x
        <5>2. x % M = x - M BY <4>4, <5>1
        <5> QED BY <5>2 DEF x
      <4>1. v = a + k - M BY <4>5 DEF v
      <4> QED BY <1>2, <1>3, <2>1, <3>3, <4>1
    <3> QED BY <3>2, <3>3
  <2>2. CASE a < b
    <3>1. (v - b) % M <= M - 1 BY <1>1, <1>2
    <3> QED BY <1>3, <1>5, <2>2, <3>1, <1>1, <1>2
  <2> QED BY <2>1, <2>2
<1> QED BY <1>4, <1>5

(* ... and when the lower one does, as far as the higher one at most.      *)
LEMMA Approach ==
  ASSUME NEW M \in Nat \ {0}, NEW a \in 0 .. M - 1, NEW b \in 0 .. M - 1,
         NEW r \in 0 .. M - 1, (r - b) % M <= (a - b) % M
  PROVE  (a - r) % M = ((a - b) % M) - ((r - b) % M)
<1>1. (a - b) % M = IF a >= b THEN a - b ELSE a - b + M BY Distance
<1>2. (r - b) % M = IF r >= b THEN r - b ELSE r - b + M BY Distance
<1>3. (a - r) % M = IF a >= r THEN a - r ELSE a - r + M BY Distance
<1> QED BY <1>1, <1>2, <1>3

LEMMA Shorter ==
  ASSUME NEW o \in 0 .. 127, NEW k \in Nat, NEW len \in Nat, o <= len, k <= o
  PROVE  k <= len /\ o - k <= len - k
OBVIOUS

LEMMA ClrT1Type ==
  ASSUME NEW l \in Link
  PROVE  Same(l, ClrT1(l))
<1>1. IsRec(l) /\ Typed(l) BY LinkElim
<1>2. IsRec(ClrT1(l)) BY <1>1, Put, Zenon DEF ClrT1
<1>3. Typed(ClrT1(l))
  BY <1>1 DEF ClrT1, IsRec, Fields, Typed, RStypes, Flags
<1>4. ClrT1(l).st = l.st /\ ClrT1(l).ext = l.ext BY <1>1 DEF ClrT1, IsRec, Fields
<1>5. Sound(l) => Sound(ClrT1(l))
  BY <1>1 DEF Sound, Masked, OutsdI, Mod, ClrT1, IsRec, Fields, Typed
<1> QED BY <1>2, <1>3, <1>4, <1>5, LinkIntro DEF Same

LEMMA ClrT2Type ==
  ASSUME NEW l \in Link
  PROVE  Same(l, ClrT2(l))
<1>1. IsRec(l) /\ Typed(l) BY LinkElim
<1>2. IsRec(ClrT2(l)) BY <1>1, Put, Zenon DEF ClrT2
<1>3. Typed(ClrT2(l))
  BY <1>1 DEF ClrT2, IsRec, Fields, Typed, RStypes, Flags
<1>4. ClrT2(l).st = l.st /\ ClrT2(l).ext = l.ext BY <1>1 DEF ClrT2, IsRec, Fields
<1>5. Sound(l) => Sound(ClrT2(l))
  BY <1>1 DEF Sound, Masked, OutsdI, Mod, ClrT2, IsRec, Fields, Typed
<1> QED BY <1>2, <1>3, <1>4, <1>5, LinkIntro DEF Same

LEMMA SetT2Type ==
  ASSUME NEW l \in Link, NEW s \in RStypes
  PROVE  Same(l, SetT2(l, s))
<1>1. IsRec(l) /\ Typed(l) BY LinkElim
<1>2. IsRec(SetT2(l, s)) BY <1>1, Put, Zenon DEF SetT2
<1>3. Typed(SetT2(l, s))
  BY <1>1 DEF SetT2, IsRec, Fields, Typed, RStypes, Flags
<1>4. SetT2(l, s).st = l.st /\ SetT2(l, s).ext = l.ext BY <1>1 DEF SetT2, IsRec, Fields
<1>5. Sound(l) => Sound(SetT2(l, s))
  BY <1>1 DEF Sound, Masked, OutsdI, Mod, SetT2, IsRec, Fields, Typed
<1> QED BY <1>2, <1>3, <1>4, <1>5, LinkIntro DEF Same

LEMMA ClrT3Type ==
  ASSUME NEW l \in Link
  PROVE  Same(l, ClrT3(l))
<1>1. IsRec(l) /\ Typed(l) BY LinkElim
<1>2. IsRec(ClrT3(l)) BY <1>1, Put, Zenon DEF ClrT3
<1>3. Typed(ClrT3(l))
  BY <1>1 DEF ClrT3, IsRec, Fields, Typed, RStypes, Flags
<1>4. ClrT3(l).st = l.st /\ ClrT3(l).ext = l.ext BY <1>1 DEF ClrT3, IsRec, Fields
<1>5. Sound(l) => Sound(ClrT3(l))
  BY <1>1 DEF Sound, Masked, OutsdI, Mod, ClrT3, IsRec, Fields, Typed
<1> QED BY <1>2, <1>3, <1>4, <1>5, LinkIntro DEF Same

LEMMA ResLnkType ==
  ASSUME NEW l \in Link
  PROVE  ResLnk(l) \in Link /\ ResLnk(l).st = l.st /\ Sound(ResLnk(l))
<1>1. IsRec(l) /\ Typed(l) BY LinkElim
<1>2. IsRec(ResLnk(l)) BY <1>1, Put, Zenon DEF ResLnk, ClrT1, ClrT2
<1>3. Typed(ResLnk(l))
  BY <1>1 DEF ResLnk, ClrT1, ClrT2, IsRec, Fields, Typed, RStypes, Flags
<1>4. Sound(ResLnk(l))
  <2>1. /\ ResLnk(l).VS = 0 /\ ResLnk(l).lrxdNR = 0 /\ ResLnk(l).VR = 0
        /\ ResLnk(l).ltxdNR = 0 /\ ResLnk(l).sendil = l.sendil
    BY <1>1 DEF ResLnk, ClrT1, ClrT2, IsRec, Fields
  <2>2. Len(l.sendil) \in Nat
    <3>1. l.sendil \in Seq(Nat) BY <1>1, Zenon DEF Typed
    <3> QED BY <3>1
  <2> HIDE DEF ResLnk
  <2>3. Mod(ResLnk(l)) \in 2 .. 128 BY ModType
  <2>4. OutsdI(ResLnk(l)) = 0
    <3>1. OutsdI(ResLnk(l)) = (0 - 0) % Mod(ResLnk(l)) BY <2>1 DEF OutsdI
    <3>2. Mod(ResLnk(l)) \in Nat \ {0} BY <2>3
    <3> HIDE DEF Mod
    <3> QED BY <3>1, <3>2, ModSmall
  <2>5. 0 \in 0 .. Mod(ResLnk(l)) - 1 BY <2>3
  <2>6. Masked(ResLnk(l)) BY <2>1, <2>5, Zenon DEF Masked
  <2>7. OutsdI(ResLnk(l)) <= Len(ResLnk(l).sendil) BY <2>1, <2>2, <2>4
  <2> QED BY <2>6, <2>7, Zenon DEF Sound
<1>5. ResLnk(l).st = l.st BY <1>1 DEF ResLnk, ClrT1, ClrT2, IsRec, Fields
<1> QED BY <1>2, <1>3, <1>4, <1>5, LinkIntro

LEMMA IniLnkType ==
  ASSUME NEW l \in Link
  PROVE  IniLnk(l) \in Link /\ IniLnk(l).st = l.st /\ Sound(IniLnk(l))
<1> DEFINE r == ResLnk(l)
<1> DEFINE k == PortMax(l)
<1>7. k \in 1 .. 127 BY PortMaxType
<1>1. r \in Link /\ r.st = l.st /\ Sound(r) BY ResLnkType
<1>2. IsRec(r) /\ Typed(r) BY <1>1, LinkElim
<1>3. IniLnk(l) = [r EXCEPT !.maxframe = k] BY DEF IniLnk
<1> HIDE DEF r, k
<1>4. IsRec(IniLnk(l))
  <2>1. IsRec([r EXCEPT !.maxframe = k]) BY <1>2, Put, Zenon
  <2> QED BY <1>3, <2>1, Zenon
<1>5. Typed(IniLnk(l)) BY <1>2, <1>3, <1>7 DEF IsRec, Fields, Typed
<1>6. IniLnk(l).st = l.st /\ Sound(IniLnk(l))
  BY <1>1, <1>2, <1>3, ModType DEF Sound, Masked, OutsdI, Mod, IsRec, Fields, Typed
<1> QED BY <1>4, <1>5, <1>6, LinkIntro

LEMMA ClrLnkType ==
  ASSUME NEW l \in Link
  PROVE  ClrLnk(l) \in Link /\ ClrLnk(l).st = l.st /\ Sound(ClrLnk(l))
<1> DEFINE r == ResLnk(l)
<1>1. r \in Link /\ r.st = l.st /\ Sound(r) BY ResLnkType
<1>2. IsRec(r) /\ Typed(r) BY <1>1, LinkElim
<1>3. ClrLnk(l) = [r EXCEPT !.sendil = <<>>, !.rcvd = 0, !.ext = FALSE] BY DEF ClrLnk
<1> HIDE DEF r
<1>4. IsRec(ClrLnk(l))
  <2>1. IsRec([r EXCEPT !.sendil = <<>>, !.rcvd = 0, !.ext = FALSE]) BY <1>2, Put, Zenon
  <2> QED BY <1>3, <2>1, Zenon
<1>5. Typed(ClrLnk(l)) BY <1>2, <1>3 DEF IsRec, Fields, Typed
<1>6. ClrLnk(l).st = l.st BY <1>1, <1>2, <1>3 DEF IsRec, Fields
<1>7. Sound(ClrLnk(l))
  <2>1. IsRec(l) BY LinkElim
  <2> QED BY <2>1, ModType DEF Sound, Masked, OutsdI, ClrLnk, ResLnk, ClrT1, ClrT2, IsRec, Fields
<1> QED BY <1>4, <1>5, <1>6, <1>7, LinkIntro

LEMMA I2tolxType ==
  ASSUME NEW l \in Link, NEW k \in Nat
  PROVE  Same(l, I2tolx(l, k))
<1>1. IsRec(l) /\ Typed(l) BY LinkElim
<1>2. IsRec(I2tolx(l, k)) BY <1>1, Put, Zenon DEF I2tolx, Least
<1>3. Typed(I2tolx(l, k))
  BY <1>1 DEF I2tolx, Least, IsRec, Fields, Typed, RStypes, Flags
<1>4. I2tolx(l, k).st = l.st /\ I2tolx(l, k).ext = l.ext BY <1>1 DEF I2tolx, Least, IsRec, Fields
<1>5. Sound(l) => Sound(I2tolx(l, k))
  BY <1>1 DEF Sound, Masked, OutsdI, Mod, I2tolx, Least, IsRec, Fields, Typed
<1> QED BY <1>2, <1>3, <1>4, <1>5, LinkIntro DEF Same

LEMMA ChangeMaxframeType ==
  ASSUME NEW l \in Link, NEW d \in {-1, 1}
  PROVE  Same(l, ChangeMaxframe(l, d))
<1>1. IsRec(l) /\ Typed(l) BY LinkElim
<1>10. l.maxframe \in Int /\ d \in Int
  <2>1. l.maxframe \in 1 .. 127 BY <1>1, Zenon DEF Typed
  <2>2. d \in Int OBVIOUS
  <2> QED BY <2>1, <2>2
<1>2. PortMax(l) \in 1 .. 127 BY PortMaxType
<1> DEFINE delayed == d > 0 /\ "CMDEL" \notin l.flag
           wanted == l.maxframe + IF delayed THEN 0 ELSE d
           flag == IF delayed THEN l.flag \cup {"CMDEL"} ELSE l.flag \ {"CMDEL"}
           new == IF wanted < 1 THEN 1 ELSE Least(wanted, PortMax(l))
<1>3. wanted \in Int
  <2>1. delayed \in BOOLEAN OBVIOUS
  <2> HIDE DEF delayed
  <2> QED BY <1>10, <2>1
<1>4. new \in 1 .. 127
  <2> HIDE DEF wanted
  <2> QED BY <1>2, <1>3 DEF Least
<1>5. flag \in SUBSET Flags BY <1>1 DEF Typed, Flags
<1>6. ASSUME NEW g \in SUBSET Flags, NEW k \in 1 .. 127
      PROVE  Same(l, [l EXCEPT !.flag = g, !.maxframe = k])
  <2> DEFINE m == [l EXCEPT !.flag = g, !.maxframe = k]
  <2>1. IsRec(m) BY <1>1, Put, Zenon
  <2>2. Typed(m) BY <1>1 DEF IsRec, Fields, Typed
  <2>3. Sound(l) => Sound(m) BY <1>1 DEF Sound, Masked, OutsdI, Mod, IsRec, Fields
  <2>4. m.st = l.st /\ m.ext = l.ext BY <1>1 DEF IsRec, Fields
  <2> QED BY <2>1, <2>2, <2>3, <2>4, LinkIntro DEF Same
<1>7. ASSUME NEW k \in 1 .. 127
      PROVE  Same(l, [l EXCEPT !.maxframe = k])
  <2> DEFINE m == [l EXCEPT !.maxframe = k]
  <2>1. IsRec(m) BY <1>1, Put, Zenon
  <2>2. Typed(m) BY <1>1 DEF IsRec, Fields, Typed
  <2>3. Sound(l) => Sound(m) BY <1>1 DEF Sound, Masked, OutsdI, Mod, IsRec, Fields
  <2>4. m.st = l.st /\ m.ext = l.ext BY <1>1 DEF IsRec, Fields
  <2> QED BY <2>1, <2>2, <2>3, <2>4, LinkIntro DEF Same
<1>8. \/ ChangeMaxframe(l, d) = [l EXCEPT !.maxframe = PortMax(l)]
      \/ ChangeMaxframe(l, d) = l
      \/ ChangeMaxframe(l, d) = [l EXCEPT !.flag = flag, !.maxframe = new]
  BY DEF ChangeMaxframe
<1>9. Same(l, l) BY DEF Same
<1> HIDE DEF new, flag
<1> QED BY <1>2, <1>4, <1>5, <1>6, <1>7, <1>8, <1>9

LEMMA SetT1Type ==
  ASSUME NEW l \in Link, NEW n \in Node
  PROVE  /\ SetT1(n, l) \in Link /\ SetT1(n, l).st = l.st
         /\ Sound(l) => Sound(SetT1(n, l))
<1>1. IsRec(l) /\ Typed(l) BY LinkElim
<1>2. IsRec(SetT1(n, l)) BY <1>1, Put, Zenon DEF SetT1
<1>3. Typed(SetT1(n, l)) BY <1>1 DEF SetT1, IsRec, Fields, Typed
<1>4. ASSUME l.st \in Transfer PROVE SetT1(n, l).ext = l.ext
  <2>1. l.st # L2SLKSUP BY <1>4 DEF Transfer, L2SLKSUP
  <2>2. SetT1(n, l).ext
          = (l.ext /\ ~(l.tries # 0 /\ l.st = L2SLKSUP /\ EaxMode[n] = 2))
    BY <1>1 DEF SetT1, IsRec, Fields
  <2>3. l.ext \in BOOLEAN BY <1>1 DEF Typed
  <2> HIDE DEF SetT1
  <2> QED BY <2>1, <2>2, <2>3, Zenon
<1>5. /\ SetT1(n, l).st = l.st /\ SetT1(n, l).VS = l.VS /\ SetT1(n, l).VR = l.VR
      /\ SetT1(n, l).ltxdNR = l.ltxdNR /\ SetT1(n, l).lrxdNR = l.lrxdNR
      /\ SetT1(n, l).sendil = l.sendil
  BY <1>1 DEF SetT1, IsRec, Fields
<1>6. Sound(l) => Sound(SetT1(n, l)) BY <1>4, <1>5 DEF Sound, Masked, OutsdI, Mod
<1> QED BY <1>2, <1>3, <1>5, <1>6, LinkIntro

-----------------------------------------------------------------------------
(* Contexts.                                                               *)

Ctx == [n : Node, l : Link, out : Seq(Frame), pf : BOOLEAN]

(* d is a context like c: its link is in the same state.                   *)
Keeps(c, d) ==
  /\ d \in Ctx /\ d.n = c.n /\ d.pf = c.pf
  /\ d.l.st = c.l.st
  /\ Sound(c.l) => Sound(d.l)

LEMMA WithLink ==
  ASSUME NEW c \in Ctx, NEW m \in Link
  PROVE  LET d == [c EXCEPT !.l = m]
         IN  d \in Ctx /\ d.l = m /\ d.n = c.n /\ d.pf = c.pf /\ d.out = c.out
BY DEF Ctx

LEMMA SendType ==
  ASSUME NEW c \in Ctx, NEW f \in Frame
  PROVE  /\ Send(c, f) \in Ctx /\ Send(c, f).l = c.l
         /\ Send(c, f).n = c.n /\ Send(c, f).pf = c.pf
BY DEF Ctx, Send

LEMMA UFrameType ==
  ASSUME NEW t \in FrameTypes, NEW cmd \in BOOLEAN, NEW pf \in BOOLEAN, NEW t1 \in BOOLEAN
  PROVE  UFrame(t, cmd, pf, t1) \in Frame
BY DEF UFrame, Frame

LEMMA SendSType ==
  ASSUME NEW c \in Ctx, NEW t \in {"RR", "RNR", "REJ"}, NEW cmd \in BOOLEAN, NEW pf \in BOOLEAN
  PROVE  Keeps(c, SendS(c, t, cmd, pf))
<1> DEFINE f == [UFrame(t, cmd, pf, cmd) EXCEPT !.x = c.l.ext, !.nr = c.l.VR]
           m == [ClrT2(c.l) EXCEPT !.ltxdNR = c.l.VR]
<1>1. c.l \in Link BY DEF Ctx
<1>2. IsRec(c.l) /\ Typed(c.l) BY <1>1, LinkElim
<1>3. f \in Frame
  <2>1. UFrame(t, cmd, pf, cmd) \in Frame BY UFrameType DEF FrameTypes
  <2>2. c.l.ext \in BOOLEAN /\ c.l.VR \in 0 .. 127 BY <1>2 DEF Typed
  <2> QED BY <2>1, <2>2 DEF Frame
<1>4. m \in Link /\ m.st = c.l.st /\ (Sound(c.l) => Sound(m))
  <2>1. IsRec(m) BY <1>2, Put, Zenon DEF ClrT2
  <2>2. Typed(m) BY <1>2 DEF ClrT2, IsRec, Fields, Typed, RStypes
  <2>3. Sound(c.l) => Sound(m) BY <1>2 DEF Sound, Masked, OutsdI, Mod, ClrT2, IsRec, Fields
  <2>4. m.st = c.l.st BY <1>2 DEF ClrT2, IsRec, Fields
  <2> QED BY <2>1, <2>2, <2>3, <2>4, LinkIntro
<1>5. Send(c, f) \in Ctx /\ Send(c, f).n = c.n /\ Send(c, f).pf = c.pf BY <1>3, SendType
<1>6. SendS(c, t, cmd, pf) = [Send(c, f) EXCEPT !.l = m] BY DEF SendS
<1> HIDE DEF f, m
<1> QED BY <1>4, <1>5, <1>6, WithLink DEF Keeps

LEMMA XsabmType ==
  ASSUME NEW c \in Ctx
  PROVE  /\ Xsabm(c) \in Ctx /\ Xsabm(c).n = c.n /\ Xsabm(c).pf = c.pf
         /\ Xsabm(c).l.st = c.l.st
<1> DEFINE ext == (c.l.ext \/ EaxMode[c.n] = 3) /\ EaxMode[c.n] # 0
           f == UFrame(IF ext THEN "SABME" ELSE "SABM", TRUE, TRUE, TRUE)
           m == [c.l EXCEPT !.ext = ext]
<1>1. c.l \in Link BY DEF Ctx
<1>2. IsRec(c.l) /\ Typed(c.l) BY <1>1, LinkElim
<1>3. ext \in BOOLEAN OBVIOUS
<1>4. f \in Frame 
  <2> HIDE DEF ext
  <2> QED BY UFrameType DEF FrameTypes
<1>5. m \in Link /\ m.st = c.l.st
  <2>1. IsRec(m) BY <1>2, Put, Zenon
  <2> HIDE DEF ext
  <2>2. Typed(m) BY <1>2, <1>3 DEF IsRec, Fields, Typed
  <2>3. m.st = c.l.st BY <1>2 DEF IsRec, Fields
  <2> QED BY <2>1, <2>2, <2>3, LinkIntro
<1>6. Send(c, f) \in Ctx /\ Send(c, f).n = c.n /\ Send(c, f).pf = c.pf /\ Send(c, f).l = c.l
  BY <1>4, SendType
<1>7. Xsabm(c) = [Send(c, f) EXCEPT !.l.ext = ext] BY DEF Xsabm
<1> HIDE DEF f, m, ext
<1>8. Xsabm(c) = [Send(c, f) EXCEPT !.l = m] BY <1>6, <1>7 DEF m
<1> QED BY <1>5, <1>6, <1>8, WithLink
LEMMA XmitType ==
  ASSUME NEW c \in Ctx, NEW t \in FrameTypes, NEW cmd \in BOOLEAN,
         NEW pf \in BOOLEAN, NEW t1 \in BOOLEAN
  PROVE  LET d == Send(c, UFrame(t, cmd, pf, t1))
         IN  d \in Ctx /\ d.l = c.l /\ d.n = c.n /\ d.pf = c.pf
BY UFrameType, SendType

LEMMA Numbers ==
  ASSUME NEW l \in Link
  PROVE  /\ l.VS \in 0 .. 127 /\ l.VR \in 0 .. 127 /\ l.ltxdNR \in 0 .. 127
         /\ l.lrxdNR \in 0 .. 127 /\ l.maxframe \in 1 .. 127 /\ l.tries \in 0 .. 127
         /\ l.busyrx \in 0 .. 255 /\ l.rcvd \in Nat /\ l.ext \in BOOLEAN
<1>1. Typed(l) BY LinkElim
<1> QED BY <1>1, Zenon DEF Typed

LEMMA Integer == ASSUME NEW l \in Link
                 PROVE  l.VS \in Int /\ l.VR \in Int /\ l.lrxdNR \in Int /\ l.ltxdNR \in Int
<1>1. ASSUME NEW i \in 0 .. 127 PROVE i \in Int OBVIOUS
<1> QED BY <1>1, Numbers

LEMMA PlusRange ==
  ASSUME NEW l, NEW s \in Int, NEW k \in Int
  PROVE  Plus(l, s, k) \in 0 .. 127
BY PlusType, ModType

LEMMA OutsdIType == ASSUME NEW l \in Link
                    PROVE  OutsdI(l) \in 0 .. Mod(l) - 1 /\ OutsdI(l) \in 0 .. 127
<1>1. l.VS - l.lrxdNR \in Int
  <2>1. l.VS \in Int /\ l.lrxdNR \in Int BY Integer
  <2>2. ASSUME NEW i \in Int, NEW j \in Int PROVE i - j \in Int OBVIOUS
  <2> QED BY <2>1, <2>2, Zenon
<1>2. Mod(l) \in 2 .. 128 BY ModType
<1>3. OutsdI(l) \in 0 .. Mod(l) - 1
  <2>1. Mod(l) \in Nat \ {0} BY <1>2
  <2> QED BY <1>1, <2>1, ModRange, Zenon DEF OutsdI
<1> QED BY <1>2, <1>3

LEMMA SendilType == ASSUME NEW l \in Link
                    PROVE  l.sendil \in Seq(Nat) /\ Len(l.sendil) \in Nat
<1>1. l.sendil \in Seq(Nat) BY LinkElim, Zenon DEF Typed
<1> QED BY <1>1

LEMMA IFrameType ==
  ASSUME NEW l \in Link, NEW skip \in Nat, NEW i \in Nat \ {0}, skip + i <= Len(l.sendil)
  PROVE  IFrame(l, skip, i) \in Frame
<1>1. IsRec(l) /\ Typed(l) BY LinkElim
<1>2. l.VR \in 0 .. 127 /\ l.ext \in BOOLEAN BY Numbers
<1>3. l.VS \in Int BY Integer
<1>4. Plus(l, l.VS, i - 1) \in 0 .. 127
  <2>1. i - 1 \in Int OBVIOUS
  <2> QED BY <1>3, <2>1, PlusRange, Zenon
<1>5. l.sendil[skip + i] \in Nat
  <2>1. l.sendil \in Seq(Nat) BY SendilType
  <2>2. skip + i \in 1 .. Len(l.sendil) BY SendilType
  <2> QED BY <2>1, <2>2
<1> DEFINE vs == Plus(l, l.VS, i)
           t1 == \/ vs = Plus(l, l.lrxdNR, l.maxframe)
                 \/ Len(l.sendil) = (vs - l.lrxdNR) % Mod(l)
<1>6. t1 \in BOOLEAN OBVIOUS
<1>7. IFrame(l, skip, i) =
        [t |-> "I", cmd |-> TRUE, pf |-> FALSE, x |-> l.ext, nr |-> l.VR,
         ns |-> Plus(l, l.VS, i - 1), d |-> l.sendil[skip + i], t1 |-> t1]
  BY DEF IFrame
<1> HIDE DEF t1
<1> QED BY <1>2, <1>4, <1>5, <1>6, <1>7 DEF Frame, FrameTypes

LEMMA SdiType ==
  ASSUME NEW c \in Ctx, NEW skip \in Nat, OutsdI(c.l) <= skip, NEW max \in Int
  PROVE  /\ Keeps(c, Sdi(c, skip, max)) /\ Sdi(c, skip, max).l.ext = c.l.ext
         /\ Sdi(c, skip, max).l.lrxdNR = c.l.lrxdNR
         /\ Sdi(c, skip, max).l.sendil = c.l.sendil
<1>1. c.l \in Link BY DEF Ctx
<1>2. IsRec(c.l) /\ Typed(c.l) BY <1>1, LinkElim
<1>3. c.l.maxframe \in Int BY <1>1, Numbers
<1>4. Len(c.l.sendil) \in Nat BY <1>1, SendilType
<1> DEFINE l == c.l
           some == Least(max, Least(Len(l.sendil) - skip, l.maxframe - skip))
           n == IF some < 0 THEN 0 ELSE some
           fs == [i \in 1 .. n |-> IFrame(l, skip, i)]
           m == [ClrT2(l) EXCEPT !.VS = Plus(l, l.VS, n), !.ltxdNR = l.VR]
<1>5. n \in Nat /\ (n # 0 => skip + n <= Len(l.sendil)) BY <1>3, <1>4 DEF Least
<1>6. Plus(l, l.VS, n) \in 0 .. Mod(l) - 1
  <2>1. l.VS \in Int BY <1>1, Numbers
  <2> HIDE DEF n
  <2> QED BY <1>5, <2>1, PlusType
<1>7. ASSUME n # 0 PROVE fs \in Seq(Frame)
  <2> HIDE DEF n
  <2>1. ASSUME NEW i \in 1 .. n PROVE IFrame(l, skip, i) \in Frame
    <3>1. i \in Nat \ {0} /\ skip + i <= Len(l.sendil) BY <1>4, <1>5, <1>7
    <3> HIDE DEF l
    <3> QED BY <1>1, <3>1, IFrameType DEF l
  <2> HIDE DEF l
  <2> QED BY <1>5, <2>1
<1>8. /\ m \in Link /\ m.st = l.st /\ m.ext = l.ext /\ (Sound(l) /\ n # 0 => Sound(m))
      /\ m.lrxdNR = l.lrxdNR /\ m.sendil = l.sendil
  <2> DEFINE vs == Plus(l, l.VS, n)
  <2>3. vs \in 0 .. Mod(l) - 1 /\ vs \in 0 .. 127
    <3>1. vs \in 0 .. Mod(l) - 1 BY <1>6
    <3>2. Mod(l) \in 2 .. 128 BY ModType
    <3> HIDE DEF vs
    <3> QED BY <3>1, <3>2
  <2>1. ASSUME NEW k \in 0 .. 127
        PROVE  LET p == [ClrT2(l) EXCEPT !.VS = k, !.ltxdNR = l.VR]
               IN  /\ p \in Link /\ p.st = l.st /\ p.ext = l.ext
                   /\ p.lrxdNR = l.lrxdNR /\ p.sendil = l.sendil
                   /\ (k \in 0 .. Mod(l) - 1 /\ Masked(l) => Masked(p))
                   /\ OutsdI(p) = (k - l.lrxdNR) % Mod(l)
    <3> DEFINE p == [ClrT2(l) EXCEPT !.VS = k, !.ltxdNR = l.VR]
    <3>1. IsRec(p) BY <1>2, Put, Zenon DEF ClrT2
    <3>2. Typed(p) BY <1>2 DEF ClrT2, IsRec, Fields, Typed, RStypes
    <3>3. /\ p.st = l.st /\ p.ext = l.ext /\ p.VS = k
          /\ p.lrxdNR = l.lrxdNR /\ p.sendil = l.sendil
      BY <1>2 DEF ClrT2, IsRec, Fields
    <3>4. k \in 0 .. Mod(l) - 1 /\ Masked(l) => Masked(p)
      BY <1>2 DEF Masked, Mod, ClrT2, IsRec, Fields
    <3>6. p \in Link BY <3>1, <3>2, LinkIntro
    <3> HIDE DEF p
    <3>5. OutsdI(p) = (k - l.lrxdNR) % Mod(l) BY <3>3 DEF OutsdI, Mod
    <3> QED BY <3>3, <3>4, <3>5, <3>6 DEF p
  <2>2. m = [ClrT2(l) EXCEPT !.VS = vs, !.ltxdNR = l.VR] OBVIOUS
  <2>4. /\ m \in Link /\ m.st = l.st /\ m.ext = l.ext
        /\ m.lrxdNR = l.lrxdNR /\ m.sendil = l.sendil
        /\ Masked(l) => Masked(m)
        /\ OutsdI(m) = (vs - l.lrxdNR) % Mod(l)
    <3> HIDE DEF vs, m, l
    <3> QED BY <2>3, <2>1, <2>2
  <2>5. ASSUME l.st \in Transfer, Masked(l), n # 0 PROVE OutsdI(m) <= Len(m.sendil)
    <3>1. /\ l.VS \in 0 .. Mod(l) - 1 /\ l.lrxdNR \in 0 .. Mod(l) - 1
          /\ Mod(l) \in Nat \ {0}
      <4>1. Mod(l) \in 2 .. 128 BY ModType
      <4>2. {l.VS, l.VR, l.ltxdNR, l.lrxdNR} \subseteq 0 .. Mod(l) - 1
        BY <2>5, Zenon DEF Masked
      <4> HIDE DEF l
      <4> QED BY <4>1, <4>2
    <3>2. OutsdI(l) \in 0 .. 127 /\ OutsdI(l) <= skip BY <1>1, OutsdIType
    <3>4. n \in Nat /\ skip + n <= Len(l.sendil) BY <1>5, <2>5
    <3>3. OutsdI(m) <= OutsdI(l) + n
      <4> HIDE DEF l, n, m
      <4> QED BY <3>1, <3>4, <2>4, Advance DEF OutsdI, Plus
    <3>5. OutsdI(m) \in 0 .. 127 BY <2>4, OutsdIType
    <3>6. Len(l.sendil) \in Nat /\ m.sendil = l.sendil BY <1>4, <2>4
    <3>7. ASSUME NEW o \in 0 .. 127, NEW p \in 0 .. 127, NEW i \in Nat, NEW len \in Nat,
                 o <= skip, p <= o + i, skip + i <= len
          PROVE  p <= len
      BY <3>7
    <3> HIDE DEF l, n, m
    <3> QED BY <3>2, <3>3, <3>4, <3>5, <3>6, <3>7
  <2> HIDE DEF vs, m, l, n
  <2> QED BY <2>4, <2>5 DEF Sound
<1>9. Sdi(c, skip, max) = IF n = 0 THEN c ELSE [c EXCEPT !.out = @ \o fs, !.l = m]
  BY DEF Sdi
<1>10. CASE n = 0
  <2>1. Sdi(c, skip, max) = c BY <1>9, <1>10, Zenon
  <2> QED BY <2>1 DEF Keeps
<1>11. CASE n # 0
  <2>1. Sdi(c, skip, max) = [c EXCEPT !.out = @ \o fs, !.l = m] BY <1>9, <1>11, Zenon
  <2>2. fs \in Seq(Frame) BY <1>7, <1>11
  <2> HIDE DEF fs, m, l, n
  <2> DEFINE d == [c EXCEPT !.out = @ \o fs, !.l = m]
  <2>3. c.out \o fs \in Seq(Frame) BY <2>2 DEF Ctx
  <2>4. d \in Ctx /\ d.n = c.n /\ d.pf = c.pf /\ d.l = m BY <1>8, <2>3 DEF Ctx
  <2> QED BY <1>8, <1>11, <2>1, <2>4 DEF l, Keeps
<1> QED BY <1>10, <1>11

(* A link with one field replaced.                                         *)

LEMMA WithVS ==
  ASSUME NEW l \in Link, NEW k \in 0 .. 127
  PROVE  LET m == [l EXCEPT !.VS = k]
         IN  /\ m \in Link /\ m.st = l.st /\ m.ext = l.ext /\ m.lrxdNR = l.lrxdNR
             /\ m.sendil = l.sendil /\ m.VS = k
             /\ Masked(l) /\ k \in 0 .. Mod(l) - 1 => Masked(m)
<1> DEFINE m == [l EXCEPT !.VS = k]
<1>1. IsRec(l) /\ Typed(l) BY LinkElim
<1>2. IsRec(m) BY <1>1, Put, Zenon
<1>3. Typed(m) BY <1>1 DEF IsRec, Fields, Typed
<1>4. /\ m.st = l.st /\ m.ext = l.ext /\ m.lrxdNR = l.lrxdNR
      /\ m.sendil = l.sendil /\ m.VS = k BY <1>1 DEF IsRec, Fields
<1>5. Masked(l) /\ k \in 0 .. Mod(l) - 1 => Masked(m) BY <1>1 DEF Masked, Mod, IsRec, Fields
<1> QED BY <1>2, <1>3, <1>4, <1>5, LinkIntro

LEMMA NothingOut ==
  ASSUME NEW l \in Link, l.VS = l.lrxdNR PROVE OutsdI(l) = 0
<1>1. l.VS - l.lrxdNR = 0 BY Integer
<1>2. Mod(l) \in Nat \ {0} BY ModType
<1> HIDE DEF Mod
<1> QED BY <1>1, <1>2, ModSmall DEF OutsdI

LEMMA WithVR ==
  ASSUME NEW l \in Link, NEW k \in 0 .. 127
  PROVE  LET m == [l EXCEPT !.VR = k]
         IN  /\ m \in Link /\ m.st = l.st /\ m.ext = l.ext
             /\ Sound(l) /\ k \in 0 .. Mod(l) - 1 => Sound(m)
<1> DEFINE m == [l EXCEPT !.VR = k]
<1>1. IsRec(l) /\ Typed(l) BY LinkElim
<1>2. IsRec(m) BY <1>1, Put, Zenon
<1>3. Typed(m) BY <1>1 DEF IsRec, Fields, Typed
<1>4. m.st = l.st /\ m.ext = l.ext BY <1>1 DEF IsRec, Fields
<1>5. Sound(l) /\ k \in 0 .. Mod(l) - 1 => Sound(m) BY <1>1 DEF Sound, Masked, OutsdI, Mod, IsRec, Fields
<1> QED BY <1>2, <1>3, <1>4, <1>5, LinkIntro

LEMMA WithFlag ==
  ASSUME NEW l \in Link, NEW g \in SUBSET Flags
  PROVE  Same(l, [l EXCEPT !.flag = g])
<1> DEFINE m == [l EXCEPT !.flag = g]
<1>1. IsRec(l) /\ Typed(l) BY LinkElim
<1>2. IsRec(m) BY <1>1, Put, Zenon
<1>3. Typed(m) BY <1>1 DEF IsRec, Fields, Typed
<1>4. m.st = l.st /\ m.ext = l.ext BY <1>1 DEF IsRec, Fields
<1>5. Sound(l) => Sound(m) BY <1>1 DEF Sound, Masked, OutsdI, Mod, IsRec, Fields
<1> QED BY <1>2, <1>3, <1>4, <1>5, LinkIntro DEF Same

LEMMA WithTries ==
  ASSUME NEW l \in Link, NEW k \in 0 .. 127
  PROVE  Same(l, [l EXCEPT !.tries = k])
<1> DEFINE m == [l EXCEPT !.tries = k]
<1>1. IsRec(l) /\ Typed(l) BY LinkElim
<1>2. IsRec(m) BY <1>1, Put, Zenon
<1>3. Typed(m) BY <1>1 DEF IsRec, Fields, Typed
<1>4. m.st = l.st /\ m.ext = l.ext BY <1>1 DEF IsRec, Fields
<1>5. Sound(l) => Sound(m) BY <1>1 DEF Sound, Masked, OutsdI, Mod, IsRec, Fields
<1> QED BY <1>2, <1>3, <1>4, <1>5, LinkIntro DEF Same

LEMMA WithT1 ==
  ASSUME NEW l \in Link, NEW b \in BOOLEAN
  PROVE  Same(l, [l EXCEPT !.T1 = b])
<1> DEFINE m == [l EXCEPT !.T1 = b]
<1>1. IsRec(l) /\ Typed(l) BY LinkElim
<1>2. IsRec(m) BY <1>1, Put, Zenon
<1>3. Typed(m) BY <1>1 DEF IsRec, Fields, Typed
<1>4. m.st = l.st /\ m.ext = l.ext BY <1>1 DEF IsRec, Fields
<1>5. Sound(l) => Sound(m) BY <1>1 DEF Sound, Masked, OutsdI, Mod, IsRec, Fields
<1> QED BY <1>2, <1>3, <1>4, <1>5, LinkIntro DEF Same

LEMMA WithT1T3 ==
  ASSUME NEW l \in Link, NEW b \in BOOLEAN, NEW e \in BOOLEAN
  PROVE  Same(l, [l EXCEPT !.T1 = b, !.T3 = e])
<1> DEFINE m == [l EXCEPT !.T1 = b, !.T3 = e]
<1>1. IsRec(l) /\ Typed(l) BY LinkElim
<1>2. IsRec(m) BY <1>1, Put, Zenon
<1>3. Typed(m) BY <1>1 DEF IsRec, Fields, Typed
<1>4. m.st = l.st /\ m.ext = l.ext BY <1>1 DEF IsRec, Fields
<1>5. Sound(l) => Sound(m) BY <1>1 DEF Sound, Masked, OutsdI, Mod, IsRec, Fields
<1> QED BY <1>2, <1>3, <1>4, <1>5, LinkIntro DEF Same

LEMMA WithT2 ==
  ASSUME NEW l \in Link, NEW b \in BOOLEAN
  PROVE  Same(l, [l EXCEPT !.T2 = b])
<1> DEFINE m == [l EXCEPT !.T2 = b]
<1>1. IsRec(l) /\ Typed(l) BY LinkElim
<1>2. IsRec(m) BY <1>1, Put, Zenon
<1>3. Typed(m) BY <1>1 DEF IsRec, Fields, Typed
<1>4. m.st = l.st /\ m.ext = l.ext BY <1>1 DEF IsRec, Fields
<1>5. Sound(l) => Sound(m) BY <1>1 DEF Sound, Masked, OutsdI, Mod, IsRec, Fields
<1> QED BY <1>2, <1>3, <1>4, <1>5, LinkIntro DEF Same

LEMMA WithSt ==
  ASSUME NEW l \in Link, NEW s \in States
  PROVE  LET m == [l EXCEPT !.st = s]
         IN  /\ m \in Link /\ m.st = s
             /\ l.st \in Transfer /\ Sound(l) => Sound(m)
<1> DEFINE m == [l EXCEPT !.st = s]
<1>1. IsRec(l) /\ Typed(l) BY LinkElim
<1>2. IsRec(m) BY <1>1, Put, Zenon
<1>3. Typed(m) BY <1>1 DEF IsRec, Fields, Typed
<1>4. m.st = s BY <1>1 DEF IsRec, Fields
<1>5. l.st \in Transfer /\ Sound(l) => Sound(m) BY <1>1 DEF Sound, Masked, OutsdI, Mod, IsRec, Fields
<1> QED BY <1>2, <1>3, <1>4, <1>5, LinkIntro

LEMMA WithExt ==
  ASSUME NEW l \in Link, NEW e \in BOOLEAN
  PROVE  [l EXCEPT !.ext = e] \in Link /\ [l EXCEPT !.ext = e].st = l.st
<1> DEFINE m == [l EXCEPT !.ext = e]
<1>1. IsRec(l) /\ Typed(l) BY LinkElim
<1>2. IsRec(m) BY <1>1, Put, Zenon
<1>3. Typed(m) BY <1>1 DEF IsRec, Fields, Typed
<1>4. m.st = l.st BY <1>1 DEF IsRec, Fields
<1> QED BY <1>2, <1>3, <1>4, LinkIntro

LEMMA WithMode ==
  ASSUME NEW l \in Link, NEW e \in BOOLEAN, NEW k \in 1 .. 127
  PROVE  [l EXCEPT !.ext = e, !.maxframe = k] \in Link
<1> DEFINE m == [l EXCEPT !.ext = e, !.maxframe = k]
<1>1. IsRec(l) /\ Typed(l) BY LinkElim
<1>2. IsRec(m) BY <1>1, Put, Zenon
<1>3. Typed(m) BY <1>1 DEF IsRec, Fields, Typed
<1> QED BY <1>2, <1>3, LinkIntro

LEMMA KeepsSame ==
  ASSUME NEW c \in Ctx, NEW m, Same(c.l, m)
  PROVE  Keeps(c, [c EXCEPT !.l = m]) /\ [c EXCEPT !.l = m].l = m
BY WithLink DEF Keeps, Same

(* The transmitting functions keep the type and the state of the link.     *)

LEMMA SdoiType ==
  ASSUME NEW c \in Ctx PROVE Keeps(c, Sdoi(c))
<1> DEFINE b == [c EXCEPT !.l.VS = c.l.lrxdNR]
           again == Sdi(b, 0, OutsdI(c.l))
           m == [again.l EXCEPT !.VS = c.l.VS]
           p == [m EXCEPT !.flag = @ \ {"REPEAT"}]
<1>1. c.l \in Link BY DEF Ctx
<1>2. c.l.VS \in 0 .. 127 /\ c.l.lrxdNR \in 0 .. 127 BY <1>1, Numbers
<1>3. CASE c.l.st \notin SendStates BY <1>3 DEF Sdoi, Keeps
<1>4. CASE c.l.st \in SendStates
  <2>1. b = [c EXCEPT !.l = [c.l EXCEPT !.VS = c.l.lrxdNR]] OBVIOUS
  <2>2. /\ b \in Ctx /\ b.n = c.n /\ b.pf = c.pf /\ b.l.st = c.l.st /\ b.l.ext = c.l.ext
        /\ b.l.lrxdNR = c.l.lrxdNR /\ b.l.sendil = c.l.sendil
        /\ OutsdI(b.l) = 0 /\ (Sound(c.l) => Sound(b.l))
    <3> DEFINE q == [c.l EXCEPT !.VS = c.l.lrxdNR]
    <3>1. /\ q \in Link /\ q.st = c.l.st /\ q.ext = c.l.ext
          /\ q.lrxdNR = c.l.lrxdNR /\ q.sendil = c.l.sendil /\ q.VS = c.l.lrxdNR
          /\ Masked(c.l) /\ c.l.lrxdNR \in 0 .. Mod(c.l) - 1 => Masked(q)
      BY <1>1, <1>2, WithVS
    <3>2. Masked(c.l) => c.l.lrxdNR \in 0 .. Mod(c.l) - 1
      BY <1>4 DEF Masked, Transfer, SendStates, L2SIXFER, L2SRS, L2SDBS, L2SRSDBS
    <3> HIDE DEF q
    <3>3. OutsdI(q) = 0 BY <3>1, NothingOut
    <3>4. Len(q.sendil) \in Nat BY <3>1, SendilType
    <3>5. Sound(c.l) => Sound(q) BY <3>1, <3>2, <3>3, <3>4 DEF Sound
    <3> QED BY <2>1, <3>1, <3>3, <3>5, WithLink DEF q
  <2>3. OutsdI(c.l) \in Int
    <3>1. OutsdI(c.l) \in 0 .. 127 BY <1>1, OutsdIType
    <3> QED BY <3>1
  <2>4. /\ Keeps(b, again) /\ again.l.ext = b.l.ext
        /\ again.l.lrxdNR = b.l.lrxdNR /\ again.l.sendil = b.l.sendil
    <3>1. OutsdI(b.l) <= 0 /\ 0 \in Nat BY <2>2
    <3> HIDE DEF b
    <3> QED BY <2>2, <2>3, <3>1, SdiType
  <2>5. /\ again \in Ctx /\ again.n = c.n /\ again.pf = c.pf /\ again.l.st = c.l.st
        /\ again.l.ext = c.l.ext /\ (Sound(c.l) => Sound(again.l))
        /\ again.l.lrxdNR = c.l.lrxdNR /\ again.l.sendil = c.l.sendil
    <3> HIDE DEF b, again
    <3> QED BY <2>2, <2>4 DEF Keeps
  <2> HIDE DEF b, again
  <2>6. again.l \in Link BY <2>5 DEF Ctx
  <2>7. m \in Link /\ m.st = c.l.st /\ m.ext = c.l.ext /\ (Sound(c.l) => Sound(m))
    <3>1. Masked(c.l) => c.l.VS \in 0 .. Mod(again.l) - 1
      BY <1>4, <2>5 DEF Masked, Mod, Transfer, SendStates, L2SIXFER, L2SRS, L2SDBS, L2SRSDBS
    <3>2. /\ m \in Link /\ m.st = again.l.st /\ m.ext = again.l.ext
          /\ m.lrxdNR = again.l.lrxdNR /\ m.sendil = again.l.sendil /\ m.VS = c.l.VS
          /\ Masked(again.l) /\ c.l.VS \in 0 .. Mod(again.l) - 1 => Masked(m)
      BY <1>2, <2>6, WithVS
    <3> HIDE DEF m
    <3>3. OutsdI(m) = OutsdI(c.l) BY <2>5, <3>2 DEF OutsdI, Mod
    <3> QED BY <2>5, <3>1, <3>2, <3>3 DEF Sound
  <2>8. Same(m, p)
    <3>1. m.flag \in SUBSET Flags BY <2>7, LinkElim, Zenon DEF Typed
    <3>2. m.flag \ {"REPEAT"} \in SUBSET Flags BY <3>1
    <3> HIDE DEF m
    <3> QED BY <2>7, <3>2, WithFlag
  <2>9. Sdoi(c) = [again EXCEPT !.l = [again.l EXCEPT !.VS = c.l.VS, !.flag = @ \ {"REPEAT"}]]
    BY <1>4, Zenon DEF Sdoi, b, again
  <2>10. p = [again.l EXCEPT !.VS = c.l.VS, !.flag = @ \ {"REPEAT"}]
    <3>1. IsRec(again.l) BY <2>6, LinkElim
    <3> QED BY <3>1 DEF IsRec, Fields
  <2>11. Sdoi(c) = [again EXCEPT !.l = p]
    <3> HIDE DEF m, p
    <3> QED BY <2>9, <2>10, Zenon
  <2> HIDE DEF m, p
  <2> QED BY <2>5, <2>7, <2>8, <2>11, WithLink DEF Keeps, Same
<1> QED BY <1>3, <1>4

LEMMA SdipollType ==
  ASSUME NEW c \in Ctx PROVE Keeps(c, Sdipoll(c))
<1>1. c.l \in Link BY DEF Ctx
<1> DEFINE l == c.l
           f == [t |-> "I", cmd |-> TRUE, pf |-> TRUE, x |-> FALSE,
                 nr |-> l.VR % 8, ns |-> l.lrxdNR, d |-> l.sendil[1], t1 |-> TRUE]
           m == [ClrT3(ClrT2(l)) EXCEPT !.ltxdNR = l.VR]
<1>2. ASSUME l.sendil # <<>> PROVE f \in Frame
  <2>1. l.lrxdNR \in 0 .. 127 /\ l.VR \in Int BY <1>1, Numbers, Integer
  <2>2. l.VR % 8 \in 0 .. 127 BY <2>1
  <2>3. l.sendil[1] \in Nat
    <3>1. l.sendil \in Seq(Nat) BY <1>1, SendilType
    <3> HIDE DEF l
    <3> QED BY <1>2, <3>1
  <2> HIDE DEF l
  <2> QED BY <2>1, <2>2, <2>3 DEF Frame, FrameTypes
<1>3. Same(l, m)
  <2> HIDE DEF l
  <2>1. IsRec(l) /\ Typed(l) BY <1>1, LinkElim DEF l
  <2>2. IsRec(m) BY <2>1, Put, Zenon DEF ClrT2, ClrT3
  <2>3. Typed(m) BY <2>1 DEF ClrT2, ClrT3, IsRec, Fields, Typed, RStypes
  <2>4. m.st = l.st /\ m.ext = l.ext BY <2>1 DEF ClrT2, ClrT3, IsRec, Fields
  <2>5. Sound(l) => Sound(m) BY <2>1 DEF Sound, Masked, OutsdI, Mod, ClrT2, ClrT3, IsRec, Fields
  <2> QED BY <2>2, <2>3, <2>4, <2>5, LinkIntro DEF Same
<1>4. Sdipoll(c) = IF ShortFrames /\ l.tries < IpollRetry /\ l.sendil # <<>>
                   THEN [Send(c, f) EXCEPT !.l = m]
                   ELSE SendS(c, "RR", TRUE, TRUE)
  BY DEF Sdipoll
<1>5. CASE ShortFrames /\ l.tries < IpollRetry /\ l.sendil # <<>>
  <2>1. /\ Send(c, f) \in Ctx /\ Send(c, f).l = c.l
        /\ Send(c, f).n = c.n /\ Send(c, f).pf = c.pf
    BY <1>2, <1>5, SendType
  <2> HIDE DEF f, m, l
  <2>2. Sdipoll(c) = [Send(c, f) EXCEPT !.l = m] BY <1>4, <1>5, Zenon
  <2> QED BY <1>3, <2>1, <2>2, WithLink DEF Keeps, Same, l
<1>6. CASE ~(ShortFrames /\ l.tries < IpollRetry /\ l.sendil # <<>>)
  <2> HIDE DEF f, m, l
  <2>2. Sdipoll(c) = SendS(c, "RR", TRUE, TRUE) BY <1>4, <1>6, Zenon
  <2> QED BY <2>2, SendSType
<1> QED BY <1>5, <1>6, Zenon

LEMMA KeepsSend ==
  ASSUME NEW c \in Ctx, NEW f \in Frame PROVE Keeps(c, Send(c, f))
BY SendType DEF Keeps

LEMMA PfType == ASSUME NEW c \in Ctx PROVE c.pf \in BOOLEAN
BY DEF Ctx

LEMMA FuncType ==
  ASSUME NEW c \in Ctx, NEW f \in Funcs
  PROVE  /\ Func(c, f) \in Ctx /\ Func(c, f).n = c.n /\ Func(c, f).pf = c.pf
         /\ Func(c, f).l.st = c.l.st
         /\ f # "xsabm" => Keeps(c, Func(c, f))
<1>1. c.pf \in BOOLEAN /\ c.l \in Link BY DEF Ctx
<1>2. CASE f = "xsabm"
  <2>1. Func(c, f) = Xsabm(c) BY <1>2 DEF Func
  <2> QED BY <1>2, <2>1, XsabmType
<1>3. ASSUME f # "xsabm" PROVE Keeps(c, Func(c, f))
  <2>1. CASE f \in {"xdm", "xua", "xdisc", "xfrmr"}
    <3>1. /\ UFrame("DM", FALSE, c.pf, FALSE) \in Frame
          /\ UFrame("UA", FALSE, c.pf, FALSE) \in Frame
          /\ UFrame("DISC", TRUE, TRUE, TRUE) \in Frame
          /\ UFrame("FRMR", FALSE, c.pf, TRUE) \in Frame
      BY <1>1, UFrameType DEF FrameTypes
    <3>2. \/ Func(c, f) = Send(c, UFrame("DM", FALSE, c.pf, FALSE))
          \/ Func(c, f) = Send(c, UFrame("UA", FALSE, c.pf, FALSE))
          \/ Func(c, f) = Send(c, UFrame("DISC", TRUE, TRUE, TRUE))
          \/ Func(c, f) = Send(c, UFrame("FRMR", FALSE, c.pf, TRUE))
      BY <2>1 DEF Func, Xdisc, Xfrmr
    <3> QED BY <3>1, <3>2, KeepsSend
  <2>2. CASE f \in {"xrrr", "xrnrr", "xrejr", "xrrc", "xrnrc"}
    <3>1. \E t \in {"RR", "RNR", "REJ"}, cmd \in BOOLEAN, pf \in BOOLEAN :
             Func(c, f) = SendS(c, t, cmd, pf)
      BY <1>1, <2>2 DEF Func
    <3> QED BY <3>1, SendSType
  <2>3. CASE f \in {"t2rrr", "t2rnrr", "t2rejr"}
    <3>1. PICK s \in RStypes : Func(c, f) = [c EXCEPT !.l = SetT2(c.l, s)]
      BY <2>3 DEF Func, RStypes
    <3>2. Same(c.l, SetT2(c.l, s)) BY <1>1, SetT2Type
    <3> QED BY <3>1, <3>2, KeepsSame
  <2>4. CASE f = "sdipoll"
    <3>1. Func(c, f) = Sdipoll(c) BY <2>4 DEF Func
    <3> QED BY <3>1, SdipollType
  <2>5. CASE f = "xnull"
    <3>1. Func(c, f) = c BY <2>5 DEF Func
    <3> QED BY <3>1 DEF Keeps
  <2> QED BY <1>3, <2>1, <2>2, <2>3, <2>4, <2>5 DEF Funcs
<1> QED BY <1>2, <1>3 DEF Keeps

LEMMA MessageType ==
  ASSUME NEW l \in Link, NEW m \in Msgs
  PROVE  /\ Message(l, m) \in Link
         /\ m \in {"CONNT", "LRESF"} \/ Sound(l) => Sound(Message(l, m))
<1>1. IniLnk(l) \in Link /\ Sound(IniLnk(l)) BY IniLnkType
<1>2. ClrLnk(l) \in Link /\ Sound(ClrLnk(l)) BY ClrLnkType
<1>3. ResLnk(l) \in Link /\ Sound(ResLnk(l)) BY ResLnkType
<1>4. CASE m = "CONNT" BY <1>1, <1>4 DEF Message
<1>5. CASE m \in {"DISCF", "FAILW", "BUSYF"} BY <1>2, <1>5 DEF Message
<1>6. CASE m \in {"LRESF", "LREST"} BY <1>3, <1>6 DEF Message
<1>7. CASE m \in {"NIX", "FRMRF", "FRMRT"}
  <2>1. Message(l, m) = l BY <1>7 DEF Message
  <2> QED BY <1>7, <2>1
<1> QED BY <1>4, <1>5, <1>6, <1>7 DEF Msgs

(* d is what a handler makes of c.                                         *)
Handled(c, d) == d \in Ctx /\ d.n = c.n /\ d.pf = c.pf /\ Sound(d.l)

(* l2stma: the numbers stay masked when they were, or when the table       *)
(* resets the link on its way into information transfer.                   *)
Resets(t) == \A s \in States : t[s].next \in Transfer => t[s].msg \in {"CONNT", "LRESF"}

LEMMA StmaType ==
  ASSUME NEW c \in Ctx, NEW t, TableOK(t)
  PROVE  Sound(c.l) \/ Resets(t) => Handled(c, Stma(c, t))
<1> DEFINE e == t[c.l.st]
           d == Func(c, e.func)
           p == [d.l EXCEPT !.st = e.next]
           q == Message(p, e.msg)
<1>1. c.l \in Link BY DEF Ctx
<1>2. c.l.st \in States
  <2>1. Typed(c.l) BY <1>1, LinkElim
  <2> QED BY <2>1, Zenon DEF Typed
<1>3. /\ e.func \in Funcs /\ e.next \in States /\ e.msg \in Msgs
      /\ e.next \in Transfer =>
           e.msg \in {"CONNT", "LRESF"} \/ (c.l.st \in Transfer /\ e.func # "xsabm")
  BY <1>2 DEF TableOK
<1>4. Resets(t) => (e.next \in Transfer => e.msg \in {"CONNT", "LRESF"})
  BY <1>2 DEF Resets
<1>5. Stma(c, t) = [d EXCEPT !.l = q] BY DEF Stma
<1> HIDE DEF e
<1>6. /\ d \in Ctx /\ d.n = c.n /\ d.pf = c.pf /\ d.l.st = c.l.st
      /\ e.func # "xsabm" => Keeps(c, d)
  BY <1>3, FuncType
<1> HIDE DEF d
<1>7. d.l \in Link BY <1>6 DEF Ctx
<1>8. /\ p \in Link /\ p.st = e.next
      /\ d.l.st \in Transfer /\ Sound(d.l) => Sound(p)
  BY <1>3, <1>7, WithSt
<1> HIDE DEF p
<1>9. /\ q \in Link
      /\ e.msg \in {"CONNT", "LRESF"} \/ Sound(p) => Sound(q)
  BY <1>3, <1>8, MessageType
<1> HIDE DEF q
<1>10. /\ Stma(c, t) \in Ctx /\ Stma(c, t).n = c.n /\ Stma(c, t).pf = c.pf
       /\ Stma(c, t).l = q
  BY <1>5, <1>6, <1>9, WithLink
<1>11. e.next \notin Transfer => Sound(p) BY <1>8 DEF Sound, Masked, OutsdI
<1>12. e.func # "xsabm" /\ Sound(c.l) => Sound(d.l) BY <1>6 DEF Keeps
<1>13. Sound(c.l) \/ Resets(t) => Sound(q)
  BY <1>3, <1>4, <1>6, <1>8, <1>9, <1>11, <1>12
<1> QED BY <1>10, <1>13 DEF Handled

LEMMA SdfrmrType ==
  ASSUME NEW c \in Ctx, Sound(c.l)
  PROVE  Handled(c, Sdfrmr(c))
<1>1. c.l \in Link BY DEF Ctx
<1> DEFINE m == ClrT2(ClrT1(c.l))
           d == [c EXCEPT !.l = m]
<1>2. Same(c.l, ClrT1(c.l)) BY <1>1, ClrT1Type
<1>3. Same(ClrT1(c.l), m) BY <1>2, ClrT2Type DEF Same
<1>4. Same(c.l, m) BY <1>2, <1>3 DEF Same
<1>5. Keeps(c, d) BY <1>4, KeepsSame
<1>6. Sdfrmr(c) = c \/ Sdfrmr(c) = Stma(d, stbl27) BY DEF Sdfrmr
<1> HIDE DEF d
<1>7. d \in Ctx /\ d.n = c.n /\ d.pf = c.pf /\ Sound(d.l) BY <1>5 DEF Keeps
<1>8. Handled(d, Stma(d, stbl27)) BY <1>7, StmaType, TablesOK
<1>9. Handled(c, c) BY DEF Handled
<1> QED BY <1>6, <1>7, <1>8, <1>9 DEF Handled

-----------------------------------------------------------------------------
(* l2rx.                                                                   *)

LEMMA CutType ==
  ASSUME NEW s \in Seq(Nat), NEW k \in Nat
  PROVE  SubSeq(s, k + 1, Len(s)) \in Seq(Nat)
OBVIOUS

LEMMA CutLen ==
  ASSUME NEW s \in Seq(Nat), NEW k \in Nat, k <= Len(s)
  PROVE  Len(SubSeq(s, k + 1, Len(s))) = Len(s) - k
BY SMTT(40)

LEMMA RxNRType ==
  ASSUME NEW l \in Link, NEW f \in Frame
  PROVE  RxNR(l, f) \in 0 .. Mod(l) - 1 /\ RxNR(l, f) \in 0 .. 127
<1>1. f.nr \in 0 .. 127 /\ f.ns \in 0 .. 127 /\ f.x \in BOOLEAN BY DEF Frame
<1>2. ModStd \in Nat \ {0} /\ ModStd <= 128 BY WindowAssumption
<1>3. HighBits(f) \in Int BY <1>1 DEF HighBits, BitOr
<1>4. (f.ns \div 16) \in Int BY <1>1
<1>5. HighBits(f) % ModStd \in 0 .. ModStd - 1 BY <1>2, <1>3, ModRange
<1>6. (f.ns \div 16) % ModStd \in 0 .. ModStd - 1 BY <1>2, <1>4, ModRange
<1>7. l.ext \in BOOLEAN BY Numbers
<1>8. CASE f.x /\ l.ext
  <2>1. RxNR(l, f) = f.nr /\ Mod(l) = 128 BY <1>8 DEF RxNR, Mod
  <2> QED BY <1>1, <2>1
<1>9. CASE f.x /\ ~l.ext
  <2>1. RxNR(l, f) \in {(f.ns \div 16) % ModStd, 0} /\ Mod(l) = ModStd BY <1>9 DEF RxNR, Mod
  <2> QED BY <1>2, <1>6, <2>1
<1>10. CASE ~f.x /\ ~l.ext
  <2>1. RxNR(l, f) = HighBits(f) % ModStd /\ Mod(l) = ModStd BY <1>10 DEF RxNR, Mod
  <2> QED BY <1>2, <1>5, <2>1
<1>11. CASE ~f.x /\ l.ext
  <2>1. RxNR(l, f) = 0 /\ Mod(l) = 128 BY <1>11 DEF RxNR, Mod
  <2> QED BY <2>1
<1> QED BY <1>1, <1>7, <1>8, <1>9, <1>10, <1>11

LEMMA AcknowledgeType ==
  ASSUME NEW l \in Link, NEW nr \in 0 .. 127, nr \in 0 .. Mod(l) - 1, NEW k \in Nat,
         k = (nr - l.lrxdNR) % Mod(l), k <= OutsdI(l), l.st \in Transfer
  PROVE  Same(l, Acknowledge(l, nr, k))
<1> DEFINE all == k = OutsdI(l)
           s == SubSeq(l.sendil, k + 1, Len(l.sendil))
           b == [l EXCEPT !.lrxdNR = nr]
           taken == [ClrT1(b) EXCEPT !.T1 = ~all, !.sendil = SubSeq(@, k + 1, Len(@))]
           t1 == ~all
<1>1. IsRec(l) /\ Typed(l) BY LinkElim
<1>2. l.sendil \in Seq(Nat) /\ Len(l.sendil) \in Nat BY SendilType
<1>3. s \in Seq(Nat) /\ (k <= Len(l.sendil) => Len(s) = Len(l.sendil) - k)
  BY <1>2, CutType, CutLen
<1>4. t1 \in BOOLEAN OBVIOUS
<1>5. Acknowledge(l, nr, k) = IF all THEN ChangeMaxframe(taken, 1) ELSE taken
  BY DEF Acknowledge
<1>6. taken = [l EXCEPT !.lrxdNR = nr, !.T1 = t1, !.tries = 0, !.T3 = TRUE, !.sendil = s]
  BY <1>1 DEF ClrT1, IsRec, Fields
<1> HIDE DEF all, s, t1, taken
<1>7. Same(l, taken)
  <2>1. IsRec(taken) BY <1>1, <1>6, Put, Zenon
  <2>2. Typed(taken) BY <1>1, <1>3, <1>4, <1>6 DEF IsRec, Fields, Typed
  <2>3. /\ taken.st = l.st /\ taken.ext = l.ext /\ taken.VS = l.VS /\ taken.VR = l.VR
        /\ taken.ltxdNR = l.ltxdNR /\ taken.lrxdNR = nr /\ taken.sendil = s
    BY <1>1, <1>6 DEF IsRec, Fields
  <2>4. Mod(taken) = Mod(l) BY <2>3 DEF Mod
  <2>5. ASSUME Sound(l) PROVE Sound(taken)
    <3>1. Masked(taken) BY <2>3, <2>4, <2>5 DEF Sound, Masked
    <3>2. l.VS \in 0 .. Mod(l) - 1 /\ l.lrxdNR \in 0 .. Mod(l) - 1
      BY <2>5 DEF Sound, Masked
    <3>3. Mod(l) \in Nat \ {0} BY ModType
    <3>4. (l.VS - nr) % Mod(l) = OutsdI(l) - k
      <4>1. (nr - l.lrxdNR) % Mod(l) <= (l.VS - l.lrxdNR) % Mod(l) BY DEF OutsdI
      <4> QED BY <3>2, <3>3, <4>1, Approach DEF OutsdI
    <3>5. OutsdI(taken) = OutsdI(l) - k BY <2>3, <2>4, <3>4 DEF OutsdI
    <3>6. OutsdI(l) <= Len(l.sendil) BY <2>5 DEF Sound
    <3>7. OutsdI(l) \in 0 .. 127 BY OutsdIType
    <3>9. Len(taken.sendil) = Len(l.sendil) - k
      <4>1. k <= Len(l.sendil) BY <1>2, <3>6, <3>7, Shorter
      <4> QED BY <1>3, <2>3, <4>1
    <3>8. OutsdI(taken) <= Len(taken.sendil)
      <4>1. OutsdI(l) - k <= Len(l.sendil) - k BY <1>2, <3>6, <3>7, Shorter
      <4> QED BY <3>5, <3>9, <4>1, Zenon
    <3> QED BY <3>1, <3>8 DEF Sound
  <2> QED BY <2>1, <2>2, <2>3, <2>5, LinkIntro DEF Same
<1>8. Same(taken, ChangeMaxframe(taken, 1)) BY <1>7, ChangeMaxframeType DEF Same
<1>9. Same(l, ChangeMaxframe(taken, 1)) BY <1>7, <1>8 DEF Same
<1> QED BY <1>5, <1>7, <1>9

LEMMA SameTrans ==
  ASSUME NEW a, NEW b, NEW d, Same(a, b), Same(b, d) PROVE Same(a, d)
BY DEF Same

LEMMA FinalType ==
  ASSUME NEW l \in Link, NEW f PROVE Same(l, Final(l, f))
<1>1. Same(l, ClrT1(l)) BY ClrT1Type
<1>2. Same(l, [l EXCEPT !.T1 = TRUE]) BY WithT1
<1> DEFINE g == IF l.VS # l.lrxdNR THEN ClrT1(l).flag \cup {"REPEAT"} ELSE ClrT1(l).flag
           m == [ClrT1(l) EXCEPT !.flag = g]
<1>3. g \in SUBSET Flags
  <2>1. Typed(ClrT1(l)) BY <1>1, LinkElim DEF Same
  <2>2. ClrT1(l).flag \in SUBSET Flags BY <2>1, Zenon DEF Typed
  <2> QED BY <2>2 DEF Flags
<1>4. Final(l, f) = m \/ Final(l, f) = [l EXCEPT !.T1 = TRUE] BY DEF Final
<1> HIDE DEF g
<1>5. Same(ClrT1(l), m) BY <1>1, <1>3, WithFlag DEF Same
<1> HIDE DEF m
<1>6. Same(l, m) BY <1>1, <1>5, SameTrans
<1> QED BY <1>2, <1>4, <1>6

(* The link when srxdNR has taken what N(R) acknowledges.                  *)
Acknowledged(l, f) ==
  LET k == (RxNR(l, f) - l.lrxdNR) % Mod(l)
  IN  IF OutsdI(l) # 0 /\ k # 0 THEN Acknowledge(l, RxNR(l, f), k) ELSE l

LEMMA AcknowledgedType ==
  ASSUME NEW l \in Link, NEW f \in Frame, ~BadNR(l, f), l.st \in Transfer
  PROVE  Same(l, Acknowledged(l, f))
<1> DEFINE k == (RxNR(l, f) - l.lrxdNR) % Mod(l)
<1>1. RxNR(l, f) \in 0 .. 127 /\ RxNR(l, f) \in 0 .. Mod(l) - 1 BY RxNRType
<1>2. k \in Nat
  <2>1. RxNR(l, f) - l.lrxdNR \in Int
    <3>1. RxNR(l, f) \in Int BY <1>1
    <3>2. l.lrxdNR \in Int BY Integer
    <3>3. ASSUME NEW i \in Int, NEW j \in Int PROVE i - j \in Int OBVIOUS
    <3> QED BY <3>1, <3>2, <3>3, Zenon
  <2>2. Mod(l) \in Nat \ {0} BY ModType
  <2>3. k \in 0 .. Mod(l) - 1 BY <2>1, <2>2, ModRange, Zenon
  <2> HIDE DEF k
  <2> QED BY <2>2, <2>3
<1>3. ASSUME OutsdI(l) # 0 PROVE k <= OutsdI(l)
  <2>1. OutsdI(l) \in 0 .. 127 BY OutsdIType
  <2>2. ~(k > OutsdI(l)) BY <1>3 DEF BadNR
  <2> HIDE DEF k
  <2> QED BY <1>2, <2>1, <2>2
<1>4. k = (RxNR(l, f) - l.lrxdNR) % Mod(l) OBVIOUS
<1>5. Acknowledged(l, f) = IF OutsdI(l) # 0 /\ k # 0 THEN Acknowledge(l, RxNR(l, f), k) ELSE l
  BY DEF Acknowledged
<1> HIDE DEF k
<1>6. CASE OutsdI(l) # 0 /\ k # 0
  <2>1. Same(l, Acknowledge(l, RxNR(l, f), k))
    BY <1>1, <1>2, <1>3, <1>4, <1>6, AcknowledgeType
  <2> QED BY <1>5, <1>6, <2>1
<1>7. CASE ~(OutsdI(l) # 0 /\ k # 0) BY <1>5, <1>7 DEF Same
<1> QED BY <1>6, <1>7

LEMMA SrxdNRType ==
  ASSUME NEW l \in Link, NEW f \in Frame, ~BadNR(l, f) PROVE Same(l, SrxdNR(l, f))
<1> DEFINE done == Acknowledged(l, f)
<1>1. Same(l, l) BY DEF Same
<1>2. CASE l.st \notin Transfer BY <1>1, <1>2 DEF SrxdNR
<1>3. CASE l.st \in Transfer
  <2>1. SrxdNR(l, f) \in {l, done, Final(done, f)} BY DEF SrxdNR, Acknowledged
  <2>2. Same(l, done) BY <1>3, AcknowledgedType
  <2> HIDE DEF done
  <2>3. Same(done, Final(done, f)) BY <2>2, FinalType DEF Same
  <2>4. Same(l, Final(done, f)) BY <2>2, <2>3, SameTrans
  <2> QED BY <1>1, <2>1, <2>2, <2>4
<1> QED BY <1>2, <1>3

LEMMA KeepsHandled ==
  ASSUME NEW c, NEW a, NEW d, Sound(c.l), Keeps(c, a)
  PROVE  Handled(c, a) /\ (Handled(a, d) => Handled(c, d))
BY DEF Keeps, Handled

LEMMA HandledTrans ==
  ASSUME NEW c, NEW a, NEW d, Handled(c, a), Handled(a, d)
  PROVE  Handled(c, d)
BY DEF Handled

LEMMA HandledSame ==
  ASSUME NEW c \in Ctx, Sound(c.l), NEW m, Same(c.l, m)
  PROVE  Handled(c, [c EXCEPT !.l = m])
BY KeepsSame, KeepsHandled

LEMMA HandledStma ==
  ASSUME NEW c, NEW a, Handled(c, a), NEW t, TableOK(t)
  PROVE  Handled(c, Stma(a, t))
BY StmaType, HandledTrans DEF Handled

LEMMA LinkIn == ASSUME NEW c, NEW a, Handled(c, a) PROVE a \in Ctx /\ a.l \in Link /\ Sound(a.l)
BY DEF Handled, Ctx

LEMMA AcceptIType ==
  ASSUME NEW c \in Ctx, Sound(c.l), NEW f \in Frame
  PROVE  Handled(c, AcceptI(c, f))
<1> DEFINE open == c.l.st \in Transfer /\ ~LinkBusy(c.l)
           l == IF open THEN [c.l EXCEPT !.VR = Plus(c.l, c.l.VR, 1)] ELSE c.l
           m == [l EXCEPT !.tries = 0]
           a == [c EXCEPT !.l = m]
           d == Stma(a, IF f.pf THEN stbl00 ELSE stbl01)
           full == (d.l.VR - d.l.ltxdNR) % Mod(d.l) = Mod(d.l) - 1
           kept == d.l.flag \cap {"DSLE", "DIMM"} = {}
           t2 == d.l.T2 /\ ~full
           rcvd == IF open /\ kept THEN d.l.rcvd + 1 ELSE d.l.rcvd
           busyrx == IF open /\ "BUSY" \in d.l.flag THEN (d.l.busyrx + 1) % 256 ELSE d.l.busyrx
           last == IF open THEN f.d ELSE d.l.last
           got == IF open THEN d.l.got \cup {f.d} ELSE d.l.got
           p == [d.l EXCEPT !.T2 = t2, !.rcvd = rcvd, !.busyrx = busyrx, !.last = last, !.got = got]
<1>1. c.l \in Link BY DEF Ctx
<1>2. Same(c.l, l)
  <2>1. c.l.VR \in Int BY <1>1, Integer
  <2>2. Plus(c.l, c.l.VR, 1) \in 0 .. 127 BY <2>1, PlusRange
  <2>3. Plus(c.l, c.l.VR, 1) \in 0 .. Mod(c.l) - 1 BY <2>1, PlusType
  <2>4. Same(c.l, [c.l EXCEPT !.VR = Plus(c.l, c.l.VR, 1)]) BY <1>1, <2>2, <2>3, WithVR DEF Same
  <2>5. Same(c.l, c.l) BY <1>1 DEF Same
  <2> QED BY <2>4, <2>5
<1>3. AcceptI(c, f) = [d EXCEPT !.l = p] BY DEF AcceptI
<1> HIDE DEF l, open
<1>4. Same(c.l, m)
  <2>2. l \in Link /\ 0 \in 0 .. 127 BY <1>2 DEF Same
  <2>1. Same(l, m) BY <2>2, WithTries, Zenon
  <2> HIDE DEF m
  <2> QED BY <1>2, <2>1, SameTrans
<1> HIDE DEF m
<1>5. Handled(c, a) BY <1>4, HandledSame
<1> HIDE DEF a
<1>6. Handled(c, d)
  <2>1. TableOK(IF f.pf THEN stbl00 ELSE stbl01) BY TablesOK
  <2> QED BY <1>5, <2>1, HandledStma
<1> HIDE DEF d
<1>7. d \in Ctx /\ d.l \in Link /\ Sound(d.l) BY <1>6, LinkIn
<1>8. t2 \in BOOLEAN /\ rcvd \in Nat /\ busyrx \in 0 .. 255 /\ last \in Nat /\ got \in SUBSET Nat
  <2>1. Typed(d.l) BY <1>7, LinkElim
  <2>2. f.d \in Nat BY DEF Frame
  <2>3. d.l.T2 \in BOOLEAN /\ d.l.last \in Nat /\ d.l.got \in SUBSET Nat BY <2>1, Zenon DEF Typed
  <2>4. t2 \in BOOLEAN BY <2>3
  <2>5. last \in Nat /\ got \in SUBSET Nat BY <2>2, <2>3
  <2>6. rcvd \in Nat BY <1>7, Numbers
  <2>7. busyrx \in 0 .. 255
    <3>1. d.l.busyrx \in 0 .. 255 BY <1>7, Numbers
    <3>2. (d.l.busyrx + 1) % 256 \in 0 .. 255 BY <3>1
    <3> QED BY <3>1, <3>2
  <2> HIDE DEF t2, rcvd, busyrx, last, got
  <2> QED BY <2>4, <2>5, <2>6, <2>7
<1> HIDE DEF t2, rcvd, busyrx, last, got
<1>9. Same(d.l, p)
  <2>1. IsRec(d.l) /\ Typed(d.l) BY <1>7, LinkElim
  <2>2. IsRec(p) BY <2>1, Put, Zenon
  <2>3. Typed(p) BY <1>8, <2>1 DEF IsRec, Fields, Typed
  <2>4. p.st = d.l.st /\ p.ext = d.l.ext BY <2>1 DEF IsRec, Fields
  <2>5. Sound(d.l) => Sound(p) BY <2>1 DEF Sound, Masked, OutsdI, Mod, IsRec, Fields
  <2> QED BY <2>2, <2>3, <2>4, <2>5, LinkIntro DEF Same
<1> HIDE DEF p
<1> QED BY <1>3, <1>6, <1>7, <1>9, HandledSame, HandledTrans

LEMMA RxIType ==
  ASSUME NEW c \in Ctx, Sound(c.l), NEW f \in Frame
  PROVE  Handled(c, RxI(c, f))
<1> DEFINE a == [c EXCEPT !.l = SrxdNR(c.l, f)]
           t == IF f.pf THEN stb26b ELSE stbl26
<1>1. c.l \in Link BY DEF Ctx
<1>5. Handled(c, Sdfrmr(c)) BY SdfrmrType
<1>9. CASE BadNR(c.l, f) BY <1>5, <1>9 DEF RxI
<1>10. SUFFICES ASSUME ~BadNR(c.l, f) PROVE Handled(c, RxI(c, f)) BY <1>9
<1>2. Handled(c, a) BY <1>1, <1>10, SrxdNRType, HandledSame
<1>3. RxI(c, f) \in {Sdfrmr(c), AcceptI(a, f), Stma(a, t), Sdfrmr(a)} BY DEF RxI
<1> HIDE DEF a
<1>4. a \in Ctx /\ Sound(a.l) BY <1>2, LinkIn
<1>6. Handled(c, Sdfrmr(a)) BY <1>2, <1>4, SdfrmrType, HandledTrans
<1>7. Handled(c, AcceptI(a, f)) BY <1>2, <1>4, AcceptIType, HandledTrans
<1>8. Handled(c, Stma(a, t))
  <2>1. TableOK(t) BY TablesOK
  <2> QED BY <1>2, <2>1, HandledStma
<1> QED BY <1>3, <1>5, <1>6, <1>7, <1>8

LEMMA RepeatType ==
  ASSUME NEW c \in Ctx, Sound(c.l) PROVE Handled(c, Repeat(c))
<1>1. c.l \in Link BY DEF Ctx
<1>2. c.l.flag \cup {"REPEAT"} \in SUBSET Flags
  <2>1. Typed(c.l) BY <1>1, LinkElim
  <2>2. c.l.flag \in SUBSET Flags BY <2>1, Zenon DEF Typed
  <2> QED BY <2>2 DEF Flags
<1>3. Same(c.l, [c.l EXCEPT !.flag = c.l.flag \cup {"REPEAT"}]) BY <1>1, <1>2, WithFlag
<1>4. Repeat(c) = [c EXCEPT !.l = [c.l EXCEPT !.flag = c.l.flag \cup {"REPEAT"}]] BY DEF Repeat
<1> QED BY <1>3, <1>4, HandledSame

LEMMA RxSType ==
  ASSUME NEW c \in Ctx, Sound(c.l), NEW f \in Frame, f.t \in {"RR", "RNR", "REJ"}
  PROVE  Handled(c, RxS(c, f))
<1> DEFINE m == [SrxdNR(c.l, f) EXCEPT !.tries = 0]
           a == [c EXCEPT !.l = m]
           d == Stma(a, STable(f))
           e == [d EXCEPT !.l = ChangeMaxframe(d.l, -1)]
<1>1. c.l \in Link BY DEF Ctx
<1>12. Handled(c, Sdfrmr(c)) BY SdfrmrType
<1>13. CASE BadNR(c.l, f) BY <1>12, <1>13 DEF RxS
<1>14. SUFFICES ASSUME ~BadNR(c.l, f) PROVE Handled(c, RxS(c, f)) BY <1>13
<1>2. Same(c.l, m)
  <2>1. Same(c.l, SrxdNR(c.l, f)) BY <1>1, <1>14, SrxdNRType
  <2>3. SrxdNR(c.l, f) \in Link /\ 0 \in 0 .. 127 BY <2>1 DEF Same
  <2>2. Same(SrxdNR(c.l, f), m) BY <2>3, WithTries, Zenon
  <2> QED BY <2>1, <2>2, SameTrans
<1>3. RxS(c, f) \in {Sdfrmr(c), Repeat(d), Sdoi(Repeat(e)), d} BY DEF RxS
<1> HIDE DEF m
<1>4. Handled(c, a) BY <1>2, HandledSame
<1> HIDE DEF a
<1>5. Handled(c, d)
  <2>1. f.pf \in BOOLEAN /\ f.cmd \in BOOLEAN BY DEF Frame
  <2>2. TableOK(STable(f)) BY <2>1, TablesOK DEF STable
  <2> QED BY <1>4, <2>2, HandledStma
<1> HIDE DEF d
<1>6. d \in Ctx /\ d.l \in Link /\ Sound(d.l) BY <1>5, LinkIn
<1>7. Handled(c, Repeat(d)) BY <1>5, <1>6, RepeatType, HandledTrans
<1>8. Handled(c, e)
  <2>1. Same(d.l, ChangeMaxframe(d.l, -1)) BY <1>6, ChangeMaxframeType
  <2>2. Handled(d, e) BY <1>6, <2>1, HandledSame
  <2> HIDE DEF e
  <2> QED BY <1>5, <2>2, HandledTrans
<1> HIDE DEF e
<1>9. e \in Ctx /\ Sound(e.l) BY <1>8, LinkIn
<1>10. Handled(c, Repeat(e)) BY <1>8, <1>9, RepeatType, HandledTrans
<1>11. Handled(c, Sdoi(Repeat(e)))
  <2>1. Repeat(e) \in Ctx /\ Sound(Repeat(e).l) BY <1>10, LinkIn
  <2>2. Handled(Repeat(e), Sdoi(Repeat(e))) BY <2>1, SdoiType, KeepsHandled
  <2> QED BY <1>10, <2>2, HandledTrans
<1> QED BY <1>3, <1>5, <1>7, <1>11, <1>12

LEMMA StmaReset ==
  ASSUME NEW c \in Ctx, NEW t, TableOK(t), Resets(t)
  PROVE  Handled(c, Stma(c, t))
BY StmaType

LEMMA FuncHandled ==
  ASSUME NEW c \in Ctx, Sound(c.l), NEW f \in Funcs \ {"xsabm"}
  PROVE  Handled(c, Func(c, f))
BY FuncType, KeepsHandled

LEMMA SABMResets == Resets(stbl08)
BY SMTT(40) DEF Resets, stbl08, Table, Column, States, Transfer, L2SDSCED, L2SLKSUP, L2SFRREJ,
     L2SDSCRQ, Down, Setup, Quiet, Silent, PollQuiet, RRorRNR, T2RRorRNR,
     RemoteReady, RemoteBusy, Polled

LEMMA RxSABMType ==
  ASSUME NEW c \in Ctx, Sound(c.l), NEW f
  PROVE  Handled(c, RxSABM(c, f))
<1> DEFINE e == f.t = "SABME"
           k == IF e THEN MaxframeExt ELSE c.l.maxframe
           m == [c.l EXCEPT !.ext = e, !.maxframe = k]
           d == [c EXCEPT !.l = m]
<1>1. c.l \in Link BY DEF Ctx
<1>2. m \in Link
  <2>1. e \in BOOLEAN OBVIOUS
  <2>2. k \in 1 .. 127
    <3>1. c.l.maxframe \in 1 .. 127 BY <1>1, Numbers
    <3> QED BY <3>1, WindowAssumption
  <2> HIDE DEF e, k
  <2> QED BY <1>1, <2>1, <2>2, WithMode
<1>3. RxSABM(c, f) \in {Func(c, "xdm"), Stma(d, stbl08)} BY DEF RxSABM
<1> HIDE DEF m
<1>4. d \in Ctx /\ d.n = c.n /\ d.pf = c.pf BY <1>2, WithLink
<1> HIDE DEF d
<1>5. Handled(d, Stma(d, stbl08)) BY <1>4, StmaReset, TablesOK, SABMResets
<1>6. Handled(c, Stma(d, stbl08)) BY <1>4, <1>5 DEF Handled
<1>7. Handled(c, Func(c, "xdm")) BY FuncHandled DEF Funcs
<1> QED BY <1>3, <1>6, <1>7

LEMMA RxUType ==
  ASSUME NEW c \in Ctx, Sound(c.l), NEW f \in Frame, f.t \notin {"I", "RR", "RNR", "REJ"}
  PROVE  Handled(c, RxU(c, f))
<1> DEFINE a == [c EXCEPT !.l = ClrT3(c.l)]
           g == IF f.pf /\ f.cmd THEN "xdm" ELSE "xua"
           e == (EaxMode[c.n] = 3)
           m == [a.l EXCEPT !.ext = e]
           b == [a EXCEPT !.l = m]
<1>1. c.l \in Link BY DEF Ctx
<1>2. Handled(c, a) BY <1>1, ClrT3Type, HandledSame
<1>3. a.l.st = c.l.st
  <2>1. a.l = ClrT3(c.l) BY <1>1, ClrT3Type, KeepsSame
  <2> QED BY <1>1, <2>1, ClrT3Type DEF Same
<1>4. f.t \in FrameTypes BY DEF Frame
<1>5. CASE f.t \in {"SABM", "SABME"}
  <2>1. RxU(c, f) = RxSABM(a, f) BY <1>5 DEF RxU
  <2> HIDE DEF a
  <2> QED BY <1>2, <2>1, LinkIn, RxSABMType, HandledTrans
<1>6. CASE f.t = "DISC"
  <2>1. RxU(c, f) \in {Func(a, g), Stma(a, stbl09)} BY <1>6 DEF RxU
  <2>2. g \in Funcs \ {"xsabm"} BY DEF Funcs
  <2> HIDE DEF a, g
  <2>3. Handled(c, Func(a, g)) BY <1>2, <2>2, LinkIn, FuncHandled, HandledTrans
  <2>4. Handled(c, Stma(a, stbl09)) BY <1>2, HandledStma, TablesOK
  <2> QED BY <2>1, <2>3, <2>4
<1>7. CASE f.t = "UA"
  <2>1. RxU(c, f) = Stma(a, stbl16) BY <1>7 DEF RxU
  <2> HIDE DEF a
  <2> QED BY <1>2, <2>1, HandledStma, TablesOK
<1>8. CASE f.t = "DM" /\ c.l.st = L2SLKSUP /\ c.l.ext
  <2>1. RxU(c, f) = [a EXCEPT !.l.ext = (EaxMode[c.n] = 3)] BY <1>8 DEF RxU
  <2>2. e \in BOOLEAN OBVIOUS
  <2>3. RxU(c, f) = b BY <2>1
  <2> HIDE DEF a, e
  <2>4. a \in Ctx /\ a.l \in Link BY <1>2, LinkIn
  <2>5. m \in Link /\ m.st = a.l.st BY <2>2, <2>4, WithExt
  <2>6. Sound(m) BY <1>3, <1>8, <2>5 DEF Sound, Masked, OutsdI, L2SLKSUP, Transfer
  <2> HIDE DEF m
  <2>7. Handled(a, b) BY <2>4, <2>5, <2>6, WithLink DEF Handled
  <2> HIDE DEF b
  <2> QED BY <1>2, <2>3, <2>7, HandledTrans
<1>9. CASE f.t = "DM" /\ ~(c.l.st = L2SLKSUP /\ c.l.ext)
  <2>1. RxU(c, f) = Stma(a, stbl17) BY <1>9 DEF RxU
  <2> HIDE DEF a
  <2> QED BY <1>2, <2>1, HandledStma, TablesOK
<1>10. CASE f.t = "FRMR"
  <2>1. RxU(c, f) = Stma(c, stbl18) BY <1>10 DEF RxU
  <2>2. Handled(c, c) BY DEF Handled
  <2> HIDE DEF a
  <2> QED BY <2>1, <2>2, HandledStma, TablesOK
<1> QED BY <1>4, <1>5, <1>6, <1>7, <1>8, <1>9, <1>10 DEF FrameTypes

LEMMA L2rxType ==
  ASSUME NEW c \in Ctx, Sound(c.l), NEW f \in Frame
  PROVE  Handled(c, L2rx(c, f))
<1>1. CASE f.t = "I"
  <2>1. L2rx(c, f) = RxI(c, f) BY <1>1 DEF L2rx
  <2> QED BY <2>1, RxIType
<1>2. CASE f.t \in {"RR", "RNR", "REJ"}
  <2>1. L2rx(c, f) = RxS(c, f) BY <1>2 DEF L2rx
  <2> QED BY <1>2, <2>1, RxSType
<1>3. CASE f.t \notin {"I", "RR", "RNR", "REJ"}
  <2>1. L2rx(c, f) = RxU(c, f) BY <1>3 DEF L2rx
  <2> QED BY <1>3, <2>1, RxUType
<1> QED BY <1>1, <1>2, <1>3

LEMMA NoLinkType ==
  ASSUME NEW c \in Ctx, Sound(c.l), NEW f
  PROVE  Handled(c, NoLink(c, f))
<1>1. NoLink(c, f) \in {Func(c, "xdm"), Func(c, "xua"), c} BY DEF NoLink
<1>2. Handled(c, Func(c, "xdm")) /\ Handled(c, Func(c, "xua")) BY FuncHandled DEF Funcs
<1>3. Handled(c, c) BY DEF Handled
<1> QED BY <1>1, <1>2, <1>3

-----------------------------------------------------------------------------
(* l2tx and l2timr.                                                        *)

LEMMA L2txType ==
  ASSUME NEW c \in Ctx, Sound(c.l) PROVE Handled(c, L2tx(c))
<1>1. c.l \in Link BY DEF Ctx
<1>2. L2tx(c) \in {c, Sdoi(c), Sdi(c, OutsdI(c.l), c.l.maxframe)} BY DEF L2tx
<1>3. Handled(c, c) BY DEF Handled
<1>4. Handled(c, Sdoi(c)) BY SdoiType, KeepsHandled
<1>5. Handled(c, Sdi(c, OutsdI(c.l), c.l.maxframe))
  <2>1. OutsdI(c.l) \in 0 .. 127 /\ c.l.maxframe \in 1 .. 127 BY <1>1, OutsdIType, Numbers
  <2>2. OutsdI(c.l) \in Nat /\ c.l.maxframe \in Int BY <2>1
  <2> QED BY <2>2, SdiType, KeepsHandled
<1> QED BY <1>2, <1>3, <1>4, <1>5

LEMMA T3PartType ==
  ASSUME NEW c \in Ctx, Sound(c.l), NEW late PROVE Handled(c, T3Part(c, late))
<1>1. c.l \in Link BY DEF Ctx
<1> DEFINE a == [c EXCEPT !.l = ClrT3(c.l)]
<1>2. Handled(c, a) BY <1>1, ClrT3Type, HandledSame
<1>3. Handled(c, c) BY DEF Handled
<1>4. T3Part(c, late) \in {c, Stma(a, stbl24)} BY DEF T3Part
<1> HIDE DEF a
<1>5. Handled(c, Stma(a, stbl24)) BY <1>2, HandledStma, TablesOK
<1> QED BY <1>3, <1>4, <1>5

(* A context whose flags are changed.                                      *)
LEMMA FlagPart ==
  ASSUME NEW c \in Ctx, Sound(c.l), NEW g, g \in SUBSET Flags
  PROVE  Handled(c, [c EXCEPT !.l.flag = g])
<1>1. c.l \in Link BY DEF Ctx
<1>2. Same(c.l, [c.l EXCEPT !.flag = g]) BY <1>1, WithFlag
<1>3. [c EXCEPT !.l.flag = g] = [c EXCEPT !.l = [c.l EXCEPT !.flag = g]] OBVIOUS
<1> QED BY <1>2, <1>3, HandledSame

LEMMA FlagType == ASSUME NEW l \in Link PROVE l.flag \in SUBSET Flags
<1>1. Typed(l) BY LinkElim
<1> QED BY <1>1, Zenon DEF Typed

LEMMA BusyPartType ==
  ASSUME NEW c \in Ctx, Sound(c.l), NEW mem PROVE Handled(c, BusyPart(c, mem))
<1> DEFINE m == [c.l EXCEPT !.flag = c.l.flag \cup {"BUSY"}, !.busyrx = 0]
           a == [c EXCEPT !.l = m]
           g == c.l.flag \ {"BUSY"}
           b == [c EXCEPT !.l.flag = g]
<1>1. c.l \in Link BY DEF Ctx
<1>2. Same(c.l, m)
  <2>1. IsRec(c.l) /\ Typed(c.l) BY <1>1, LinkElim
  <2>2. IsRec(m) BY <2>1, Put, Zenon
  <2>3. c.l.flag \cup {"BUSY"} \in SUBSET Flags BY <1>1, FlagType DEF Flags
  <2>4. ASSUME NEW h \in SUBSET Flags
        PROVE  LET p == [c.l EXCEPT !.flag = h, !.busyrx = 0]
               IN  /\ Typed(p) /\ p.st = c.l.st /\ p.ext = c.l.ext
                   /\ Sound(c.l) => Sound(p)
    <3> DEFINE p == [c.l EXCEPT !.flag = h, !.busyrx = 0]
    <3>1. Typed(p) BY <2>1 DEF IsRec, Fields, Typed
    <3>2. p.st = c.l.st /\ p.ext = c.l.ext BY <2>1 DEF IsRec, Fields
    <3>3. Sound(c.l) => Sound(p) BY <2>1 DEF Sound, Masked, OutsdI, Mod, IsRec, Fields
    <3> QED BY <3>1, <3>2, <3>3
  <2>5. Typed(m) /\ m.st = c.l.st /\ m.ext = c.l.ext /\ (Sound(c.l) => Sound(m))
    BY <2>3, <2>4
  <2> HIDE DEF m
  <2> QED BY <2>2, <2>5, LinkIntro DEF Same
<1>3. BusyPart(c, mem) \in {c, Stma(a, stbl21), Stma(b, stbl22)} BY DEF BusyPart
<1> HIDE DEF m
<1>4. Handled(c, a) BY <1>2, HandledSame
<1>5. Handled(c, b)
  <2>1. g \in SUBSET Flags BY <1>1, FlagType
  <2> HIDE DEF g
  <2> QED BY <2>1, FlagPart
<1> HIDE DEF a, b
<1>6. Handled(c, c) BY DEF Handled
<1>7. Handled(c, Stma(a, stbl21)) BY <1>4, HandledStma, TablesOK
<1>8. Handled(c, Stma(b, stbl22)) BY <1>5, HandledStma, TablesOK
<1> QED BY <1>3, <1>6, <1>7, <1>8

LEMMA T1PartType ==
  ASSUME NEW c \in Ctx, Sound(c.l), NEW late PROVE Handled(c, T1Part(c, late))
<1>1. c.l \in Link BY DEF Ctx
<1> DEFINE more == c.l.tries + 1
           l    == [c.l EXCEPT !.T1 = FALSE, !.T3 = TRUE]
           m    == IF more > 1 THEN ChangeMaxframe(l, -1) ELSE l
           p    == [m EXCEPT !.tries = more]
           q    == [m EXCEPT !.tries = 0]
           a    == [c EXCEPT !.l = p]
           b    == [c EXCEPT !.l = q]
<1>2. Same(c.l, l) BY <1>1, WithT1T3
<1>3. more \in Nat
  <2>1. c.l.tries \in 0 .. 127 BY <1>1, Numbers
  <2> QED BY <2>1
<1>4. \/ T1Part(c, late) \in {c, Stma(b, stbl25)}
      \/ more < Retry /\ T1Part(c, late) = Stma(a, stbl23)
  BY DEF T1Part
<1> HIDE DEF l, more
<1>5. Same(c.l, m)
  <2>1. Same(l, ChangeMaxframe(l, -1)) BY <1>2, ChangeMaxframeType DEF Same
  <2>2. Same(c.l, ChangeMaxframe(l, -1)) BY <1>2, <2>1, SameTrans
  <2> QED BY <1>2, <2>2
<1> HIDE DEF m
<1>6. m \in Link BY <1>5 DEF Same
<1>7. Same(c.l, q)
  <2>1. 0 \in 0 .. 127 OBVIOUS
  <2>2. Same(m, q) BY <1>6, <2>1, WithTries, Zenon
  <2> HIDE DEF q
  <2> QED BY <1>5, <2>2, SameTrans
<1>8. ASSUME more < Retry PROVE Same(c.l, p)
  <2>1. more \in 0 .. 127 BY <1>3, <1>8, PortAssumption
  <2>2. Same(m, p) BY <1>6, <2>1, WithTries, Zenon
  <2> HIDE DEF p
  <2> QED BY <1>5, <2>2, SameTrans
<1> HIDE DEF p, q
<1>9. Handled(c, c) BY DEF Handled
<1>10. Handled(c, b) BY <1>7, HandledSame
<1>11. ASSUME more < Retry PROVE Handled(c, a) BY <1>8, <1>11, HandledSame
<1> HIDE DEF a, b
<1>12. Handled(c, Stma(b, stbl25)) BY <1>10, HandledStma, TablesOK
<1>13. ASSUME more < Retry PROVE Handled(c, Stma(a, stbl23))
  BY <1>11, <1>13, HandledStma, TablesOK
<1> QED BY <1>4, <1>9, <1>12, <1>13

LEMMA T2PartType ==
  ASSUME NEW c \in Ctx, Sound(c.l), NEW late PROVE Handled(c, T2Part(c, late))
<1>1. c.l \in Link BY DEF Ctx
<1> DEFINE s == IF "BUSY" \in c.l.flag THEN "RNR" ELSE c.l.RStype
           m == [c.l EXCEPT !.T2 = FALSE]
           due == ~c.l.T2 \/ "T2" \in late
<1>2. c.l.RStype \in RStypes
  <2>1. Typed(c.l) BY <1>1, LinkElim
  <2> QED BY <2>1, Zenon DEF Typed
<1>3. T2Part(c, late) = CASE due /\ c.l.RStype # "none" -> SendS(c, s, FALSE, FALSE)
                          [] due /\ c.l.RStype = "none" -> [c EXCEPT !.l.T2 = FALSE]
                          [] ~due -> c
  BY DEF T2Part
<1> HIDE DEF due
<1>4. CASE due /\ c.l.RStype # "none"
  <2>1. T2Part(c, late) = SendS(c, s, FALSE, FALSE) BY <1>3, <1>4
  <2>2. s \in {"RR", "RNR", "REJ"} BY <1>2, <1>4 DEF RStypes
  <2> HIDE DEF s
  <2> QED BY <2>1, <2>2, SendSType, KeepsHandled
<1>5. CASE due /\ c.l.RStype = "none"
  <2>1. T2Part(c, late) = [c EXCEPT !.l = m] BY <1>3, <1>5
  <2>2. Same(c.l, m) BY <1>1, WithT2
  <2> HIDE DEF m
  <2> QED BY <2>1, <2>2, HandledSame
<1>6. CASE ~due
  <2>1. T2Part(c, late) = c BY <1>3, <1>6
  <2> QED BY <2>1 DEF Handled
<1> QED BY <1>4, <1>5, <1>6

LEMMA L2timrType ==
  ASSUME NEW c \in Ctx, Sound(c.l), NEW late, NEW mem, NEW k \in Nat, NEW busy \in BOOLEAN
  PROVE  Handled(c, L2timr(c, late, mem, k, busy))
<1> DEFINE a == T3Part(c, late)
           x == [a EXCEPT !.l.flag = a.l.flag \cup {"DIMM"}]
           b == IF Len(a.l.sendil) > TosendMax /\ a.l.st \in Transfer THEN x ELSE a
           i == [b EXCEPT !.l = I2tolx(b.l, k)]
           d == BusyPart(i, mem)
           r == [b EXCEPT !.l = ResLnk(b.l)]
           stop == Stma(b, stbl20)
           y == [stop EXCEPT !.l.flag = stop.l.flag \ {"DIMM"}]
<1>1. Handled(c, a) BY T3PartType
<1>2. L2timr(c, late, mem, k, busy)
        \in {y, Stma(r, stbl20), d, T2Part(T1Part(d, late), late)}
  BY DEF L2timr
<1> HIDE DEF a
<1>3. Handled(c, b)
  <2>1. a \in Ctx /\ a.l \in Link /\ Sound(a.l) BY <1>1, LinkIn
  <2>2. a.l.flag \cup {"DIMM"} \in SUBSET Flags BY <2>1, FlagType DEF Flags
  <2>3. Handled(a, x) BY <2>1, <2>2, FlagPart
  <2> HIDE DEF x
  <2> QED BY <1>1, <2>3, HandledTrans
<1> HIDE DEF b
<1>4. b \in Ctx /\ b.l \in Link /\ Sound(b.l) BY <1>3, LinkIn
<1>5. Handled(c, y)
  <2>1. Handled(c, stop) BY <1>3, HandledStma, TablesOK
  <2> HIDE DEF stop
  <2>2. stop \in Ctx /\ stop.l \in Link /\ Sound(stop.l) BY <2>1, LinkIn
  <2>3. stop.l.flag \ {"DIMM"} \in SUBSET Flags BY <2>2, FlagType
  <2>4. Handled(stop, y) BY <2>2, <2>3, FlagPart
  <2> HIDE DEF y
  <2> QED BY <2>1, <2>4, HandledTrans
<1>6. Handled(c, Stma(r, stbl20))
  <2>1. ResLnk(b.l) \in Link /\ Sound(ResLnk(b.l)) BY <1>4, ResLnkType
  <2>2. Handled(b, r) BY <1>4, <2>1, WithLink DEF Handled
  <2> HIDE DEF r
  <2> QED BY <1>3, <2>2, HandledTrans, HandledStma, TablesOK
<1>7. Handled(c, d)
  <2>1. Handled(b, i) BY <1>4, I2tolxType, HandledSame
  <2>2. Handled(c, i)
    <3> HIDE DEF i
    <3> QED BY <1>3, <2>1, HandledTrans
  <2> HIDE DEF i
  <2>3. i \in Ctx /\ Sound(i.l) BY <2>2, LinkIn
  <2> QED BY <2>2, <2>3, BusyPartType, HandledTrans
<1> HIDE DEF d, y, r
<1>8. Handled(c, T1Part(d, late)) BY <1>7, LinkIn, T1PartType, HandledTrans
<1>9. Handled(c, T2Part(T1Part(d, late), late)) BY <1>8, LinkIn, T2PartType, HandledTrans
<1> QED BY <1>2, <1>5, <1>6, <1>7, <1>9

LEMMA TurnType ==
  ASSUME NEW n \in Node, lk[n] \in Link, Sound(lk[n]),
         NEW ticked, NEW late, NEW mem, NEW k \in Nat, NEW busy \in BOOLEAN
  PROVE  Handled(Context(n, FALSE), Turn(n, ticked, late, mem, k, busy))
<1> DEFINE c == Context(n, FALSE)
           s == IF busy THEN c ELSE L2tx(c)
<1>1. c \in Ctx /\ c.l = lk[n] BY DEF Context, Ctx
<1>2. Turn(n, ticked, late, mem, k, busy) = IF ticked THEN L2timr(s, late, mem, k, busy) ELSE s
  BY DEF Turn
<1> HIDE DEF c
<1>3. Handled(c, s)
  <2>1. Handled(c, L2tx(c)) BY <1>1, L2txType
  <2>2. Handled(c, c) BY <1>1 DEF Handled
  <2> QED BY <2>1, <2>2
<1> HIDE DEF s
<1>4. Handled(c, L2timr(s, late, mem, k, busy)) BY <1>3, LinkIn, L2timrType, HandledTrans
<1> QED BY <1>2, <1>3, <1>4 DEF c

-----------------------------------------------------------------------------
(* The actions.                                                            *)

(* The inductive invariant.                                                *)
IInv ==
  /\ lk \in [Node -> Link]
  /\ \A n \in Node : Sound(lk[n])
  /\ txq \in [Node -> Seq(Frame)]
  /\ rxq \in [Node -> Seq(Frame)]
  /\ used \in Used

LEMMA UsedType ==
  ASSUME used \in Used,
         NEW what \in {"connect", "disconnect", "loss", "restart", "low"}, Use(what)
  PROVE  used' \in Used
BY DEF Used, Use

LEMMA SentType ==
  ASSUME IInv, NEW n \in Node, NEW c, c \in Ctx, Sound(c.l), Sent(n, c)
  PROVE  /\ lk' \in [Node -> Link] /\ \A m \in Node : Sound(lk'[m])
         /\ txq' \in [Node -> Seq(Frame)]
<1>1. c.l \in Link /\ c.out \in Seq(Frame) BY DEF Ctx
<1>2. lk' = [lk EXCEPT ![n] = c.l] /\ txq' = [txq EXCEPT ![n] = txq[n] \o c.out] BY DEF Sent
<1>3. txq[n] \o c.out \in Seq(Frame) BY <1>1 DEF IInv
<1>4. \A m \in Node : Sound(lk'[m]) BY <1>2 DEF IInv
<1> QED BY <1>1, <1>2, <1>3, <1>4 DEF IInv

LEMMA ContextType ==
  ASSUME IInv, NEW n \in Node, NEW pf \in BOOLEAN
  PROVE  /\ Context(n, pf) \in Ctx /\ Context(n, pf).l = lk[n] /\ Sound(Context(n, pf).l)
         /\ lk[n] \in Link /\ Sound(lk[n])
<1>1. lk[n] \in Link /\ Sound(lk[n]) BY DEF IInv
<1>2. Context(n, pf) \in Ctx /\ Context(n, pf).l = lk[n] BY <1>1 DEF Context, Ctx
<1> QED BY <1>1, <1>2

LEMMA HeadType ==
  ASSUME NEW q \in Seq(Frame), q # <<>>
  PROVE  Head(q) \in Frame /\ Tail(q) \in Seq(Frame)
OBVIOUS

LEMMA BlankType ==
  ASSUME NEW g \in SUBSET Nat
  PROVE  BlankLink \in Link /\ [BlankLink EXCEPT !.got = g] \in Link
         /\ Sound(BlankLink) /\ Sound([BlankLink EXCEPT !.got = g])
<1>1. BlankLink \in Link
  BY WindowAssumption DEF BlankLink, Link, States, L2SDSCED
<1>2. IsRec(BlankLink) /\ Typed(BlankLink) BY <1>1, LinkElim
<1> DEFINE m == [BlankLink EXCEPT !.got = g]
<1>3. IsRec(m) BY <1>2, Put, Zenon
<1>4. Typed(m) BY <1>2 DEF IsRec, Fields, Typed
<1>5. BlankLink.st = L2SDSCED BY DEF BlankLink
<1>6. m.st = L2SDSCED BY <1>2, <1>5 DEF IsRec, Fields
<1> HIDE DEF m
<1> QED BY <1>1, <1>3, <1>4, <1>5, <1>6, LinkIntro DEF Sound, Masked, OutsdI, Transfer, L2SDSCED, m

LEMMA ConnectType == ASSUME IInv, NEW n \in Node, Connect(n) PROVE IInv'
<1>1. PICK eax \in BOOLEAN :
        Sent(n, Stma([Context(n, FALSE) EXCEPT !.l = ResLnk([lk[n] EXCEPT !.ext = eax])], stbl19))
  <2>1. \A eax \in (IF EaxMode[n] = 2 THEN {TRUE} ELSE DestEax) : eax \in BOOLEAN
    BY PortAssumption
  <2> QED BY <2>1, Zenon DEF Connect
<1> DEFINE c == Context(n, FALSE)
           e == [lk[n] EXCEPT !.ext = eax]
           d == [c EXCEPT !.l = ResLnk(e)]
<1>2. c \in Ctx /\ lk[n] \in Link BY ContextType
<1>3. e \in Link BY <1>2, WithExt
<1> HIDE DEF c, e
<1>4. ResLnk(e) \in Link /\ Sound(ResLnk(e)) BY <1>3, ResLnkType
<1>5. d \in Ctx /\ Sound(d.l) BY <1>2, <1>4, WithLink
<1> HIDE DEF d
<1>6. Stma(d, stbl19) \in Ctx /\ Sound(Stma(d, stbl19).l)
  <2>1. Handled(d, d) BY <1>5 DEF Handled
  <2> QED BY <2>1, HandledStma, TablesOK, LinkIn
<1>7. Sent(n, Stma(d, stbl19)) BY <1>1 DEF c, d, e
<1>8. /\ lk' \in [Node -> Link] /\ \A m \in Node : Sound(lk'[m])
      /\ txq' \in [Node -> Seq(Frame)]
  BY <1>6, <1>7, SentType
<1>9. used' \in Used BY UsedType DEF Connect, IInv
<1> QED BY <1>8, <1>9 DEF IInv, Connect

LEMMA DisconnectType == ASSUME IInv, NEW n \in Node, Disconnect(n) PROVE IInv'
<1>1. PICK why \in {"DIMM", "DSLE"} :
        lk' = [lk EXCEPT ![n] = [lk[n] EXCEPT !.rcvd = 0, !.flag = lk[n].flag \cup {why}]]
  BY DEF Disconnect
<1> DEFINE g == lk[n].flag \cup {why}
           m == [lk[n] EXCEPT !.rcvd = 0, !.flag = g]
<1>2. lk[n] \in Link /\ Sound(lk[n]) BY DEF IInv
<1>3. g \in SUBSET Flags BY <1>2, FlagType DEF Flags
<1> HIDE DEF g
<1>4. m \in Link /\ Sound(m)
  <2>1. IsRec(lk[n]) /\ Typed(lk[n]) BY <1>2, LinkElim
  <2>2. IsRec(m) BY <2>1, Put, Zenon
  <2>3. Typed(m) BY <1>3, <2>1 DEF IsRec, Fields, Typed
  <2>4. Sound(lk[n]) => Sound(m) BY <2>1 DEF Sound, Masked, OutsdI, Mod, IsRec, Fields
  <2> QED BY <1>2, <2>2, <2>3, <2>4, LinkIntro
<1>5. lk' = [lk EXCEPT ![n] = m] BY <1>1 DEF g
<1> HIDE DEF m
<1>6. lk' \in [Node -> Link] /\ \A i \in Node : Sound(lk'[i]) BY <1>4, <1>5 DEF IInv
<1>7. used' \in Used BY UsedType DEF Disconnect, IInv
<1> QED BY <1>6, <1>7 DEF IInv, Disconnect

LEMMA QueueType == ASSUME IInv, NEW n \in Node, Queue(n) PROVE IInv'
<1> DEFINE k == used.msg[n] + 1
           s == Append(lk[n].sendil, k)
           m == [lk[n] EXCEPT !.sendil = s]
<1>1. k \in Nat BY DEF IInv, Used
<1>2. lk[n] \in Link /\ Sound(lk[n]) BY DEF IInv
<1>3. lk' = [lk EXCEPT ![n] = m]
  <2>1. lk' = [lk EXCEPT ![n].sendil = Append(@, k)] BY DEF Queue
  <2> HIDE DEF k
  <2> QED BY <2>1
<1> HIDE DEF k
<1>4. s \in Seq(Nat) /\ Len(s) = Len(lk[n].sendil) + 1
  <2>1. lk[n].sendil \in Seq(Nat) BY <1>2, SendilType
  <2> QED BY <1>1, <2>1
<1> HIDE DEF s
<1>5. m \in Link /\ Sound(m)
  <2>1. IsRec(lk[n]) /\ Typed(lk[n]) BY <1>2, LinkElim
  <2>2. IsRec(m) BY <2>1, Put, Zenon
  <2>3. Typed(m) BY <1>4, <2>1 DEF IsRec, Fields, Typed
  <2>5. m.sendil = s /\ m.st = lk[n].st BY <2>1 DEF IsRec, Fields
  <2>6. Masked(lk[n]) => Masked(m) BY <2>1 DEF Masked, Mod, IsRec, Fields
  <2>7. OutsdI(m) = OutsdI(lk[n]) BY <2>1 DEF OutsdI, Mod, IsRec, Fields
  <2>8. OutsdI(lk[n]) \in 0 .. 127 /\ Len(lk[n].sendil) \in Nat
    BY <1>2, OutsdIType, SendilType
  <2> HIDE DEF m
  <2>9. Masked(lk[n]) /\ (m.st \in Transfer => OutsdI(lk[n]) <= Len(lk[n].sendil))
    BY <1>2, <2>5, Zenon DEF Sound
  <2>10. m.st \in Transfer => OutsdI(m) <= Len(m.sendil)
    <3>1. ASSUME NEW o \in 0 .. 127, NEW len \in Nat, o <= len PROVE o <= len + 1
      BY <3>1
    <3>2. m.st \in Transfer => OutsdI(lk[n]) <= Len(lk[n].sendil) + 1 BY <2>8, <2>9, <3>1
    <3>3. Len(m.sendil) = Len(lk[n].sendil) + 1 BY <1>4, <2>5, Zenon
    <3> QED BY <2>7, <3>2, <3>3, Zenon
  <2>4. Sound(m) BY <2>6, <2>9, <2>10, Zenon DEF Sound
  <2> QED BY <2>2, <2>3, <2>4, LinkIntro
<1> HIDE DEF m
<1>6. lk' \in [Node -> Link] /\ \A i \in Node : Sound(lk'[i]) BY <1>3, <1>5 DEF IInv
<1>7. used' \in Used
  <2>1. used' = [used EXCEPT !.msg = [used.msg EXCEPT ![n] = used.msg[n] + 1]] BY DEF Queue
  <2>2. [used.msg EXCEPT ![n] = used.msg[n] + 1] \in [Node -> Nat] BY DEF IInv, Used
  <2> QED BY <2>1, <2>2 DEF IInv, Used
<1> QED BY <1>6, <1>7 DEF IInv, Queue

LEMMA TransmittedType ==
  ASSUME IInv, NEW n \in Node, Transmitted(n)
  PROVE  /\ lk' \in [Node -> Link] /\ \A i \in Node : Sound(lk'[i])
         /\ txq' \in [Node -> Seq(Frame)] /\ Head(txq[n]) \in Frame
<1>1. lk[n] \in Link /\ Sound(lk[n]) BY DEF IInv
<1>2. Head(txq[n]) \in Frame /\ Tail(txq[n]) \in Seq(Frame) BY HeadType DEF IInv, Transmitted
<1> DEFINE m == IF Head(txq[n]).t1 THEN SetT1(n, lk[n]) ELSE lk[n]
<1>3. m \in Link /\ Sound(m) BY <1>1, SetT1Type
<1>4. lk' = [lk EXCEPT ![n] = m] BY DEF Transmitted
<1> HIDE DEF m
<1>5. lk' \in [Node -> Link] /\ \A i \in Node : Sound(lk'[i]) BY <1>3, <1>4 DEF IInv
<1>6. txq' \in [Node -> Seq(Frame)] BY <1>2 DEF Transmitted, IInv
<1> QED BY <1>2, <1>5, <1>6

LEMMA TransmitType == ASSUME IInv, NEW n \in Node, Transmit(n) PROVE IInv'
<1>1. /\ lk' \in [Node -> Link] /\ \A i \in Node : Sound(lk'[i])
      /\ txq' \in [Node -> Seq(Frame)] /\ Head(txq[n]) \in Frame
  BY TransmittedType DEF Transmit
<1>2. rxq' \in [Node -> Seq(Frame)]
  <2> DEFINE f == Head(txq[n])
  <2>1. rxq' = [rxq EXCEPT ![Peer(n)] = Append(rxq[Peer(n)], f)] BY DEF Transmit
  <2>2. f \in Frame BY <1>1
  <2>3. rxq \in [Node -> Seq(Frame)] BY DEF IInv
  <2> HIDE DEF f
  <2>4. CASE Peer(n) \in Node
    <3>1. Append(rxq[Peer(n)], f) \in Seq(Frame) BY <2>2, <2>3, <2>4
    <3> QED BY <2>1, <2>3, <3>1
  <2>5. CASE Peer(n) \notin Node BY <2>1, <2>3, <2>5
  <2> QED BY <2>4, <2>5
<1> QED BY <1>1, <1>2 DEF IInv, Transmit

LEMMA LoseType == ASSUME IInv, NEW n \in Node, Lose(n) PROVE IInv'
<1>1. used' \in Used BY UsedType DEF Lose, IInv
<1> QED BY <1>1, TransmittedType DEF IInv, Lose

LEMMA ReceiveType == ASSUME IInv, NEW n \in Node, Receive(n) PROVE IInv'
<1> DEFINE f == Head(rxq[n])
           c == Context(n, f.pf)
<1>1. f \in Frame /\ Tail(rxq[n]) \in Seq(Frame) BY HeadType DEF IInv, Receive
<1>2. f.pf \in BOOLEAN BY <1>1 DEF Frame
<1>3. c \in Ctx /\ Sound(c.l) BY <1>2, ContextType
<1>4. rxq' \in [Node -> Seq(Frame)]
  <2>1. rxq' = [rxq EXCEPT ![n] = Tail(rxq[n])] BY DEF Receive
  <2> HIDE DEF f, c
  <2> QED BY <1>1, <2>1 DEF IInv
<1>5. \/ Sent(n, L2rx(c, f)) /\ UNCHANGED used
      \/ Sent(n, NoLink(c, f)) /\ Use("low")
  BY DEF Receive
<1> HIDE DEF f, c
<1>6. L2rx(c, f) \in Ctx /\ Sound(L2rx(c, f).l) BY <1>1, <1>3, L2rxType, LinkIn
<1>7. NoLink(c, f) \in Ctx /\ Sound(NoLink(c, f).l) BY <1>3, NoLinkType, LinkIn
<1>8. used' \in Used BY <1>5, UsedType DEF IInv
<1>9. /\ lk' \in [Node -> Link] /\ \A i \in Node : Sound(lk'[i])
      /\ txq' \in [Node -> Seq(Frame)]
  BY <1>5, <1>6, <1>7, SentType
<1> QED BY <1>4, <1>8, <1>9 DEF IInv

LEMMA ServeType ==
  ASSUME IInv, NEW n \in Node, NEW ticked, NEW late, NEW mem, NEW k \in Nat,
         NEW busy \in BOOLEAN, Serve(n, ticked, late, mem, k, busy)
  PROVE  IInv'
<1> DEFINE c == Turn(n, ticked, late, mem, k, busy)
<1>1. c \in Ctx /\ Sound(c.l)
  <2>1. lk[n] \in Link /\ Sound(lk[n]) BY DEF IInv
  <2> QED BY <2>1, TurnType, LinkIn
<1>2. Sent(n, c) BY DEF Serve
<1> HIDE DEF c
<1>3. /\ lk' \in [Node -> Link] /\ \A i \in Node : Sound(lk'[i])
      /\ txq' \in [Node -> Seq(Frame)]
  BY <1>1, <1>2, SentType
<1>4. used' \in Used BY UsedType DEF Serve, IInv
<1> QED BY <1>3, <1>4 DEF IInv, Serve

LEMMA L2Type == ASSUME IInv, NEW n \in Node, L2(n) PROVE IInv'
<1>1. CASE Serve(n, FALSE, {}, "high", 0, FALSE) BY <1>1, ServeType
<1>2. ASSUME NEW late \in SUBSET Due(n), NEW mem \in Memory, NEW k \in 0 .. lk[n].rcvd,
             NEW busy \in BOOLEAN, Serve(n, TRUE, late, mem, k, busy)
      PROVE  IInv'
  <2>1. k \in Nat OBVIOUS
  <2> QED BY <1>2, <2>1, ServeType
<1> QED BY <1>1, <1>2 DEF L2

LEMMA RestartType == ASSUME IInv, NEW n \in Node, Restart(n) PROVE IInv'
<1> DEFINE m == [BlankLink EXCEPT !.got = lk[n].got]
<1>1. lk[n].got \in SUBSET Nat
  <2>1. lk[n] \in Link BY DEF IInv
  <2>2. Typed(lk[n]) BY <2>1, LinkElim
  <2> QED BY <2>2, Zenon DEF Typed
<1>2. m \in Link /\ Sound(m) BY <1>1, BlankType
<1>3. lk' = [lk EXCEPT ![n] = m] BY DEF Restart
<1> HIDE DEF m
<1>4. lk' \in [Node -> Link] /\ \A i \in Node : Sound(lk'[i]) BY <1>2, <1>3 DEF IInv
<1>5. txq' \in [Node -> Seq(Frame)] /\ rxq' \in [Node -> Seq(Frame)] BY DEF IInv, Restart
<1>6. used' \in Used BY UsedType DEF Restart, IInv
<1> QED BY <1>4, <1>5, <1>6 DEF IInv

LEMMA InitType == Init => IInv
<1> SUFFICES ASSUME Init PROVE IInv OBVIOUS
<1>1. BlankLink \in Link /\ Sound(BlankLink) BY BlankType
<1>2. lk \in [Node -> Link] /\ \A n \in Node : Sound(lk[n]) BY <1>1 DEF Init
<1>3. txq \in [Node -> Seq(Frame)] /\ rxq \in [Node -> Seq(Frame)] BY DEF Init
<1>4. used \in Used BY DEF Init, Used
<1> QED BY <1>2, <1>3, <1>4 DEF IInv

LEMMA NextType == IInv /\ [Next]_vars => IInv'
<1> SUFFICES ASSUME IInv, [Next]_vars PROVE IInv' OBVIOUS
<1>1. CASE UNCHANGED vars BY <1>1 DEF IInv, vars
<1>2. CASE Next
  BY <1>2, ConnectType, DisconnectType, QueueType, TransmitType, LoseType,
     ReceiveType, L2Type, RestartType DEF Next
<1> QED BY <1>1, <1>2

LEMMA IInvHolds == Spec => []IInv
BY InitType, NextType, PTL DEF Spec

(* Every variable keeps its type, and the sequence numbers of an           *)
(* established link stay within its bitmask, whatever arrives and whenever *)
(* timers run out: l2rx, l2tx and l2timr never index with another number.  *)
THEOREM TypeCorrect == Spec => []TypeOK
<1>1. IInv => TypeOK BY DEF IInv, TypeOK, Sound
<1> QED BY <1>1, IInvHolds, PTL

(* What is outstanding on an established link is in its queue: sdi() and   *)
(* srxdNR() walk and cut sendil by the number of outstanding frames and    *)
(* never look at its end.                                                  *)
THEOREM WindowAlwaysInQueue == Spec => []WindowInQueue
<1>1. IInv => WindowInQueue BY DEF IInv, WindowInQueue, Sound
<1> QED BY <1>1, IInvHolds, PTL
=============================================================================
