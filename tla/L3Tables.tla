------------------------------ MODULE L3Tables ------------------------------
(***************************************************************************)
(* The node, segment and route tables of level 3 (l3tab.c, l3nbr.c) and    *)
(* what the INP routing protocol (l3inp.c, l3netrom.c, l3misc.c, l3rtt.c)  *)
(* does to them.                                                           *)
(*                                                                         *)
(* A router r is a record: r.id is myid, r.known the set of nodes in the   *)
(* node table, r.seg[s] the segment (PEER) to neighbour s.  A node's index *)
(* in the hash table is its name, so the table is never full.  A quality   *)
(* is a transport time in 10 ms; 0 means that there is no way.             *)
(***************************************************************************)
EXTENDS Integers, Sequences, FiniteSets

CONSTANTS
  Router,        \* the nodes that run this code
  Local,         \* call signs of LOCAL segments: stations without routing
  Pos,           \* position of a segment in peertab, by call sign
  MaxLt,         \* max_lt, hops (5..50)
  ObcIni         \* obcini, minutes a route of an unsecured segment lives (1..255)

Dest == Router \cup Local

ASSUME NamesAssumption ==
  /\ IsFiniteSet(Router) /\ IsFiniteSet(Local) /\ Router \cap Local = {}
  /\ Pos \in [Dest -> Nat]
ASSUME TimesAssumption ==
  MaxLt \in 5 .. 50 /\ ObcIni \in 1 .. 255

HORIZONT == 60000
LEARN == 59999
DIRTY == 60001
DEFAULT_LT == 10
RTT_MAX == 59999
ResetTimeout == 4   \* minutes that routes live after a link reset
LocalRtt == 10      \* the quality of a LOCAL segment's route
UWORD(x) == x % 65536

AtMost(a, b) == IF a <= b THEN a ELSE b

Quality == 0 .. HORIZONT - 1

(* What a neighbour told us about a node (quality, lt), what we told it    *)
(* (reported), and the minutes the route has left (0: no limit).           *)
RouteEntry == [quality: Quality, reported: 0 .. DIRTY, timeout: Nat, lt: Nat]
NoRoute == [quality |-> 0, reported |-> 0, timeout |-> 0, lt |-> 0]
NoRoutes == [d \in Dest |-> NoRoute]

(* typ is what the segment is, soll what it is meant to be; nbrl2l is the  *)
(* state of its link; rttstart says whether a measurement is under way.    *)
Segment ==
  [used: BOOLEAN, typ: {"INP", "NETROM", "LOCAL"}, nbrl2l: {"none", "setup", "up"},
   quality: Nat, my: Nat, his: Nat, num: Int, rttstart: BOOLEAN,
   route: [Dest -> RouteEntry]]

(* typ <= NETROM in the order of the type numbers: datagrams may use it.   *)
DG(p) == p.typ # "LOCAL"
Secured(p) == p.typ \in {"LOCAL", "INP"}

EmptySegment ==
  [used |-> FALSE, typ |-> "NETROM", nbrl2l |-> "none", quality |-> 0, my |-> 0,
   his |-> 0, num |-> 0, rttstart |-> FALSE, route |-> NoRoutes]

-----------------------------------------------------------------------------
(* The best way.                                                           *)

GetQuality(q, p) ==
  IF q = 0 \/ p.quality = 0 THEN 0
  ELSE IF DG(p) THEN AtMost(q + p.quality, HORIZONT) ELSE q

Way(r, s, d) == GetQuality(r.seg[s].route[d].quality, r.seg[s])

Segments(r) == {s \in Dest : r.seg[s].used}
Datagram(r) == {s \in Segments(r) : DG(r.seg[s])}
Virtual(r) == Segments(r) \ Datagram(r)

(* do_find_best_qual(): the first of the best segments, or the last one    *)
(* looked at if none leads to d, and the quality of the way.               *)
FirstIn(segs) == CHOOSE s \in segs : \A t \in segs : Pos[s] <= Pos[t]
LastIn(segs) == CHOOSE s \in segs : \A t \in segs : Pos[t] <= Pos[s]

Best(r, d, segs) ==
  LET qs == {Way(r, s, d) : s \in segs} \ {0}
      q == CHOOSE x \in qs : \A y \in qs : x <= y
  IN IF qs = {} THEN [seg |-> LastIn(segs), q |-> 0]
     ELSE [seg |-> FirstIn({s \in segs : Way(r, s, d) = q}), q |-> q]

BestSegment(r, d, segs) == Best(r, d, segs).seg
BestQuality(r, d, segs) == IF segs = {} THEN 0 ELSE Best(r, d, segs).q

(* iscall(): is d a known node that one of these segments leads to?        *)
IsCall(r, d, segs) == d \in r.known /\ BestQuality(r, d, segs) # 0

-----------------------------------------------------------------------------
(* Routes.                                                                 *)

(* update_route() for every node of ds at once: q[d] is the new quality.   *)
UpdateRoutes(p, ds, q) ==
  LET new(d) == IF q[d] >= HORIZONT THEN 0 ELSE q[d]
      lost == {d \in ds : p.route[d].quality # 0 /\ new(d) = 0}
      won == {d \in ds : p.route[d].quality = 0 /\ new(d) # 0}
  IN [p EXCEPT
       !.num = @ - Cardinality(lost) + Cardinality(won),
       !.route = [d \in Dest |->
          IF d \in ds
          THEN [@[d] EXCEPT !.quality = new(d),
                            !.timeout = IF Secured(p) THEN 0 ELSE ObcIni]
          ELSE @[d]]]

SetLt(p, ds, lt) ==
  [p EXCEPT !.route = [d \in Dest |-> IF d \in ds THEN [@[d] EXCEPT !.lt = lt[d]] ELSE @[d]]]

(* add_route() and update_lt() for the nodes of DOMAIN q, over segment s.  *)
(* A node that is not known is added only with a way.                      *)
AddRoutes(r, s, q, lt) ==
  LET ds == {d \in DOMAIN q : d \in r.known \/ q[d] # 0} IN
  [r EXCEPT !.known = @ \cup ds,
            !.seg[s] = SetLt(UpdateRoutes(@, ds, q), ds, lt)]

AddRoute(r, s, d, q, lt) ==
  AddRoutes(r, s, [x \in {d} |-> q], [x \in {d} |-> lt])

(* Mutant: it forgets what neighbours still have to be told.               *)
Unreachable_Reported(r) ==
  {d \in r.known : \A s \in Segments(r) : r.seg[s].route[d].quality = 0}

(* drop_unreachable_nodes(): nodes without a route, and without a report   *)
(* that is still to be taken back.                                         *)
Unreachable(r) ==
  {d \in r.known : \A s \in Segments(r) :
     r.seg[s].route[d].reported = 0 /\ r.seg[s].route[d].quality = 0}

DropUnreachable(r) == [r EXCEPT !.known = @ \ Unreachable(r)]

(* Mutant: the routes go, their number stays.                              *)
ClearRoutes_KeepNum(r, s) == [r EXCEPT !.seg[s].route = NoRoutes]

ClearRoutes(r, s) == [r EXCEPT !.seg[s].route = NoRoutes, !.seg[s].num = 0]

(* clear_peer()                                                            *)
ClearPeer(r, s) == DropUnreachable(ClearRoutes(r, s))

(* Mutant: a route whose time is up starts anew.                           *)
AgeSegment_Renewed(p, known) ==
  [p EXCEPT !.route = [d \in Dest |->
     IF d \notin known THEN @[d]
     ELSE IF @[d].timeout > 1 THEN [@[d] EXCEPT !.timeout = @ - 1]
     ELSE IF Secured(p) /\ @[d].timeout = 0 THEN @[d] ELSE [@[d] EXCEPT !.timeout = ObcIni]]]

(* brosrv60() for one segment: routes with too many hops, and timeouts.    *)
AgeSegment(p, known) ==
  LET far == {d \in known : p.route[d].lt > MaxLt}
      p1 == UpdateRoutes(p, far, [d \in far |-> 0])
      over == {d \in known : p1.route[d].timeout = 1}
      p2 == UpdateRoutes(p1, over, [d \in over |-> 0])
      older(e) == IF e.timeout > 0 THEN [e EXCEPT !.timeout = @ - 1]
                  ELSE IF Secured(p) THEN e ELSE [e EXCEPT !.timeout = ObcIni]
  IN [p2 EXCEPT !.route = [d \in Dest |->
        IF d \in known \ over THEN older(@[d]) ELSE @[d]]]

-----------------------------------------------------------------------------
(* Segments.                                                               *)

SetPeerTyp(r, s, typ) ==
  [r EXCEPT !.seg[s].typ = typ,
            !.seg[s].route =
               IF typ = "INP"
               THEN [d \in Dest |-> IF d \in r.known THEN [@[d] EXCEPT !.reported = 0] ELSE @[d]]
               ELSE @]

(* smooth() and range()                                                    *)
Smooth(old, new) ==
  IF new > RTT_MAX THEN 0
  ELSE IF old = 0 THEN new * 3
  ELSE LET q == ((old + 1) * 7 - 1 + new) \div 8 IN IF q < 1 THEN 1 ELSE q

(* update_peer_quality(); -1 stands for DONT_CHANGE_QUAL                   *)
UpdatePeerQuality(p, my, his) ==
  LET h == IF his = -1 THEN p.his ELSE IF his > RTT_MAX THEN 0 ELSE his
      m == IF my = -1 THEN p.my ELSE IF my = 0 THEN 0 ELSE Smooth(p.my, my)
  IN [p EXCEPT !.his = h, !.my = m, !.quality = m]

(* Mutant: after a reset the neighbour's reports are trusted for good.     *)
ResetPeer_Trusting(r, s) ==
  LET r1 == IF r.seg[s].typ = "INP" THEN SetPeerTyp(r, s, "NETROM") ELSE r
      r2 == [r1 EXCEPT !.seg[s].route = [d \in Dest |->
               IF d \in r.known THEN [@[d] EXCEPT !.reported = 0] ELSE @[d]]]
  IN DropUnreachable([r2 EXCEPT !.seg[s] = UpdatePeerQuality(@, 0, -1)])

(* reset_peer(): everything is to be reported again, and what the          *)
(* neighbour reported is trusted for a few minutes only.                   *)
ResetPeer(r, s) ==
  LET r1 == IF r.seg[s].typ = "INP" THEN SetPeerTyp(r, s, "NETROM") ELSE r
      short(e) == [e EXCEPT !.reported = 0,
                            !.timeout = IF e.quality # 0 /\ (@ = 0 \/ @ > ResetTimeout)
                                        THEN ResetTimeout ELSE @]
      r2 == [r1 EXCEPT !.seg[s].route =
               [d \in Dest |-> IF d \in r.known THEN short(@[d]) ELSE @[d]]]
  IN DropUnreachable([r2 EXCEPT !.seg[s] = UpdatePeerQuality(@, 0, -1)])

(* What netrom_status() does after each change of the link.                *)
NoMeasurement(r, s) ==
  LET r1 == [r EXCEPT !.seg[s].rttstart = FALSE] IN
  IF r1.seg[s].typ = "INP" THEN SetPeerTyp(r1, s, "NETROM") ELSE r1

(* netrom_status(): L2MCONNT; L2MLREST and L2MLRESF; L2MFAILW and L2MDISCF *)
LinkConnected(r, s) == NoMeasurement(ClearPeer(r, s), s)
LinkReset(r, s) == NoMeasurement(ResetPeer(r, s), s)

(* Mutant: the routes over the lost link stay.                             *)
LinkGone_KeepsRoutes(r, s) ==
  NoMeasurement([r EXCEPT !.seg[s] = UpdatePeerQuality(@, 0, -1)], s)

LinkGone(r, s) ==
  LET r1 == [r EXCEPT !.seg[s] = UpdatePeerQuality(@, 0, -1)]
  IN NoMeasurement(ClearPeer(r1, s), s)

(* register_neigb() of a LOCAL segment and unregister_neigb().             *)
RegisterLocal(r, s) ==
  LET r1 == [r EXCEPT !.seg[s] = [EmptySegment EXCEPT !.used = TRUE, !.typ = "LOCAL"]]
      r2 == AddRoute(r1, s, s, LocalRtt, 1)
  IN [r2 EXCEPT !.seg[s].quality = 1]

UnregisterLocal(r, s) ==
  [ClearPeer(r, s) EXCEPT !.seg[s] = EmptySegment]

-----------------------------------------------------------------------------
(* Reports to a neighbour: inform_peer() with CHANGES for an INP segment.  *)

(* What is announced about d, given the best way q and the last report:    *)
(* the outcome of the filters.  hidden: the node has an alias with '#';    *)
(* jam: more than 7 frames wait on the link.                               *)
Skip == -1

(* Mutant: small changes for the worse wait like those for the better.     *)
Announce_WorseWaits(p, q, last, hidden, jam) ==
  IF hidden /\ last = 0 THEN Skip
  ELSE LET quality == IF hidden THEN 0 ELSE q
           worse == UWORD(quality + quality \div 8 + p.quality \div 2)
       IN IF last = 0 /\ quality > HORIZONT \div 2 THEN Skip
          ELSE IF last = DIRTY THEN quality
          ELSE IF quality = last THEN Skip
          ELSE IF quality = 0 \/ last = 0 THEN quality
          ELSE IF quality < last + 10 \/ jam THEN Skip
          ELSE IF worse > HORIZONT THEN 0 ELSE worse

Announce(p, q, last, hidden, jam) ==
  IF hidden /\ last = 0 THEN Skip
  ELSE LET quality == IF hidden THEN 0 ELSE q
           worse == UWORD(quality + quality \div 8 + p.quality \div 2)
       IN IF last = 0 /\ quality > HORIZONT \div 2 THEN Skip
          ELSE IF last = DIRTY THEN quality
          ELSE IF quality = last THEN Skip
          ELSE IF quality = 0 \/ last = 0 THEN quality
          ELSE IF quality < last
          THEN LET diff == last - quality IN
               IF \/ diff < last \div 2 \/ diff < 10
                  \/ diff < p.quality \div 2 \/ jam
               THEN Skip ELSE quality
          ELSE IF worse > HORIZONT THEN 0 ELSE worse

(* What node r has to announce to s about d.  Ways over s itself are       *)
(* announced as 0.                                                         *)
ToAnnounce(r, s, d, hidden, jam) ==
  LET best == Best(r, d, Segments(r))
      q == IF best.seg = s THEN 0 ELSE best.q
  IN Announce(r.seg[s], q, r.seg[s].route[d].reported, d \in hidden, jam)

Announced(r, s, hidden, jam) ==
  {d \in r.known \ {s} : ToAnnounce(r, s, d, hidden, jam) # Skip}

(* The frame: for each node the hops and the transport time, where the     *)
(* horizon stands for 0.                                                   *)
Report(r, s, hidden, jam) ==
  LET q(d) == ToAnnounce(r, s, d, hidden, jam) IN
  [d \in Announced(r, s, hidden, jam) |->
     [q |-> IF q(d) = 0 THEN HORIZONT ELSE q(d),
      lt |-> r.seg[BestSegment(r, d, Segments(r))].route[d].lt]]

(* What r remembers of it.                                                 *)
InformPeer(r, s, hidden, jam) ==
  LET ds == Announced(r, s, hidden, jam)
      said(e, q) == [e EXCEPT !.reported = q,
                              !.lt = IF q = 0 /\ e.quality = 0 THEN 0 ELSE @]
  IN [r EXCEPT !.seg[s].route = [d \in Dest |->
        IF d \in ds THEN said(@[d], ToAnnounce(r, s, d, hidden, jam)) ELSE @[d]]]

(* brosrv360(): what was reported counts as not reported, except what is   *)
(* to be taken back.                                                       *)
Hourly(r, s) ==
  [r EXCEPT !.seg[s].route = [d \in Dest |->
     IF d \notin r.known \/ (@[d].quality = 0 /\ @[d].reported # 0) THEN @[d]
     ELSE [@[d] EXCEPT !.reported = 0]]]

(* rx_inp_broadcast(): a report of s.                                      *)
RxReport(r, s, rep) ==
  LET ds == {d \in DOMAIN rep : d # r.id /\ ~IsCall(r, d, Virtual(r))}
      hops(d) == IF rep[d].lt = 0 THEN DEFAULT_LT ELSE rep[d].lt + 1
      q(d) == IF d = s THEN 1 ELSE IF hops(d) > MaxLt THEN 0 ELSE rep[d].q
      lt(d) == IF q(d) \in {0, HORIZONT} THEN 0 ELSE IF d = s THEN 1 ELSE hops(d)
  IN AddRoutes(r, s, [d \in ds |-> q(d)], [d \in ds |-> lt(d)])

(* fastlearn(): a node that sends datagrams over s is known, with the      *)
(* worst quality there is.                                                 *)
FastLearn(r, s, org) ==
  IF org \in r.known /\ r.seg[s].route[org].quality # 0 THEN r
  ELSE [AddRoute(r, s, org, LEARN, DEFAULT_LT)
          EXCEPT !.seg[s].route[org].timeout = ObcIni]
=============================================================================
