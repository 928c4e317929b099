------------------------------- MODULE L3Net --------------------------------
(***************************************************************************)
(* A network of nodes that run the INP routing protocol over level 2 links *)
(* (l3misc.c, l3netrom.c, l3rtt.c).  chan[n][m] holds what n has for m in  *)
(* its link block: level 2 delivers it in order as long as both ends have  *)
(* the link, keeps it when the link is reset, and drops it when n loses    *)
(* the link; it tells each end, separately, what became of the link.       *)
(***************************************************************************)
EXTENDS L3Tables

CONSTANTS
  Line,          \* the lines: pairs <<n, m>>, n calls m
  Rtt,           \* Rtt[n][m]: what n may measure on the line to m, in 10 ms
  Hidden,        \* nodes whose alias starts with '#': never announced
  Home,          \* Home[d]: the router that may have d as LOCAL segment
  TimLiv,        \* timliv, the time to live of a datagram (4..127)
  \* Bounds of the state space.
  ChanMax,       \* frames on their way
  MaxFail, MaxReset, MaxRestart, MaxLocal, MaxHourly, MaxMinutes, MaxJam,
  MaxMeasure, MaxCircuits, MaxKept, MaxUntidy,
  MaxDisturbances   \* all of these together

ASSUME LineAssumption ==
  /\ Line \subseteq Router \X Router
  /\ \A l \in Line : l[1] # l[2] /\ <<l[2], l[1]>> \notin Line
  /\ Hidden \subseteq Dest /\ Home \in [Local -> Router] /\ TimLiv \in 4 .. 127
ASSUME RttAssumption == \A n, m \in Router : Rtt[n][m] \subseteq Nat \ {0}
ASSUME BoundAssumption ==
  {ChanMax, MaxFail, MaxReset, MaxRestart, MaxLocal, MaxHourly, MaxMinutes,
   MaxJam, MaxMeasure, MaxCircuits, MaxKept, MaxUntidy, MaxDisturbances} \subseteq Nat

VARIABLES
  router,   \* router[n]: the tables of n
  chan,     \* chan[n][m]: frames from n to m
  txl,      \* txl[n]: l3txl, the destinations of the datagrams level 4 wants sent
  circuit,  \* circuit[n]: nodes that level 4 has circuits with
  used      \* how much of each bound is used up

vars == <<router, chan, txl, circuit, used>>

Neighbour(n) == {m \in Router : <<n, m>> \in Line \/ <<m, n>> \in Line}
LinkState(n, m) == router[n].seg[m].nbrl2l
Up(n, m) == LinkState(n, m) = "up"

-----------------------------------------------------------------------------
(* Frames: UA (the answer to a setup), a measurement that org started and  *)
(* what org reports in it (its quality, and whether it has measured at     *)
(* all), a report of routes, a datagram.                                   *)
UA == [kind |-> "ua"]
RttFrame(p, n) ==
  [kind |-> "rtt", org |-> n, srtt |-> p.quality, first |-> p.quality = 0 /\ p.my = 0]
ReportFrame(rep) == [kind |-> "rif", rep |-> rep]
DatagramFrame(org, dst, ttl) == [kind |-> "data", org |-> org, dst |-> dst, ttl |-> ttl]

(* toneig(): a frame for a neighbour without a link is thrown away; with   *)
(* one it waits in the link block, even if the partner has lost the link.  *)
Send(ch, n, m, f) ==
  IF LinkState(n, m) # "none" THEN [ch EXCEPT ![n][m] = Append(@, f)] ELSE ch

Room(n, m) == Len(chan[n][m]) < ChanMax

(* The new tables of n.  Each node that leaves the table goes through      *)
(* del_node(), which begins with destot(): the circuits with it fail.      *)
(* What level 4 has left in l3txl names no node (l2link is NULL), so       *)
(* destot() does not find it there.                                        *)
Become(n, r) ==
  /\ router' = [router EXCEPT ![n] = r]
  /\ circuit' = [circuit EXCEPT ![n] = @ \ (router[n].known \ r.known)]

Count(c) == used' = [used EXCEPT ![c] = @ + 1]

-----------------------------------------------------------------------------
(* Links.                                                                  *)

(* The answer of n to the call of m is under way, at the head of chan.     *)
Renewing(c) == c # <<>> /\ c[1].kind = "ua"

(* No report waits behind a measurement of its sender n.                   *)
Tidy(c, n) == \A i, k \in DOMAIN c :
  k < i /\ c[k].kind = "rtt" /\ c[k].org = n => c[i].kind # "rif"

From(c, i) == SubSeq(c, i, Len(c))

(* What is lost when n loses the link to m: what waits in its link block   *)
(* (clrlnk()), and the answer to its call.                                 *)
Unanswered(c) == IF Renewing(c) THEN Tail(c) ELSE c
Lost(ch, n, m) == [ch EXCEPT ![n][m] = <<>>, ![m][n] = Unanswered(ch[m][n])]

(* l3rtt_service() without a link: connbr().                               *)
Connect(n, m) ==
  /\ <<n, m>> \in Line
  /\ LinkState(n, m) = "none"
  /\ router' = [router EXCEPT ![n].seg[m].nbrl2l = "setup"]
  /\ UNCHANGED <<chan, txl, circuit, used>>

(* The SABM arrives: l2tol3(CONNT) at the neighbour, or l2tol3(LRESF) if   *)
(* it still has the old link: then netrom_status() runs twice.  What waits *)
(* in the link blocks is kept (reslnk()), except for a first part of it    *)
(* that has come already: disnbr() deletes it at m, and at n CONNT clears  *)
(* what it was good for.                                                   *)
Accept(n, m) ==
  /\ LinkState(n, m) = "setup"
  /\ ~Renewing(chan[m][n])
  /\ LET r == [router[m] EXCEPT !.seg[n].nbrl2l = "up"] IN
     IF Up(m, n) THEN \E once \in {LinkReset(r, n)} : Become(m, LinkReset(once, n))
     ELSE Become(m, LinkConnected(r, n))
  /\ \E i \in 1 .. Len(chan[n][m]) + 1, j \in 1 .. Len(chan[m][n]) + 1 :
       LET c == From(chan[n][m], i)
           b == From(chan[m][n], j)
           none == c = <<>> /\ b = <<>>
           tidy == Tidy(c, n) /\ Tidy(b, m)
       IN /\ none \/ used.kept < MaxKept
          /\ tidy \/ used.untidy < MaxUntidy
          /\ used' = [used EXCEPT !.kept = IF none THEN @ ELSE @ + 1,
                                  !.untidy = IF tidy THEN @ ELSE @ + 1]
          /\ chan' = [chan EXCEPT ![n][m] = c, ![m][n] = <<UA>> \o b]
  /\ UNCHANGED txl

(* A link goes down at one end: by failure, DISC or the timeout of a       *)
(* measurement (discnbp()), or because a setup is not answered.            *)
Fail(n, m) ==
  /\ LinkState(n, m) # "none"
  /\ used.fail < MaxFail
  /\ Become(n, LinkGone([router[n] EXCEPT !.seg[m].nbrl2l = "none"], m))
  /\ chan' = Lost(chan, n, m)
  /\ Count("fail")
  /\ UNCHANGED txl

(* The neighbour refuses a setup: l2tol3(BUSYF).  Every node that cannot   *)
(* be reached by datagrams any more is reported to level 4.                *)
Busy(n, m) ==
  /\ LinkState(n, m) = "setup" /\ LinkState(m, n) = "none"
  /\ used.fail < MaxFail
  /\ LET r == LinkGone([router[n] EXCEPT !.seg[m].nbrl2l = "none"], m) IN
     /\ router' = [router EXCEPT ![n] = r]
     /\ circuit' = [circuit EXCEPT ![n] = {d \in @ : IsCall(r, d, Datagram(r))}]
  /\ chan' = Lost(chan, n, m)
  /\ Count("fail")
  /\ UNCHANGED txl

(* The other end notices: no answers any more.                             *)
Notice(n, m) ==
  /\ Up(n, m) /\ m \in Router
  /\ LinkState(m, n) = "none"
  /\ Become(n, LinkGone([router[n] EXCEPT !.seg[m].nbrl2l = "none"], m))
  /\ chan' = Lost(chan, n, m)
  /\ UNCHANGED <<txl, used>>

(* Level 2 of n gets a UA that it did not ask for, and sends a SABM on the *)
(* open link: l2tol3(LREST).                                               *)
Reset(n, m) ==
  /\ Up(n, m) /\ Up(m, n)
  /\ used.reset < MaxReset
  /\ Become(n, LinkReset([router[n] EXCEPT !.seg[m].nbrl2l = "setup"], m))
  /\ Count("reset")
  /\ UNCHANGED <<chan, txl>>

(* The program of n starts anew: l3init(), and register_neigb() for each   *)
(* neighbour of its configuration.                                         *)
EmptyRouter(n) ==
  [id |-> n, known |-> {},
   seg |-> [s \in Dest |-> [EmptySegment EXCEPT !.used = s \in Neighbour(n)]]]

Restart(n) ==
  /\ used.restart < MaxRestart
  /\ router' = [router EXCEPT ![n] = EmptyRouter(n)]
  /\ chan' = [a \in Router |-> [b \in Router |->
                IF a = n THEN <<>>
                ELSE IF b = n THEN Unanswered(chan[a][b]) ELSE chan[a][b]]]
  /\ txl' = [txl EXCEPT ![n] = <<>>]
  /\ circuit' = [circuit EXCEPT ![n] = {}]
  /\ Count("restart")

-----------------------------------------------------------------------------
(* The clock.                                                              *)

(* l3rtt_service(): a measurement; the first one at once, the others every *)
(* three minutes.                                                          *)
StartMeasurement(n, m) ==
  LET p == router[n].seg[m] IN
  /\ Up(n, m) /\ ~p.rttstart /\ Room(n, m)
  /\ router' = [router EXCEPT ![n].seg[m].rttstart = TRUE]
  /\ chan' = Send(chan, n, m, RttFrame(p, n))
  /\ UNCHANGED <<txl, circuit>>

Measure(n, m) ==
  router[n].seg[m].my = 0 /\ StartMeasurement(n, m) /\ UNCHANGED used

Remeasure(n, m) ==
  /\ router[n].seg[m].my # 0 /\ used.measure < MaxMeasure
  /\ StartMeasurement(n, m)
  /\ Count("measure")

(* brosrv10() for segment m: what it takes to report to it.                *)
MayReport(n, m) ==
  LET p == router[n].seg[m] IN
  Up(n, m) /\ p.typ = "INP" /\ p.my # 0 /\ p.his # 0

Broadcast(n, m, jam) ==
  /\ MayReport(n, m) /\ Room(n, m)
  /\ jam => used.jam < MaxJam
  /\ Announced(router[n], m, Hidden, jam) # {}
  /\ used' = [used EXCEPT !.jam = IF jam THEN @ + 1 ELSE @]
  /\ router' = [router EXCEPT ![n] = InformPeer(@, m, Hidden, jam)]
  /\ chan' = Send(chan, n, m, ReportFrame(Report(router[n], m, Hidden, jam)))
  /\ UNCHANGED <<txl, circuit>>

(* brosrv360()                                                             *)
AnHour(n, m) ==
  /\ MayReport(n, m)
  /\ used.hourly < MaxHourly
  /\ router' = [router EXCEPT ![n] = Hourly(@, m)]
  /\ Count("hourly")
  /\ UNCHANGED <<chan, txl, circuit>>

(* brosrv60(); it is counted while no route is about to expire.            *)
Expiring(r) == \E s \in Segments(r) : \E d \in r.known :
  r.seg[s].route[d].timeout # 0 /\ r.seg[s].route[d].quality # 0

Minute(n) ==
  /\ Expiring(router[n]) \/ used.minutes < MaxMinutes
  /\ used' = [used EXCEPT !.minutes = IF Expiring(router[n]) THEN @ ELSE @ + 1]
  /\ router' = [router EXCEPT ![n].seg = [s \in Dest |->
                  IF @[s].used THEN AgeSegment(@[s], router[n].known) ELSE @[s]]]
  /\ UNCHANGED <<chan, txl, circuit>>

(* brosrv(), every ten seconds.                                            *)
Drop(n) ==
  /\ Unreachable(router[n]) # {}
  /\ Become(n, DropUnreachable(router[n]))
  /\ UNCHANGED <<chan, txl, used>>

(* The sysop registers or removes a LOCAL segment.                         *)
ToggleLocal(d) ==
  LET n == Home[d] IN
  /\ used.loc < MaxLocal
  /\ Become(n, IF router[n].seg[d].used THEN UnregisterLocal(router[n], d)
               ELSE RegisterLocal(router[n], d))
  /\ Count("loc")
  /\ UNCHANGED <<chan, txl>>

-----------------------------------------------------------------------------
(* Received frames.                                                        *)

(* A later measurement of n is on its way.                                 *)
Overtaken(ch, n, m) ==
  \E c \in {ch[n][m], ch[m][n]} : \E i \in DOMAIN c : c[i].kind = "rtt" /\ c[i].org = n

(* rx_l3rtt_frame(), own frame: the measurement is complete, if it is the  *)
(* one under way; frames keep their order, so the time stamp says whether  *)
(* another one was started since.  After the first one another frame tells *)
(* the neighbour at once.                                                  *)
RxOwnRtt(n, m, f, ch) == \E rtt \in Rtt[n][m] :
  LET p == [UpdatePeerQuality(router[n].seg[m], rtt, -1) EXCEPT !.rttstart = FALSE]
      r == AddRoute([router[n] EXCEPT !.seg[m] = p], m, m, 1, 1)
  IN IF ~router[n].seg[m].rttstart \/ Overtaken(ch, n, m)
     THEN Become(n, router[n]) /\ chan' = ch
     ELSE /\ Become(n, [r EXCEPT !.seg[m].rttstart = f.first])
          /\ chan' = IF f.first THEN Send(ch, n, m, RttFrame(r.seg[m], n)) ELSE ch

(* rx_l3rtt_frame(), the neighbour's frame: it goes back, and it may turn  *)
(* the segment into an INP segment; then n announces itself.               *)
RxRtt(n, m, f, ch) ==
  LET inp == router[n].seg[m].typ = "INP"
      r1 == IF inp THEN router[n] ELSE SetPeerTyp(router[n], m, "INP")
      r2 == IF f.srtt >= 5 THEN [r1 EXCEPT !.seg[m] = UpdatePeerQuality(@, -1, f.srtt)] ELSE r1
      back == Send(ch, n, m, f)
      own == ReportFrame([d \in {n} |-> [q |-> 1, lt |-> 1]])
  IN /\ Become(n, AddRoute(r2, m, m, 1, 1))
     /\ chan' = IF inp THEN back ELSE Send(back, n, m, own)

(* netrom_rx(): a datagram.  l4rx() gets what is for n; for another node   *)
(* it is sent on, unless its time is up, it is an own one or it would go   *)
(* back.  Level 4 may answer, and then has a circuit with the sender.      *)
RxDatagram(n, m, f, ch) ==
  LET r == IF f.org = n THEN router[n] ELSE FastLearn(router[n], m, f.org)
      ttl == f.ttl - 1
      next == BestSegment(r, f.dst, Datagram(r))
      forward ==
        /\ f.dst # n /\ IsCall(r, f.dst, Datagram(r))
        /\ ttl > 0 /\ f.org # n /\ next # m
      ours == f.dst = n /\ IsCall(r, f.org, Datagram(r))
  IN /\ router' = [router EXCEPT ![n] = r]
     /\ chan' = IF forward
                THEN Send(ch, n, next, DatagramFrame(f.org, f.dst, ttl)) ELSE ch
     /\ circuit' = IF ours THEN [circuit EXCEPT ![n] = @ \cup {f.org}] ELSE circuit
     /\ UNCHANGED txl

(* The UA of level 2, l2tol3(CONNT), or one round of the loop of l3rx().   *)
Receive(n, m) ==
  /\ chan[m][n] # <<>>
  /\ Up(m, n) /\ (Renewing(chan[m][n]) \/ Up(n, m))
  /\ LET f == Head(chan[m][n])
         ch == [chan EXCEPT ![m][n] = Tail(@)]
     IN \/ /\ f.kind = "ua"
           /\ Become(n, LinkConnected([router[n] EXCEPT !.seg[m].nbrl2l = "up"], m))
           /\ chan' = ch /\ UNCHANGED txl
        \/ /\ f.kind = "rtt"
           /\ IF f.org = n THEN RxOwnRtt(n, m, f, ch) ELSE RxRtt(n, m, f, ch)
           /\ UNCHANGED txl
        \/ /\ f.kind = "rif"
           /\ Become(n, RxReport(router[n], m, f.rep))
           /\ chan' = ch /\ UNCHANGED txl
        \/ f.kind = "data" /\ RxDatagram(n, m, f, ch)
  /\ UNCHANGED used

-----------------------------------------------------------------------------
(* Level 4 of n opens a circuit to d, which iscall() must find.            *)
Originate(n, d) ==
  /\ used.circuits < MaxCircuits
  /\ d \in Router \ {n} /\ IsCall(router[n], d, Datagram(router[n]))
  /\ circuit' = [circuit EXCEPT ![n] = @ \cup {d}]
  /\ txl' = [txl EXCEPT ![n] = Append(@, d)]
  /\ Count("circuits")
  /\ UNCHANGED <<router, chan>>

(* l3tx(): a datagram of level 4 goes out by the best way.  A node that is *)
(* not known any more has index -1: the bytes in front of the table are no *)
(* call sign, and the datagram is thrown away like any other without a way.*)
L3tx(n) ==
  /\ txl[n] # <<>>
  /\ LET d == Head(txl[n])
         segs == Datagram(router[n])
         next == BestSegment(router[n], d, segs)
     IN chan' = IF IsCall(router[n], d, segs)
                THEN Send(chan, n, next, DatagramFrame(n, d, TimLiv)) ELSE chan
  /\ txl' = [txl EXCEPT ![n] = Tail(@)]
  /\ UNCHANGED <<router, circuit, used>>

-----------------------------------------------------------------------------
Unused == [fail |-> 0, reset |-> 0, restart |-> 0, loc |-> 0, hourly |-> 0,
           minutes |-> 0, jam |-> 0, measure |-> 0, circuits |-> 0,
           kept |-> 0, untidy |-> 0]

Quiet ==
  /\ chan = [n \in Router |-> [m \in Router |-> <<>>]]
  /\ txl = [n \in Router |-> <<>>]
  /\ circuit = [n \in Router |-> {}]
  /\ used = Unused

Init == Quiet /\ router = [n \in Router |-> EmptyRouter(n)]

(* What the program does by itself, and what happens to it.                *)
Work ==
  \/ \E n, m \in Router :
       \/ Connect(n, m) \/ Accept(n, m) \/ Notice(n, m)
       \/ Measure(n, m) \/ Broadcast(n, m, FALSE) \/ Receive(n, m)
  \/ \E n \in Router : Minute(n) \/ Drop(n) \/ L3tx(n)

Disturbances ==
  used.fail + used.reset + used.restart + used.loc + used.hourly + used.measure
    + used.jam + used.circuits

Disturbance ==
  /\ Disturbances < MaxDisturbances
  /\ \/ \E n, m \in Router :
          \/ Fail(n, m) \/ Busy(n, m) \/ Reset(n, m) \/ AnHour(n, m) \/ Remeasure(n, m)
          \/ Broadcast(n, m, TRUE) \/ Originate(n, m)
     \/ \E n \in Router : Restart(n)
     \/ \E d \in Local : ToggleLocal(d)

Next == Work \/ Disturbance

(* The main loop goes on as long as there is something to do.  It need not *)
(* be fair to any single action: no order of the work goes on for ever.    *)
Fairness == WF_vars(Work)

Spec == Init /\ [][Next]_vars
FairSpec == Spec /\ Fairness

-----------------------------------------------------------------------------
IsReport(f) ==
  f.kind = "rif" => /\ DOMAIN f.rep \subseteq Dest
                    /\ \A d \in DOMAIN f.rep : f.rep[d] \in [q : 0 .. DIRTY, lt : Nat]

(* Every variable has its type (l3local.h, l3tab.c).                       *)
TypeOK ==
  /\ router \in [Router -> [id : Router, known : SUBSET Dest, seg : [Dest -> Segment]]]
  /\ \A n, m \in Router : \A i \in DOMAIN chan[n][m] : IsReport(chan[n][m][i])
  /\ txl \in [Router -> Seq(Router)]
  /\ circuit \in [Router -> SUBSET Router]
  /\ used \in [DOMAIN Unused -> Nat]

(* num_routes of a segment is the number of its routes: update_route()     *)
(* keeps it by comparing old and new quality, while clear_peer(),          *)
(* reset_peer() and brosrv60() change routes on the side (l3tab.c:414).    *)
NumRoutesAgree ==
  \A n \in Router : \A s \in Dest :
    LET p == router[n].seg[s] IN
    p.num = Cardinality({d \in Dest : p.route[d].quality # 0})

(* There is no more to do for the segment to m: there is no link, or one   *)
(* to which no report is due.                                              *)
Finished(n, m) ==
  \/ LinkState(n, m) = "none"
  \/ MayReport(n, m) /\ Announced(router[n], m, Hidden, FALSE) = {}

(* Level 4 keeps no circuit with a node that nothing leads to: whatever    *)
(* took its ways, a report, a timeout, a reset or the end of a link, once  *)
(* the neighbours have been told, the node is deleted, and level 4 has     *)
(* heard of it (l3tab.c:344, :376).                                        *)
CircuitsReachable ==
  \A n \in Router :
    /\ \A m \in Neighbour(n) : Finished(n, m)
    /\ Unreachable(router[n]) = {}
    => \A d \in circuit[n] : IsCall(router[n], d, Datagram(router[n]))

(* A route that nothing limits in time is withdrawn by whoever announced   *)
(* it: as long as m has such a route over n, n remembers that it reported  *)
(* it, or there is something under way that tells m (l3netrom.c:812).      *)
Withdrawable ==
  \A n, m \in Router : \A d \in Dest \ {n} :
    LET e == router[m].seg[n].route[d] IN
    /\ Up(n, m) /\ Up(m, n) /\ e.quality # 0 /\ e.timeout = 0
    => \/ router[n].seg[m].route[d].reported # 0
       \/ \E i \in DOMAIN chan[n][m] :
            LET f == chan[n][m][i] IN f.kind = "rif" /\ d \in DOMAIN f.rep

(* Nothing more to say for n: every link is up and measured, nothing is    *)
(* on its way to or from it, and no report of it is due.                   *)
Told(n, m) ==
  MayReport(n, m) /\ chan[n][m] = <<>> /\ Announced(router[n], m, Hidden, FALSE) = {}

Settled ==
  \A n \in Router :
    /\ \A m \in Neighbour(n) : Told(n, m) /\ ~router[n].seg[m].rttstart
    /\ ~Expiring(router[n]) /\ Unreachable(router[n]) = {}

(* What n may know of: the other routers and registered LOCALs, hidden     *)
(* ones only next to them.                                                 *)
Visible(n, d) ==
  LET home == IF d \in Local THEN Home[d] ELSE d IN
  /\ d # n
  /\ d \in Local => router[home].seg[d].used
  /\ d \in Hidden => IF d \in Local THEN n = home ELSE n \in Neighbour(d)

(* Once everything is said, each node knows what there is and nothing      *)
(* else, and its next hop is nearer to the goal than itself: there are no  *)
(* loops, whatever was lost or came out of order before.  (The filters of  *)
(* inform_peer(), l3netrom.c:806, leave out most changes.)                 *)
SettledRight ==
  Settled => \A n \in Router : \A d \in Dest :
    LET r == router[n]
        best == Best(r, d, Segments(r))
        next == best.seg
    IN /\ d \in r.known <=> Visible(n, d)
       /\ Visible(n, d) =>
            /\ best.q # 0
            /\ \/ next = d
               \/ /\ next \in Router
                  /\ BestQuality(router[next], d, Segments(router[next]))
                       < best.q

(* A neighbour never believes a node to be nearer to a goal than it is,    *)
(* once it has heard all reports: "Verschlechterungen muessen immer sofort *)
(* uebertragen werden!" and "Ist die neue Laufzeit groesser als der        *)
(* Nachbar wuenscht, wird das Ziel abgemeldet" (l3netrom.c:842, 852).      *)
WorseIsTold ==
  \A n, m \in Router : Told(n, m) => \A d \in Dest \ {n} :
    LET e == router[m].seg[n].route[d]
        best == BestQuality(router[n], d, Segments(router[n]))
    IN e.quality # 0 /\ e.timeout = 0 => best # 0 /\ best <= e.quality

(* When nothing disturbs the network any more, it settles for good.        *)
Converges == <>[]Settled
=============================================================================
