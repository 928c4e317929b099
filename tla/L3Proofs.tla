------------------------------ MODULE L3Proofs ------------------------------
(***************************************************************************)
(* Proofs about L3Net, for every value of its constants: any network of    *)
(* routers and LOCAL stations, any measurements, any losses of a link.     *)
(*                                                                         *)
(* The proofs have two parts, each with its inductive invariant.           *)
(*                                                                         *)
(* Kept says of the tables, the frames and the circuits what NumRoutes and *)
(* CircuitsReachable need: the shape of the records, where the names in    *)
(* them come from, and where a segment may lead (Ways): nowhere without a  *)
(* link, so that what is left of a route is announced or taken back.       *)
(*                                                                         *)
(* Linked adds Web to it for what a node and its neighbour know of each    *)
(* other: the tables of each node are Sound, and LinkInv relates the two   *)
(* segments of a link with the frames on their way between them.  It holds *)
(* for Calm behaviours.  Calm names the three steps after which a node may *)
(* have forgotten a report that its neighbour still believes; the configs  *)
(* L3Hourly, L3KeptReport and L3LocalBack show one behaviour of each.      *)
(***************************************************************************)
EXTENDS L3Net, FiniteSetTheorems, SequenceTheorems, WellFoundedInduction, TLAPS

-----------------------------------------------------------------------------
(* Tables: r is a record with these fields.                                *)
IsRec(r, fields) == r = [f \in fields |-> r[f]]

EntryFields == {"quality", "reported", "timeout", "lt"}
SegmentFields ==
  {"used", "typ", "nbrl2l", "quality", "my", "his", "num", "rttstart", "route"}
RouterFields == {"id", "known", "seg"}

IsRoute(route) ==
  /\ route = [d \in Dest |-> route[d]]
  /\ \A d \in Dest : IsRec(route[d], EntryFields)

(* The nodes that a segment has a route to.                                *)
Led(route) == {d \in Dest : route[d].quality # 0}

(* A segment whose num_routes is right.                                    *)
Counted(p) ==
  /\ IsRec(p, SegmentFields)
  /\ IsRoute(p.route)
  /\ p.num = Cardinality(Led(p.route))

(* The tables of a node: it knows nodes only, and counts its routes.       *)
IsRouter(r) ==
  /\ IsRec(r, RouterFields)
  /\ r.known \subseteq Dest
  /\ r.seg = [s \in Dest |-> r.seg[s]]
  /\ \A s \in Dest : Counted(r.seg[s])

LEMMA FiniteDest == IsFiniteSet(Dest)
BY NamesAssumption, FS_Union DEF Dest

LEMMA LedFinite ==
  ASSUME NEW route
  PROVE  IsFiniteSet(Led(route)) /\ Cardinality(Led(route)) \in Nat
<1>1. Led(route) \subseteq Dest BY DEF Led
<1> QED BY <1>1, FiniteDest, FS_Subset, FS_CardinalityType

(* A set that loses L and wins W.                                          *)
LEMMA CardinalityOfChange ==
  ASSUME NEW S, NEW L, NEW W, IsFiniteSet(S), IsFiniteSet(W),
         L \subseteq S, W \cap S = {}
  PROVE  Cardinality((S \ L) \cup W) = Cardinality(S) - Cardinality(L) + Cardinality(W)
<1>1. IsFiniteSet(L) /\ IsFiniteSet(S \ L) BY FS_Subset
<1>2. Cardinality(S) \in Nat /\ Cardinality(L) \in Nat /\ Cardinality(W) \in Nat
      /\ Cardinality(S \ L) \in Nat /\ Cardinality({}) = 0
  BY <1>1, FS_CardinalityType, FS_EmptySet
<1>3. Cardinality(S) = Cardinality(S \ L) + Cardinality(L)
  <2>1. (S \ L) \cup L = S /\ (S \ L) \cap L = {} OBVIOUS
  <2>2. Cardinality((S \ L) \cup L)
          = Cardinality(S \ L) + Cardinality(L) - Cardinality((S \ L) \cap L)
    BY <1>1, FS_Union
  <2>3. Cardinality(S) = Cardinality(S \ L) + Cardinality(L) - Cardinality({})
    BY <2>1, <2>2, Zenon
  <2> QED BY <1>2, <2>3
<1>4. Cardinality((S \ L) \cup W) = Cardinality(S \ L) + Cardinality(W)
  <2>1. (S \ L) \cap W = {} OBVIOUS
  <2>2. Cardinality((S \ L) \cup W)
          = Cardinality(S \ L) + Cardinality(W) - Cardinality((S \ L) \cap W)
    BY <1>1, FS_Union
  <2>3. Cardinality((S \ L) \cup W) = Cardinality(S \ L) + Cardinality(W) - Cardinality({})
    BY <2>1, <2>2, Zenon
  <2> QED BY <1>2, <2>3
<1> QED BY <1>2, <1>3, <1>4

LEMMA SetSegment ==
  ASSUME NEW r, IsRouter(r), NEW s \in Dest, NEW p, Counted(p)
  PROVE  IsRouter([r EXCEPT !.seg[s] = p])
BY DEF IsRouter, IsRec, RouterFields

(* What is done to routes without a change of quality.                     *)
LEMMA OtherRoutes ==
  ASSUME NEW p, Counted(p), NEW route, IsRoute(route),
         \A d \in Dest : route[d].quality = p.route[d].quality
  PROVE  Counted([p EXCEPT !.route = route])
<1>1. Led(route) = Led(p.route) BY DEF Led
<1>2. [p EXCEPT !.route = route].route = route /\ [p EXCEPT !.route = route].num = p.num
  BY DEF Counted, IsRec, SegmentFields
<1>3. IsRec([p EXCEPT !.route = route], SegmentFields) BY DEF Counted, IsRec, SegmentFields
<1> QED BY <1>1, <1>2, <1>3 DEF Counted

(* update_route() counts right, whatever quality it is given.              *)
LEMMA UpdateRoutesCounted ==
  ASSUME NEW p, Counted(p), NEW ds \in SUBSET Dest, NEW q
  PROVE  Counted(UpdateRoutes(p, ds, q))
<1> DEFINE new(d) == IF q[d] >= HORIZONT THEN 0 ELSE q[d]
<1> DEFINE lost == {d \in ds : p.route[d].quality # 0 /\ new(d) = 0}
<1> DEFINE won == {d \in ds : p.route[d].quality = 0 /\ new(d) # 0}
<1> DEFINE entry(d) == [p.route[d] EXCEPT !.quality = new(d),
                                          !.timeout = IF Secured(p) THEN 0 ELSE ObcIni]
<1> DEFINE route == [d \in Dest |-> IF d \in ds THEN entry(d) ELSE p.route[d]]
<1> DEFINE num == p.num - Cardinality(lost) + Cardinality(won)
<1>1. UpdateRoutes(p, ds, q) = [p EXCEPT !.num = num, !.route = route]
  BY DEF UpdateRoutes
<1>2. ASSUME NEW d \in Dest
      PROVE  /\ IsRec(entry(d), EntryFields) /\ entry(d).quality = new(d)
  <2>1. IsRec(p.route[d], EntryFields) BY DEF Counted, IsRoute
  <2> HIDE DEF new
  <2> QED BY <2>1 DEF IsRec, EntryFields
<1> HIDE DEF new
<1>3. IsRoute(route)
  <2>1. \A d \in Dest : IsRec(p.route[d], EntryFields) BY DEF Counted, IsRoute
  <2> HIDE DEF entry
  <2> QED BY <1>2, <2>1 DEF IsRoute
<1>4. Led(route) = (Led(p.route) \ lost) \cup won
  <2> HIDE DEF entry
  <2>1. \A d \in Dest : route[d].quality = IF d \in ds THEN new(d) ELSE p.route[d].quality
    BY <1>2
  <2> HIDE DEF route
  <2> QED BY <2>1 DEF Led
<1> HIDE DEF route
<1>5. num = Cardinality(Led(route))
  <2>1. IsFiniteSet(won) BY FiniteDest, FS_Subset
  <2>2. lost \subseteq Led(p.route) /\ won \cap Led(p.route) = {} BY DEF Led
  <2>3. p.num = Cardinality(Led(p.route)) BY DEF Counted
  <2> HIDE DEF lost, won
  <2> QED BY <1>4, <2>1, <2>2, <2>3, LedFinite, CardinalityOfChange
<1> HIDE DEF num
<1>6. IsRec(p, SegmentFields) BY DEF Counted
<1> DEFINE u == [p EXCEPT !.num = num, !.route = route]
<1>7. IsRec(u, SegmentFields) /\ u.num = num /\ u.route = route
  BY <1>6 DEF IsRec, SegmentFields
<1> HIDE DEF u
<1>8. Counted(u) BY <1>3, <1>5, <1>7 DEF Counted
<1> QED BY <1>1, <1>8 DEF u

(* The other operations on a segment keep its number of routes right.      *)
LEMMA SetField ==
  ASSUME NEW p, Counted(p), NEW f \in SegmentFields \ {"num", "route"}, NEW v
  PROVE  Counted([p EXCEPT ![f] = v])
<1>1. IsRec([p EXCEPT ![f] = v], SegmentFields) BY DEF Counted, IsRec
<1>2. /\ [p EXCEPT ![f] = v].route = p.route
      /\ [p EXCEPT ![f] = v].num = p.num
  BY DEF Counted, IsRec, SegmentFields
<1> QED BY <1>1, <1>2 DEF Counted

LEMMA SetLtCounted ==
  ASSUME NEW p, Counted(p), NEW ds, NEW lt
  PROVE  Counted(SetLt(p, ds, lt))
<1> DEFINE route ==
      [d \in Dest |-> IF d \in ds THEN [p.route[d] EXCEPT !.lt = lt[d]] ELSE p.route[d]]
<1>1. SetLt(p, ds, lt) = [p EXCEPT !.route = route] BY DEF SetLt
<1>2. \A d \in Dest : /\ IsRec(route[d], EntryFields)
                      /\ route[d].quality = p.route[d].quality
  BY DEF Counted, IsRoute, IsRec, EntryFields
<1>3. IsRoute(route) BY <1>2 DEF IsRoute
<1> HIDE DEF route
<1> QED BY <1>1, <1>2, <1>3, OtherRoutes

LEMMA UpdatePeerQualityCounted ==
  ASSUME NEW p, Counted(p), NEW my, NEW his
  PROVE  Counted(UpdatePeerQuality(p, my, his))
<1> DEFINE h == IF his = -1 THEN p.his ELSE IF his > RTT_MAX THEN 0 ELSE his
<1> DEFINE m == IF my = -1 THEN p.my ELSE IF my = 0 THEN 0 ELSE Smooth(p.my, my)
<1> HIDE DEF h, m
<1>1. UpdatePeerQuality(p, my, his)
        = [[[p EXCEPT !.his = h] EXCEPT !.my = m] EXCEPT !.quality = m]
  BY DEF UpdatePeerQuality, h, m
<1>2. Counted([p EXCEPT !.his = h]) BY SetField DEF SegmentFields
<1>3. Counted([[p EXCEPT !.his = h] EXCEPT !.my = m]) BY <1>2, SetField DEF SegmentFields
<1>4. Counted([[[p EXCEPT !.his = h] EXCEPT !.my = m] EXCEPT !.quality = m])
  BY <1>3, SetField DEF SegmentFields
<1> QED BY <1>1, <1>4

LEMMA AgeSegmentCounted ==
  ASSUME NEW p, Counted(p), NEW known \in SUBSET Dest
  PROVE  Counted(AgeSegment(p, known))
<1> DEFINE far == {d \in known : p.route[d].lt > MaxLt}
<1> DEFINE p1 == UpdateRoutes(p, far, [d \in far |-> 0])
<1> DEFINE over == {d \in known : p1.route[d].timeout = 1}
<1> DEFINE p2 == UpdateRoutes(p1, over, [d \in over |-> 0])
<1> DEFINE older(e) == IF e.timeout > 0 THEN [e EXCEPT !.timeout = e.timeout - 1]
                       ELSE IF Secured(p) THEN e ELSE [e EXCEPT !.timeout = ObcIni]
<1> DEFINE entry(d) == IF d \in known \ over THEN older(p2.route[d]) ELSE p2.route[d]
<1> DEFINE route == [d \in Dest |-> entry(d)]
<1>1. Counted(p1) BY UpdateRoutesCounted
<1>2. Counted(p2) BY <1>1, UpdateRoutesCounted
<1>3. AgeSegment(p, known) = [p2 EXCEPT !.route = route] BY DEF AgeSegment
<1> HIDE DEF p1, p2, over, far
<1>4. \A d \in Dest : /\ IsRec(entry(d), EntryFields)
                      /\ entry(d).quality = p2.route[d].quality
  <2>1. ASSUME NEW e, IsRec(e, EntryFields)
        PROVE  IsRec(older(e), EntryFields) /\ older(e).quality = e.quality
    BY <2>1 DEF IsRec, EntryFields
  <2>2. \A d \in Dest : IsRec(p2.route[d], EntryFields) BY <1>2 DEF Counted, IsRoute
  <2> HIDE DEF older
  <2> QED BY <2>1, <2>2
<1> HIDE DEF entry
<1>5. IsRoute(route) BY <1>4 DEF IsRoute
<1>6. \A d \in Dest : route[d].quality = p2.route[d].quality BY <1>4
<1> HIDE DEF route
<1> QED BY <1>2, <1>3, <1>5, <1>6, OtherRoutes

LEMMA EmptyCounted == Counted(EmptySegment)
<1> DEFINE zero == NoRoutes
<1>1. IsRoute(zero) BY DEF IsRoute, NoRoutes, NoRoute, IsRec, EntryFields
<1>2. Led(zero) = {} BY DEF Led, NoRoutes, NoRoute
<1>3. Cardinality(Led(zero)) = 0 BY <1>2, FS_EmptySet
<1>4. EmptySegment.num = 0 /\ EmptySegment.route = zero BY DEF EmptySegment
<1>5. IsRec(EmptySegment, SegmentFields) BY DEF EmptySegment, IsRec, SegmentFields
<1> QED BY <1>1, <1>3, <1>4, <1>5 DEF Counted

-----------------------------------------------------------------------------
(* The operations on the tables of a node keep them well-formed.  Where    *)
(* the circuits need it, they also keep the known nodes.                   *)

LEMMA SetRoutes ==
  ASSUME NEW r, IsRouter(r), NEW s \in Dest, NEW route, IsRoute(route),
         \A d \in Dest : route[d].quality = r.seg[s].route[d].quality
  PROVE  IsRouter([r EXCEPT !.seg[s].route = route])
<1>1. Counted(r.seg[s]) BY DEF IsRouter
<1>2. Counted([r.seg[s] EXCEPT !.route = route]) BY <1>1, OtherRoutes
<1> QED BY <1>2, SetSegment

LEMMA SetSegmentField ==
  ASSUME NEW r, IsRouter(r), NEW s \in Dest,
         NEW f \in SegmentFields \ {"num", "route"}, NEW v
  PROVE  IsRouter([r EXCEPT !.seg[s] = [r.seg[s] EXCEPT ![f] = v]])
<1>1. Counted(r.seg[s]) BY DEF IsRouter
<1>2. Counted([r.seg[s] EXCEPT ![f] = v]) BY <1>1, SetField
<1> QED BY <1>2, SetSegment

LEMMA SetKnown ==
  ASSUME NEW r, IsRouter(r), NEW known \in SUBSET Dest
  PROVE  IsRouter([r EXCEPT !.known = known])
BY DEF IsRouter, IsRec, RouterFields

LEMMA AddRoutesRouter ==
  ASSUME NEW r, IsRouter(r), NEW s \in Dest, NEW q, DOMAIN q \subseteq Dest, NEW lt
  PROVE  IsRouter(AddRoutes(r, s, q, lt)) /\ r.known \subseteq AddRoutes(r, s, q, lt).known
<1> DEFINE ds == {d \in DOMAIN q : d \in r.known \/ q[d] # 0}
<1> DEFINE p == SetLt(UpdateRoutes(r.seg[s], ds, q), ds, lt)
<1> DEFINE r1 == [r EXCEPT !.known = r.known \cup ds]
<1>1. AddRoutes(r, s, q, lt) = [r1 EXCEPT !.seg[s] = p] BY DEF AddRoutes
<1>2. r.known \cup ds \in SUBSET Dest BY DEF IsRouter
<1> HIDE DEF ds
<1>3. IsRouter(r1) BY <1>2, SetKnown
<1>4. Counted(r.seg[s]) BY DEF IsRouter
<1>5. ds \in SUBSET Dest BY <1>2
<1>6. Counted(p) BY <1>4, <1>5, UpdateRoutesCounted, SetLtCounted
<1> HIDE DEF p
<1>7. IsRouter([r1 EXCEPT !.seg[s] = p]) BY <1>3, <1>6, SetSegment
<1>8. [r1 EXCEPT !.seg[s] = p].known = r.known \cup ds
  BY DEF IsRouter, IsRec, RouterFields
<1> QED BY <1>1, <1>7, <1>8

LEMMA AddRouteRouter ==
  ASSUME NEW r, IsRouter(r), NEW s \in Dest, NEW d \in Dest, NEW q, NEW lt
  PROVE  IsRouter(AddRoute(r, s, d, q, lt)) /\ r.known \subseteq AddRoute(r, s, d, q, lt).known
BY AddRoutesRouter DEF AddRoute

LEMMA DropUnreachableRouter ==
  ASSUME NEW r, IsRouter(r)
  PROVE  IsRouter(DropUnreachable(r))
<1>1. r.known \ Unreachable(r) \in SUBSET Dest BY DEF IsRouter
<1> QED BY <1>1, SetKnown DEF DropUnreachable

LEMMA ClearPeerRouter ==
  ASSUME NEW r, IsRouter(r), NEW s \in Dest
  PROVE  IsRouter(ClearPeer(r, s))
<1> DEFINE p == [r.seg[s] EXCEPT !.route = NoRoutes, !.num = 0]
<1>1. ClearRoutes(r, s) = [r EXCEPT !.seg[s] = p] BY DEF ClearRoutes
<1>2. Counted(r.seg[s]) BY DEF IsRouter
<1>3. p.route = NoRoutes /\ p.num = 0 /\ IsRec(p, SegmentFields)
  BY <1>2 DEF Counted, IsRec, SegmentFields
<1>4. IsRoute(NoRoutes) /\ Cardinality(Led(NoRoutes)) = 0
  BY EmptyCounted DEF Counted, EmptySegment
<1> HIDE DEF p
<1>5. Counted(p) BY <1>3, <1>4 DEF Counted
<1>6. IsRouter(ClearRoutes(r, s)) BY <1>1, <1>5, SetSegment
<1> QED BY <1>6, DropUnreachableRouter DEF ClearPeer

LEMMA SetPeerTypRouter ==
  ASSUME NEW r, IsRouter(r), NEW s \in Dest, NEW typ
  PROVE  IsRouter(SetPeerTyp(r, s, typ))
<1> DEFINE route == IF typ = "INP"
      THEN [d \in Dest |-> IF d \in r.known THEN [r.seg[s].route[d] EXCEPT !.reported = 0]
                           ELSE r.seg[s].route[d]]
      ELSE r.seg[s].route
<1> DEFINE r1 == [r EXCEPT !.seg[s] = [r.seg[s] EXCEPT !.typ = typ]]
<1>1. Counted(r.seg[s]) BY DEF IsRouter
<1>2. IsRouter(r1) BY SetSegmentField DEF SegmentFields
<1>3. \A d \in Dest : /\ IsRec(route[d], EntryFields)
                      /\ route[d].quality = r.seg[s].route[d].quality
  BY <1>1 DEF Counted, IsRoute, IsRec, EntryFields
<1>4. IsRoute(route) BY <1>1, <1>3 DEF Counted, IsRoute
<1>5. r1.seg[s].route = r.seg[s].route
  BY <1>1 DEF IsRouter, Counted, IsRec, RouterFields, SegmentFields
<1>6. SetPeerTyp(r, s, typ) = [r1 EXCEPT !.seg[s].route = route]
  BY <1>1 DEF SetPeerTyp, IsRouter, Counted, IsRec, RouterFields, SegmentFields
<1> HIDE DEF route, r1
<1> QED BY <1>2, <1>3, <1>4, <1>5, <1>6, SetRoutes

LEMMA UpdatePeerQualityRouter ==
  ASSUME NEW r, IsRouter(r), NEW s \in Dest, NEW my, NEW his
  PROVE  IsRouter([r EXCEPT !.seg[s] = UpdatePeerQuality(@, my, his)])
<1>1. Counted(r.seg[s]) BY DEF IsRouter
<1>2. Counted(UpdatePeerQuality(r.seg[s], my, his)) BY <1>1, UpdatePeerQualityCounted
<1> QED BY <1>2, SetSegment

LEMMA ResetPeerRouter ==
  ASSUME NEW r, IsRouter(r), NEW s \in Dest
  PROVE  IsRouter(ResetPeer(r, s))
<1> DEFINE r1 == IF r.seg[s].typ = "INP" THEN SetPeerTyp(r, s, "NETROM") ELSE r
<1> DEFINE e == r1.seg[s].route
<1> DEFINE short(d) ==
      [e[d] EXCEPT !.reported = 0,
                   !.timeout = IF e[d].quality # 0 /\ (e[d].timeout = 0 \/ e[d].timeout > ResetTimeout)
                               THEN ResetTimeout ELSE e[d].timeout]
<1> DEFINE route == [d \in Dest |-> IF d \in r.known THEN short(d) ELSE e[d]]
<1> DEFINE r2 == [r1 EXCEPT !.seg[s].route = route]
<1>1. IsRouter(r1) BY SetPeerTypRouter
<1>2. ResetPeer(r, s) = DropUnreachable([r2 EXCEPT !.seg[s] = UpdatePeerQuality(@, 0, -1)])
  BY DEF ResetPeer
<1> HIDE DEF r1
<1>3. \A d \in Dest : IsRec(e[d], EntryFields) BY <1>1 DEF IsRouter, Counted, IsRoute
<1> HIDE DEF e
<1>4. \A d \in Dest : /\ IsRec(short(d), EntryFields)
                      /\ short(d).quality = e[d].quality
  BY <1>3 DEF IsRec, EntryFields
<1> HIDE DEF short
<1>5. IsRoute(route) /\ \A d \in Dest : route[d].quality = e[d].quality
  BY <1>3, <1>4 DEF IsRoute
<1> HIDE DEF route
<1>6. IsRouter(r2) BY <1>1, <1>5, SetRoutes DEF e
<1> HIDE DEF r2
<1> QED BY <1>2, <1>6, UpdatePeerQualityRouter, DropUnreachableRouter

LEMMA NoMeasurementRouter ==
  ASSUME NEW r, IsRouter(r), NEW s \in Dest
  PROVE  IsRouter(NoMeasurement(r, s))
<1>1. IsRouter([r EXCEPT !.seg[s].rttstart = FALSE]) BY SetSegmentField DEF SegmentFields
<1> QED BY <1>1, SetPeerTypRouter DEF NoMeasurement

LEMMA LinkRouter ==
  ASSUME NEW r, IsRouter(r), NEW s \in Dest
  PROVE  /\ IsRouter(LinkConnected(r, s))
         /\ IsRouter(LinkReset(r, s))
         /\ IsRouter(LinkGone(r, s))
<1>1. IsRouter(LinkConnected(r, s)) BY ClearPeerRouter, NoMeasurementRouter DEF LinkConnected
<1>2. IsRouter(LinkReset(r, s)) BY ResetPeerRouter, NoMeasurementRouter DEF LinkReset
<1>3. IsRouter(LinkGone(r, s))
  BY UpdatePeerQualityRouter, ClearPeerRouter, NoMeasurementRouter DEF LinkGone
<1> QED BY <1>1, <1>2, <1>3

LEMMA LocalRouter ==
  ASSUME NEW r, IsRouter(r), NEW s \in Dest
  PROVE  IsRouter(RegisterLocal(r, s)) /\ IsRouter(UnregisterLocal(r, s))
<1> DEFINE p == [[EmptySegment EXCEPT !.used = TRUE] EXCEPT !.typ = "LOCAL"]
<1> DEFINE r1 == [r EXCEPT !.seg[s] = p]
<1> DEFINE r2 == AddRoute(r1, s, s, LocalRtt, 1)
<1>1. Counted([EmptySegment EXCEPT !.used = TRUE])
  BY EmptyCounted, SetField DEF SegmentFields
<1>2. Counted(p) BY <1>1, SetField DEF SegmentFields
<1>3. p = [EmptySegment EXCEPT !.used = TRUE, !.typ = "LOCAL"] OBVIOUS
<1> HIDE DEF p
<1>4. IsRouter(r1) BY <1>2, SetSegment
<1> HIDE DEF r1
<1>5. IsRouter(r2) BY <1>4, AddRouteRouter
<1>6. RegisterLocal(r, s) = [r2 EXCEPT !.seg[s].quality = 1]
  BY <1>3 DEF RegisterLocal, r1
<1> HIDE DEF r2
<1>7. IsRouter(RegisterLocal(r, s)) BY <1>5, <1>6, SetSegmentField DEF SegmentFields
<1>8. IsRouter(UnregisterLocal(r, s))
  BY ClearPeerRouter, EmptyCounted, SetSegment DEF UnregisterLocal
<1> QED BY <1>7, <1>8

LEMMA InformPeerRouter ==
  ASSUME NEW r, IsRouter(r), NEW s \in Dest, NEW hidden, NEW jam
  PROVE  IsRouter(InformPeer(r, s, hidden, jam)) /\ InformPeer(r, s, hidden, jam).known = r.known
<1> DEFINE ds == Announced(r, s, hidden, jam)
<1> DEFINE said(e, q) == [e EXCEPT !.reported = q,
                                   !.lt = IF q = 0 /\ e.quality = 0 THEN 0 ELSE e.lt]
<1> DEFINE entry(d) == IF d \in ds THEN said(r.seg[s].route[d], ToAnnounce(r, s, d, hidden, jam))
                       ELSE r.seg[s].route[d]
<1> DEFINE route == [d \in Dest |-> entry(d)]
<1>1. InformPeer(r, s, hidden, jam) = [r EXCEPT !.seg[s].route = route] BY DEF InformPeer
<1> HIDE DEF ds
<1>2. Counted(r.seg[s]) BY DEF IsRouter
<1>3. \A d \in Dest : /\ IsRec(entry(d), EntryFields)
                      /\ entry(d).quality = r.seg[s].route[d].quality
  BY <1>2 DEF Counted, IsRoute, IsRec, EntryFields
<1> HIDE DEF entry
<1>4. IsRoute(route) /\ \A d \in Dest : route[d].quality = r.seg[s].route[d].quality
  BY <1>3 DEF IsRoute
<1> HIDE DEF route
<1>5. [r EXCEPT !.seg[s].route = route].known = r.known
  BY DEF IsRouter, IsRec, RouterFields
<1> QED BY <1>1, <1>4, <1>5, SetRoutes

LEMMA HourlyRouter ==
  ASSUME NEW r, IsRouter(r), NEW s \in Dest
  PROVE  IsRouter(Hourly(r, s)) /\ Hourly(r, s).known = r.known
<1> DEFINE e == r.seg[s].route
<1> DEFINE route == [d \in Dest |->
      IF d \notin r.known \/ (e[d].quality = 0 /\ e[d].reported # 0) THEN e[d]
      ELSE [e[d] EXCEPT !.reported = 0]]
<1>1. Hourly(r, s) = [r EXCEPT !.seg[s].route = route] BY DEF Hourly
<1>2. Counted(r.seg[s]) BY DEF IsRouter
<1>3. \A d \in Dest : /\ IsRec(route[d], EntryFields)
                      /\ route[d].quality = r.seg[s].route[d].quality
  BY <1>2 DEF Counted, IsRoute, IsRec, EntryFields
<1>4. IsRoute(route) BY <1>3 DEF IsRoute
<1> HIDE DEF route
<1>5. [r EXCEPT !.seg[s].route = route].known = r.known
  BY DEF IsRouter, IsRec, RouterFields
<1> QED BY <1>1, <1>3, <1>4, <1>5, SetRoutes

LEMMA RxReportRouter ==
  ASSUME NEW r, IsRouter(r), NEW s \in Dest, NEW rep, DOMAIN rep \subseteq Dest
  PROVE  IsRouter(RxReport(r, s, rep)) /\ r.known \subseteq RxReport(r, s, rep).known
<1> DEFINE ds == {d \in DOMAIN rep : d # r.id /\ ~IsCall(r, d, Virtual(r))}
<1>1. \A f : DOMAIN [d \in ds |-> f[d]] \subseteq Dest OBVIOUS
<1>2. ds \subseteq Dest OBVIOUS
<1> QED BY <1>2, AddRoutesRouter DEF RxReport

LEMMA FastLearnRouter ==
  ASSUME NEW r, IsRouter(r), NEW s \in Dest, NEW org \in Dest
  PROVE  IsRouter(FastLearn(r, s, org)) /\ r.known \subseteq FastLearn(r, s, org).known
<1> DEFINE r1 == AddRoute(r, s, org, LEARN, DEFAULT_LT)
<1> DEFINE e == r1.seg[s].route
<1> DEFINE route == [e EXCEPT ![org] = [e[org] EXCEPT !.timeout = ObcIni]]
<1> DEFINE r2 == [r1 EXCEPT !.seg[s].route = route]
<1>1. IsRouter(r1) /\ r.known \subseteq r1.known BY AddRouteRouter
<1>2. FastLearn(r, s, org) \in {r, r2} BY DEF FastLearn
<1> HIDE DEF r1
<1>3. Counted(r1.seg[s]) BY <1>1 DEF IsRouter
<1>4. IsRoute(route) /\ \A d \in Dest : route[d].quality = e[d].quality
  BY <1>3 DEF Counted, IsRoute, IsRec, EntryFields
<1> HIDE DEF route
<1>5. IsRouter(r2) BY <1>1, <1>4, SetRoutes
<1>6. r2.known = r1.known BY <1>1 DEF IsRouter, IsRec, RouterFields
<1> QED BY <1>1, <1>2, <1>5, <1>6

Changed(r, r2, s) == r2.id = r.id /\ \A x \in Dest \ {s} : r2.seg[x] = r.seg[x]

(* add_route() at segment s: r2 has the routes q.                          *)
RoutesAdded(r, s, q, lt, r2) ==
  LET p == r.seg[s] p2 == r2.seg[s]
      ds == {d \in DOMAIN q : d \in r.known \/ q[d] # 0}
  IN  /\ IsRouter(r2) /\ Changed(r, r2, s) /\ r2.known = r.known \cup ds
      /\ p2.used = p.used /\ p2.typ = p.typ /\ p2.nbrl2l = p.nbrl2l
      /\ p2.my = p.my /\ p2.quality = p.quality
      /\ \A d \in Dest :
           /\ p2.route[d].reported = p.route[d].reported
           /\ d \notin ds => p2.route[d] = p.route[d]
           /\ d \in ds =>
                /\ p2.route[d].quality = IF q[d] >= HORIZONT THEN 0 ELSE q[d]
                /\ p2.route[d].timeout = IF Secured(p) THEN 0 ELSE ObcIni
                /\ p2.route[d].lt = lt[d]

LEMMA AddRoutesFields ==
  ASSUME NEW s \in Dest, NEW r, IsRouter(r), NEW q, DOMAIN q \subseteq Dest, NEW lt,
         NEW r2, r2 = AddRoutes(r, s, q, lt)
  PROVE  RoutesAdded(r, s, q, lt, r2)
<1> DEFINE p == r.seg[s]
<1> DEFINE ds == {d \in DOMAIN q : d \in r.known \/ q[d] # 0}
<1> DEFINE new(d) == IF q[d] >= HORIZONT THEN 0 ELSE q[d]
<1> DEFINE time == IF Secured(p) THEN 0 ELSE ObcIni
<1> DEFINE u == UpdateRoutes(p, ds, q)
<1> DEFINE v == SetLt(u, ds, lt)
<1>1. Counted(p) BY DEF IsRouter
<1>2. IsRouter(r2) BY AddRoutesRouter
<1>3. Changed(r, r2, s) /\ r2.known = r.known \cup ds /\ r2.seg[s] = v
  BY DEF AddRoutes, IsRouter, IsRec, RouterFields, Changed
<1>4. \A d \in Dest : IsRec(p.route[d], EntryFields) BY <1>1 DEF Counted, IsRoute
<1> HIDE DEF p, ds
<1>5. /\ u.used = p.used /\ u.typ = p.typ /\ u.nbrl2l = p.nbrl2l
      /\ u.my = p.my /\ u.quality = p.quality
      /\ u.route = [d \in Dest |->
           IF d \in ds THEN [p.route[d] EXCEPT !.quality = new(d), !.timeout = time]
           ELSE p.route[d]]
      /\ IsRec(u, SegmentFields)
  BY <1>1 DEF UpdateRoutes, Counted, IsRec, SegmentFields
<1> HIDE DEF u, new, time
<1>6. /\ v.used = u.used /\ v.typ = u.typ /\ v.nbrl2l = u.nbrl2l
      /\ v.my = u.my /\ v.quality = u.quality
      /\ v.route = [d \in Dest |->
           IF d \in ds THEN [u.route[d] EXCEPT !.lt = lt[d]] ELSE u.route[d]]
  BY <1>5 DEF SetLt, IsRec, SegmentFields
<1> HIDE DEF v
<1>7. ASSUME NEW d \in Dest
      PROVE  /\ v.route[d].reported = p.route[d].reported
             /\ d \notin ds => v.route[d] = p.route[d]
             /\ d \in ds => /\ v.route[d].quality = new(d) /\ v.route[d].timeout = time
                            /\ v.route[d].lt = lt[d]
  <2>1. IsRec(p.route[d], EntryFields) BY <1>4
  <2>2. /\ v.route[d] = IF d \in ds THEN [u.route[d] EXCEPT !.lt = lt[d]] ELSE u.route[d]
        /\ u.route[d] = IF d \in ds
                        THEN [p.route[d] EXCEPT !.quality = new(d), !.timeout = time]
                        ELSE p.route[d]
    BY <1>5, <1>6
  <2> QED BY <2>1, <2>2 DEF IsRec, EntryFields
<1> QED BY <1>2, <1>3, <1>5, <1>6, <1>7 DEF RoutesAdded, p, ds, new, time

-----------------------------------------------------------------------------
(* What the segments of n lead to.                                         *)

Whole(p) ==
  /\ p.my \in Nat /\ p.quality \in Nat
  /\ \A d \in Dest : p.route[d].quality \in Nat

Bare(p) == \A d \in Dest : p.route[d].quality = 0 /\ p.route[d].reported = 0

(* Only neighbours have a segment, and one without a link leads nowhere.   *)
(* Nobody is told of himself.  A LOCAL segment leads to no router.         *)
Proper(n, s, p) ==
  /\ Whole(p)
  /\ s \in Router =>
       /\ p.used <=> s \in Neighbour(n)
       /\ p.typ # "LOCAL" /\ p.quality = p.my
       /\ p.route[s].reported = 0
       /\ p.nbrl2l = "none" => Bare(p)
  /\ s \in Local =>
       \A d \in Router : p.route[d].quality = 0 /\ p.route[d].reported = 0

Ways(n, r) == \A s \in Dest : Proper(n, s, r.seg[s])

(* Segment p becomes p2, which has no new routes.                          *)
Less(p, p2) ==
  /\ p2.used = p.used /\ p2.nbrl2l = p.nbrl2l
  /\ p.typ # "LOCAL" => p2.typ # "LOCAL"
  /\ p2.my \in Nat /\ p2.quality \in Nat
  /\ p.quality = p.my => p2.quality = p2.my
  /\ \A d \in Dest : /\ p2.route[d].quality \in {p.route[d].quality, 0}
                     /\ p2.route[d].reported \in {p.route[d].reported, 0}

LessAt(s, r, r2) ==
  /\ Less(r.seg[s], r2.seg[s])
  /\ \A x \in Dest \ {s} : r2.seg[x] = r.seg[x]

LEMMA LessTwice ==
  ASSUME NEW s, NEW r, NEW r2, NEW r3, LessAt(s, r, r2), LessAt(s, r2, r3)
  PROVE  LessAt(s, r, r3)
<1>1. Less(r.seg[s], r3.seg[s])
  <2>1. ASSUME NEW p, NEW p2, NEW p3, Less(p, p2), Less(p2, p3) PROVE Less(p, p3)
    BY <2>1 DEF Less
  <2> QED BY <2>1 DEF LessAt
<1> QED BY <1>1 DEF LessAt

LEMMA LessWhole ==
  ASSUME NEW p, NEW p2, Whole(p), Less(p, p2)
  PROVE  Whole(p2)
BY DEF Whole, Less

LEMMA ProperLess ==
  ASSUME NEW n, NEW s \in Dest, NEW p, Proper(n, s, p), NEW p2, Less(p, p2)
  PROVE  Proper(n, s, p2)
<1>1. Whole(p2) BY LessWhole DEF Proper
<1>2. Bare(p) => Bare(p2) BY DEF Bare, Less
<1>3. Router \subseteq Dest BY DEF Dest
<1> QED BY <1>1, <1>2, <1>3 DEF Proper, Less

LEMMA WaysLess ==
  ASSUME NEW n, NEW s \in Dest, NEW r, Ways(n, r), NEW r2, LessAt(s, r, r2)
  PROVE  Ways(n, r2)
<1> SUFFICES ASSUME NEW x \in Dest PROVE Proper(n, x, r2.seg[x]) BY DEF Ways
<1>1. Proper(n, x, r.seg[x]) BY DEF Ways
<1>2. CASE x = s BY <1>1, <1>2, ProperLess DEF LessAt
<1>3. CASE x # s BY <1>1, <1>3 DEF LessAt
<1> QED BY <1>2, <1>3

(* Other contents p of segment s.                                          *)
LEMMA SegmentSet ==
  ASSUME NEW r, IsRouter(r), NEW s \in Dest, NEW p
  PROVE  LET r2 == [r EXCEPT !.seg[s] = p]
         IN  /\ r2.seg[s] = p /\ r2.known = r.known
             /\ \A x \in Dest \ {s} : r2.seg[x] = r.seg[x]
BY DEF IsRouter, IsRec, RouterFields

LEMMA WaysSet ==
  ASSUME NEW n, NEW s \in Dest, NEW r, IsRouter(r), Ways(n, r), NEW p, Proper(n, s, p)
  PROVE  Ways(n, [r EXCEPT !.seg[s] = p])
<1> DEFINE r2 == [r EXCEPT !.seg[s] = p]
<1>1. r2.seg[s] = p /\ \A x \in Dest \ {s} : r2.seg[x] = r.seg[x] BY SegmentSet
<1> HIDE DEF r2
<1>2. Ways(n, r2) BY <1>1 DEF Ways
<1> QED BY <1>2 DEF r2

(* A link comes up or is called.                                           *)
LEMMA LinkStateWays ==
  ASSUME NEW n, NEW s \in Dest, NEW r, IsRouter(r), Ways(n, r), NEW v, v # "none"
  PROVE  Ways(n, [r EXCEPT !.seg[s].nbrl2l = v])
<1> DEFINE p == r.seg[s]
<1> DEFINE p2 == [p EXCEPT !.nbrl2l = v]
<1>1. Counted(p) /\ Proper(n, s, p) BY DEF IsRouter, Ways
<1>2. /\ p2.used = p.used /\ p2.typ = p.typ /\ p2.my = p.my /\ p2.quality = p.quality
      /\ p2.route = p.route /\ p2.nbrl2l = v
  BY <1>1 DEF Counted, IsRec, SegmentFields
<1> HIDE DEF p, p2
<1>3. Proper(n, s, p2) BY <1>1, <1>2 DEF Proper, Whole
<1>4. Ways(n, [r EXCEPT !.seg[s] = p2]) BY <1>3, WaysSet
<1>5. [r EXCEPT !.seg[s] = p2] = [r EXCEPT !.seg[s].nbrl2l = v] BY DEF p, p2
<1> QED BY <1>4, <1>5

LEMMA LessField ==
  ASSUME NEW s \in Dest, NEW r, IsRouter(r), Whole(r.seg[s]),
         NEW f \in {"his", "num", "rttstart"}, NEW v
  PROVE  LessAt(s, r, [r EXCEPT !.seg[s] = [r.seg[s] EXCEPT ![f] = v]])
<1> DEFINE p == r.seg[s]
<1> DEFINE p2 == [p EXCEPT ![f] = v]
<1>1. Counted(p) BY DEF IsRouter
<1>2. /\ p2.used = p.used /\ p2.typ = p.typ /\ p2.my = p.my /\ p2.quality = p.quality
      /\ p2.route = p.route /\ p2.nbrl2l = p.nbrl2l
  BY <1>1 DEF Counted, IsRec, SegmentFields
<1> HIDE DEF p2
<1>3. Less(p, p2) BY <1>2 DEF Less, Whole
<1>4. LET r2 == [r EXCEPT !.seg[s] = p2]
      IN  r2.seg[s] = p2 /\ \A x \in Dest \ {s} : r2.seg[x] = r.seg[x]
  BY SegmentSet
<1> HIDE DEF p
<1>5. LessAt(s, r, [r EXCEPT !.seg[s] = p2]) BY <1>3, <1>4 DEF LessAt, p
<1> QED BY <1>5 DEF p, p2

(* A segment with other routes and another type.                           *)
LEMMA LessRoutes ==
  ASSUME NEW s \in Dest, NEW r, IsRouter(r), Whole(r.seg[s]), NEW r2,
         NEW route, NEW typ, typ # "LOCAL" \/ typ = r.seg[s].typ,
         r2.seg = [r.seg EXCEPT ![s] = [r.seg[s] EXCEPT !.typ = typ, !.route = route]],
         \A d \in Dest : /\ route[d].quality \in {r.seg[s].route[d].quality, 0}
                         /\ route[d].reported \in {r.seg[s].route[d].reported, 0}
  PROVE  LessAt(s, r, r2)
<1> DEFINE p == r.seg[s]
<1> DEFINE p2 == [p EXCEPT !.typ = typ, !.route = route]
<1>1. Counted(p) BY DEF IsRouter
<1>2. /\ p2.used = p.used /\ p2.typ = typ /\ p2.my = p.my /\ p2.quality = p.quality
      /\ p2.route = route /\ p2.nbrl2l = p.nbrl2l
  BY <1>1 DEF Counted, IsRec, SegmentFields
<1>3. r2.seg[s] = p2 /\ \A x \in Dest \ {s} : r2.seg[x] = r.seg[x] BY DEF IsRouter
<1> HIDE DEF p2
<1>4. Less(p, p2) BY <1>2 DEF Less, Whole
<1> QED BY <1>3, <1>4 DEF LessAt

LEMMA LessTyp ==
  ASSUME NEW s \in Dest, NEW r, IsRouter(r), Whole(r.seg[s]), NEW typ, typ # "LOCAL"
  PROVE  LET r2 == SetPeerTyp(r, s, typ)
         IN  LessAt(s, r, r2) /\ r2.seg[s].typ = typ
             /\ (typ # "INP" => r2.seg[s].route = r.seg[s].route)
<1> DEFINE p == r.seg[s]
<1> DEFINE route == IF typ = "INP"
      THEN [d \in Dest |-> IF d \in r.known THEN [p.route[d] EXCEPT !.reported = 0]
                           ELSE p.route[d]]
      ELSE p.route
<1> DEFINE r2 == SetPeerTyp(r, s, typ)
<1>1. Counted(p) BY DEF IsRouter
<1>2. r2.seg = [r.seg EXCEPT ![s] = [p EXCEPT !.typ = typ, !.route = route]]
  BY <1>1 DEF SetPeerTyp, IsRouter, Counted, IsRec, RouterFields, SegmentFields
<1>3. \A d \in Dest : /\ route[d].quality \in {p.route[d].quality, 0}
                      /\ route[d].reported \in {p.route[d].reported, 0}
  BY <1>1 DEF Counted, IsRoute, IsRec, EntryFields
<1>4. r2.seg[s].typ = typ /\ r2.seg[s].route = route
  BY <1>1, <1>2 DEF IsRouter, Counted, IsRec, SegmentFields
<1>5. typ # "INP" => route = p.route OBVIOUS
<1> HIDE DEF route, r2
<1>6. LessAt(s, r, r2)
  <2>1. typ # "LOCAL" \/ typ = r.seg[s].typ OBVIOUS
  <2>2. r2.seg = [r.seg EXCEPT ![s] = [r.seg[s] EXCEPT !.typ = typ, !.route = route]]
    BY <1>2 DEF p
  <2>3. \A d \in Dest : /\ route[d].quality \in {r.seg[s].route[d].quality, 0}
                        /\ route[d].reported \in {r.seg[s].route[d].reported, 0}
    BY <1>3 DEF p
  <2> HIDE DEF p
  <2> QED BY ONLY IsRouter(r), Whole(r.seg[s]), s \in Dest, <2>1, <2>2, <2>3, LessRoutes
<1> QED BY <1>4, <1>5, <1>6 DEF r2, p

LEMMA SmoothNat ==
  ASSUME NEW old \in Nat, NEW new \in Nat
  PROVE  Smooth(old, new) \in Nat
BY DEF Smooth, RTT_MAX

LEMMA LessQuality ==
  ASSUME NEW s \in Dest, NEW r, IsRouter(r), Whole(r.seg[s]),
         NEW my \in Nat \cup {-1}, NEW his
  PROVE  LET r2 == [r EXCEPT !.seg[s] = UpdatePeerQuality(@, my, his)]
         IN  LessAt(s, r, r2) /\ r2.seg[s].route = r.seg[s].route
<1> DEFINE p == r.seg[s]
<1> DEFINE p2 == UpdatePeerQuality(p, my, his)
<1> DEFINE r2 == [r EXCEPT !.seg[s] = p2]
<1> DEFINE q == IF my = -1 THEN p.my ELSE IF my = 0 THEN 0 ELSE Smooth(p.my, my)
<1>1. Counted(p) BY DEF IsRouter
<1>2. /\ p2.used = p.used /\ p2.typ = p.typ /\ p2.my = q /\ p2.quality = q
      /\ p2.route = p.route /\ p2.nbrl2l = p.nbrl2l
  BY <1>1 DEF UpdatePeerQuality, Counted, IsRec, SegmentFields
<1>3. q \in Nat BY SmoothNat DEF Whole
<1> HIDE DEF p2, q
<1>4. Less(p, p2) BY <1>2, <1>3 DEF Less
<1>5. r2.seg[s] = p2 /\ \A x \in Dest \ {s} : r2.seg[x] = r.seg[x] BY SegmentSet
<1>6. LessAt(s, r, r2) BY <1>4, <1>5 DEF LessAt
<1> QED BY <1>2, <1>5, <1>6 DEF p2

LEMMA SameSegments ==
  ASSUME NEW r, IsRouter(r)
  PROVE  DropUnreachable(r).seg = r.seg
BY DEF DropUnreachable, IsRouter, IsRec, RouterFields

LEMMA LessClear ==
  ASSUME NEW s \in Dest, NEW r, IsRouter(r), Whole(r.seg[s])
  PROVE  LET r2 == ClearPeer(r, s) IN LessAt(s, r, r2) /\ Bare(r2.seg[s])
<1> DEFINE p == r.seg[s]
<1> DEFINE p2 == [p EXCEPT !.route = NoRoutes, !.num = 0]
<1> DEFINE r1 == [r EXCEPT !.seg[s] = p2]
<1>1. Counted(p) BY DEF IsRouter
<1>2. /\ p2.used = p.used /\ p2.typ = p.typ /\ p2.my = p.my /\ p2.quality = p.quality
      /\ p2.route = NoRoutes /\ p2.nbrl2l = p.nbrl2l
  BY <1>1 DEF Counted, IsRec, SegmentFields
<1>3. \A d \in Dest : NoRoutes[d].quality = 0 /\ NoRoutes[d].reported = 0
  BY DEF NoRoutes, NoRoute
<1>4. r1 = ClearRoutes(r, s) BY DEF ClearRoutes
<1> HIDE DEF p2
<1>5. Less(p, p2) /\ Bare(p2) BY <1>2, <1>3 DEF Less, Whole, Bare
<1>6. r1.seg[s] = p2 /\ \A x \in Dest \ {s} : r1.seg[x] = r.seg[x] BY SegmentSet
<1>7. ClearPeer(r, s).seg = r1.seg
  BY <1>4 DEF ClearPeer, DropUnreachable, r1, IsRouter, IsRec, RouterFields
<1> QED BY <1>5, <1>6, <1>7 DEF LessAt

LEMMA LessReset ==
  ASSUME NEW s \in Dest, NEW r, IsRouter(r), Whole(r.seg[s])
  PROVE  LessAt(s, r, ResetPeer(r, s))
<1> DEFINE r1 == IF r.seg[s].typ = "INP" THEN SetPeerTyp(r, s, "NETROM") ELSE r
<1> DEFINE e == r1.seg[s].route
<1> DEFINE short(d) ==
      [e[d] EXCEPT !.reported = 0,
                   !.timeout = IF e[d].quality # 0 /\ (e[d].timeout = 0 \/ e[d].timeout > ResetTimeout)
                               THEN ResetTimeout ELSE e[d].timeout]
<1> DEFINE route == [d \in Dest |-> IF d \in r.known THEN short(d) ELSE e[d]]
<1> DEFINE r2 == [r1 EXCEPT !.seg[s].route = route]
<1> DEFINE r3 == [r2 EXCEPT !.seg[s] = UpdatePeerQuality(@, 0, -1)]
<1>1. IsRouter(r1) BY SetPeerTypRouter
<1>2. LessAt(s, r, r1)
  <2>1. Less(r.seg[s], r.seg[s]) BY DEF Less, Whole
  <2>2. LessAt(s, r, r) BY <2>1 DEF LessAt
  <2> QED BY <2>2, LessTyp
<1>3. Whole(r1.seg[s]) BY <1>2, LessWhole DEF LessAt
<1>4. ResetPeer(r, s) = DropUnreachable(r3) BY DEF ResetPeer
<1> HIDE DEF r1
<1>5. Counted(r1.seg[s]) BY <1>1 DEF IsRouter
<1>6. \A d \in Dest : IsRec(e[d], EntryFields) BY <1>5 DEF Counted, IsRoute
<1>7. \A d \in Dest : /\ IsRec(short(d), EntryFields)
                      /\ short(d).quality = e[d].quality /\ short(d).reported = 0
  <2> HIDE DEF e
  <2> QED BY <1>6 DEF IsRec, EntryFields
<1> HIDE DEF short
<1>8. /\ IsRoute(route)
      /\ \A d \in Dest : route[d].quality = e[d].quality /\ route[d].reported \in {e[d].reported, 0}
  <2> HIDE DEF e
  <2> QED BY <1>6, <1>7 DEF IsRoute
<1> HIDE DEF route
<1>9. IsRouter(r2) BY <1>1, <1>8, SetRoutes DEF e
<1>10. r2.seg = [r1.seg EXCEPT ![s] = [r1.seg[s] EXCEPT !.typ = r1.seg[s].typ, !.route = route]]
  BY <1>1, <1>5 DEF IsRouter, Counted, IsRec, RouterFields, SegmentFields
<1> HIDE DEF r2
<1>11. LessAt(s, r1, r2) BY <1>1, <1>3, <1>8, <1>10, LessRoutes DEF e
<1>12. Whole(r2.seg[s]) BY <1>3, <1>11, LessWhole DEF LessAt
<1>13. LessAt(s, r2, r3) BY <1>9, <1>12, LessQuality
<1>14. IsRouter(r3) BY <1>9, UpdatePeerQualityRouter
<1> HIDE DEF r3
<1>15. DropUnreachable(r3).seg = r3.seg BY <1>14, SameSegments
<1>16. LessAt(s, r, r3) BY <1>2, <1>11, <1>13, LessTwice
<1> QED BY <1>4, <1>15, <1>16 DEF LessAt

LEMMA LessMeasurement ==
  ASSUME NEW s \in Dest, NEW r, IsRouter(r), Whole(r.seg[s])
  PROVE  LET r2 == NoMeasurement(r, s)
         IN  LessAt(s, r, r2) /\ (Bare(r.seg[s]) => Bare(r2.seg[s]))
<1> DEFINE r1 == [r EXCEPT !.seg[s].rttstart = FALSE]
<1> DEFINE r2 == NoMeasurement(r, s)
<1>1. IsRouter(r1) /\ LessAt(s, r, r1)
  BY LessField, SetSegmentField DEF SegmentFields
<1>2. r2 \in {r1, SetPeerTyp(r1, s, "NETROM")} BY DEF NoMeasurement
<1> HIDE DEF r1, r2
<1>3. Whole(r1.seg[s]) BY <1>1, LessWhole DEF LessAt
<1>4. LessAt(s, r1, SetPeerTyp(r1, s, "NETROM")) BY <1>1, <1>3, LessTyp
<1>5. LessAt(s, r, r2) BY <1>1, <1>2, <1>4, LessTwice
<1>6. Bare(r.seg[s]) => Bare(r2.seg[s]) BY <1>5 DEF LessAt, Less, Bare
<1> QED BY <1>5, <1>6 DEF r2

(* netrom_status(): a new or a reset link, and the end of one.             *)
LEMMA LinkWays ==
  ASSUME NEW n, NEW s \in Dest, NEW r, IsRouter(r), Ways(n, r)
  PROVE  /\ Ways(n, LinkConnected(r, s))
         /\ Ways(n, LinkReset(r, s))
<1>1. Whole(r.seg[s]) BY DEF Ways, Proper
<1>2. Ways(n, LinkConnected(r, s))
  <2> DEFINE r1 == ClearPeer(r, s)
  <2>1. IsRouter(r1) /\ LessAt(s, r, r1) BY <1>1, ClearPeerRouter, LessClear
  <2> HIDE DEF r1
  <2>2. Whole(r1.seg[s]) BY <1>1, <2>1, LessWhole DEF LessAt
  <2>3. LessAt(s, r1, NoMeasurement(r1, s)) BY <2>1, <2>2, LessMeasurement
  <2>4. LessAt(s, r, NoMeasurement(r1, s)) BY <2>1, <2>3, LessTwice
  <2> QED BY <2>4, WaysLess DEF LinkConnected, r1
<1>3. Ways(n, LinkReset(r, s))
  <2> DEFINE r1 == ResetPeer(r, s)
  <2>1. IsRouter(r1) /\ LessAt(s, r, r1) BY <1>1, ResetPeerRouter, LessReset
  <2> HIDE DEF r1
  <2>2. Whole(r1.seg[s]) BY <1>1, <2>1, LessWhole DEF LessAt
  <2>3. LessAt(s, r1, NoMeasurement(r1, s)) BY <2>1, <2>2, LessMeasurement
  <2>4. LessAt(s, r, NoMeasurement(r1, s)) BY <2>1, <2>3, LessTwice
  <2> QED BY <2>4, WaysLess DEF LinkReset, r1
<1> QED BY <1>2, <1>3

LEMMA GoneWays ==
  ASSUME NEW n, NEW s \in Dest, NEW r, IsRouter(r), Ways(n, r)
  PROVE  Ways(n, LinkGone([r EXCEPT !.seg[s].nbrl2l = "none"], s))
<1> DEFINE p == r.seg[s]
<1> DEFINE p1 == [p EXCEPT !.nbrl2l = "none"]
<1> DEFINE r1 == [r EXCEPT !.seg[s] = p1]
<1> DEFINE r2 == [r1 EXCEPT !.seg[s] = UpdatePeerQuality(@, 0, -1)]
<1> DEFINE r3 == ClearPeer(r2, s)
<1> DEFINE r4 == NoMeasurement(r3, s)
<1>1. Counted(p) /\ Proper(n, s, p) BY DEF IsRouter, Ways
<1>2. /\ p1.used = p.used /\ p1.typ = p.typ /\ p1.my = p.my /\ p1.quality = p.quality
      /\ p1.route = p.route /\ p1.nbrl2l = "none"
  BY <1>1 DEF Counted, IsRec, SegmentFields
<1>3. r1.seg[s] = p1 /\ \A x \in Dest \ {s} : r1.seg[x] = r.seg[x] BY SegmentSet
<1>4. IsRouter(r1) BY SetSegmentField DEF SegmentFields
<1>5. LinkGone([r EXCEPT !.seg[s].nbrl2l = "none"], s) = r4 BY DEF LinkGone
<1> HIDE DEF p1, r1
<1>6. Whole(r1.seg[s]) BY <1>1, <1>2, <1>3 DEF Proper, Whole
<1>7. IsRouter(r2) /\ LessAt(s, r1, r2) BY <1>4, <1>6, LessQuality, UpdatePeerQualityRouter
<1> HIDE DEF r2
<1>8. Whole(r2.seg[s]) BY <1>6, <1>7, LessWhole DEF LessAt
<1>9. IsRouter(r3) /\ LessAt(s, r2, r3) /\ Bare(r3.seg[s])
  BY <1>7, <1>8, LessClear, ClearPeerRouter
<1> HIDE DEF r3
<1>10. Whole(r3.seg[s]) BY <1>8, <1>9, LessWhole DEF LessAt
<1>11. LessAt(s, r3, r4) /\ Bare(r4.seg[s]) BY <1>9, <1>10, LessMeasurement
<1>12. LessAt(s, r1, r4) BY <1>7, <1>9, <1>11, LessTwice
<1> HIDE DEF r4, p
<1>13. Proper(n, s, r4.seg[s])
  <2>1. Whole(r4.seg[s]) BY <1>6, <1>12, LessWhole DEF LessAt
  <2>2. /\ r4.seg[s].used = p.used
        /\ p.typ # "LOCAL" => r4.seg[s].typ # "LOCAL"
        /\ p.quality = p.my => r4.seg[s].quality = r4.seg[s].my
    BY <1>2, <1>3, <1>12 DEF LessAt, Less
  <2>3. Router \subseteq Dest BY DEF Dest
  <2> QED BY <1>1, <1>11, <2>1, <2>2, <2>3 DEF Proper, Bare
<1>14. \A x \in Dest \ {s} : r4.seg[x] = r.seg[x] BY <1>3, <1>12 DEF LessAt
<1>15. Ways(n, r4) BY <1>13, <1>14 DEF Ways
<1> QED BY <1>5, <1>15

LEMMA HourlyWays ==
  ASSUME NEW n, NEW s \in Dest, NEW r, IsRouter(r), Ways(n, r)
  PROVE  Ways(n, Hourly(r, s))
<1> DEFINE p == r.seg[s]
<1> DEFINE route == [d \in Dest |->
      IF d \notin r.known \/ (p.route[d].quality = 0 /\ p.route[d].reported # 0) THEN p.route[d]
      ELSE [p.route[d] EXCEPT !.reported = 0]]
<1>1. Counted(p) /\ Whole(p) BY DEF IsRouter, Ways, Proper
<1>2. Hourly(r, s).seg = [r.seg EXCEPT ![s] = [p EXCEPT !.typ = p.typ, !.route = route]]
  BY <1>1 DEF Hourly, IsRouter, Counted, IsRec, RouterFields, SegmentFields
<1>3. \A d \in Dest : /\ route[d].quality \in {p.route[d].quality, 0}
                      /\ route[d].reported \in {p.route[d].reported, 0}
  BY <1>1 DEF Counted, IsRoute, IsRec, EntryFields
<1> HIDE DEF route
<1>4. LessAt(s, r, Hourly(r, s)) BY <1>1, <1>2, <1>3, LessRoutes
<1> QED BY <1>4, WaysLess

(* Routes that are updated.                                                *)
LEMMA UpdatedRoutes ==
  ASSUME NEW p, Counted(p), NEW ds \in SUBSET Dest, NEW q
  PROVE  LET p2 == UpdateRoutes(p, ds, q)
         IN  /\ p2.used = p.used /\ p2.typ = p.typ /\ p2.my = p.my
             /\ p2.quality = p.quality /\ p2.nbrl2l = p.nbrl2l
             /\ \A d \in Dest :
                  /\ p2.route[d].reported = p.route[d].reported
                  /\ p2.route[d].quality = IF d \notin ds THEN p.route[d].quality
                                           ELSE IF q[d] >= HORIZONT THEN 0 ELSE q[d]
<1> DEFINE new(d) == IF q[d] >= HORIZONT THEN 0 ELSE q[d]
<1> DEFINE t == IF Secured(p) THEN 0 ELSE ObcIni
<1> DEFINE lost == {d \in ds : p.route[d].quality # 0 /\ new(d) = 0}
<1> DEFINE won == {d \in ds : p.route[d].quality = 0 /\ new(d) # 0}
<1> DEFINE num == p.num - Cardinality(lost) + Cardinality(won)
<1> DEFINE entry(d) == IF d \in ds THEN [p.route[d] EXCEPT !.quality = new(d), !.timeout = t]
                       ELSE p.route[d]
<1> DEFINE route == [d \in Dest |-> entry(d)]
<1> DEFINE p2 == [p EXCEPT !.num = num, !.route = route]
<1>1. UpdateRoutes(p, ds, q) = p2 BY DEF UpdateRoutes
<1> HIDE DEF num, t
<1>2. \A d \in Dest : /\ entry(d).reported = p.route[d].reported
                      /\ entry(d).quality = IF d \in ds THEN new(d) ELSE p.route[d].quality
  <2>1. \A d \in Dest : IsRec(p.route[d], EntryFields) BY DEF Counted, IsRoute
  <2> HIDE DEF new
  <2> QED BY <2>1 DEF IsRec, EntryFields
<1> HIDE DEF entry
<1>3. \A d \in Dest : route[d] = entry(d) OBVIOUS
<1> HIDE DEF route
<1>4. /\ p2.used = p.used /\ p2.typ = p.typ /\ p2.my = p.my
      /\ p2.quality = p.quality /\ p2.nbrl2l = p.nbrl2l /\ p2.route = route
  BY DEF Counted, IsRec, SegmentFields
<1> HIDE DEF p2
<1> QED BY <1>1, <1>2, <1>3, <1>4

LEMMA LessAge ==
  ASSUME NEW p, Counted(p), Whole(p), NEW known \in SUBSET Dest
  PROVE  Less(p, AgeSegment(p, known))
<1> DEFINE far == {d \in known : p.route[d].lt > MaxLt}
<1> DEFINE p1 == UpdateRoutes(p, far, [d \in far |-> 0])
<1> DEFINE over == {d \in known : p1.route[d].timeout = 1}
<1> DEFINE p2 == UpdateRoutes(p1, over, [d \in over |-> 0])
<1> DEFINE older(e) == IF e.timeout > 0 THEN [e EXCEPT !.timeout = e.timeout - 1]
                       ELSE IF Secured(p) THEN e ELSE [e EXCEPT !.timeout = ObcIni]
<1> DEFINE route == [d \in Dest |-> IF d \in known \ over THEN older(p2.route[d]) ELSE p2.route[d]]
<1> DEFINE p3 == [p2 EXCEPT !.route = route]
<1>1. AgeSegment(p, known) = p3 BY DEF AgeSegment
<1>2. far \in SUBSET Dest /\ over \in SUBSET Dest OBVIOUS
<1> DEFINE Cut(a, b) ==
      /\ b.used = a.used /\ b.typ = a.typ /\ b.my = a.my
      /\ b.quality = a.quality /\ b.nbrl2l = a.nbrl2l
      /\ \A d \in Dest : /\ b.route[d].reported = a.route[d].reported
                         /\ b.route[d].quality \in {a.route[d].quality, 0}
<1> HIDE DEF far
<1>3. ASSUME NEW a, Counted(a), NEW ds \in SUBSET Dest
      PROVE  LET b == UpdateRoutes(a, ds, [d \in ds |-> 0]) IN Counted(b) /\ Cut(a, b)
  BY <1>3, UpdatedRoutes, UpdateRoutesCounted
<1>4. Counted(p1) /\ Cut(p, p1) BY <1>2, <1>3
<1> HIDE DEF p1, over
<1>5. Counted(p2) /\ Cut(p1, p2) BY <1>2, <1>3, <1>4
<1> HIDE DEF p2
<1>6. \A d \in Dest : /\ route[d].reported = p2.route[d].reported
                      /\ route[d].quality = p2.route[d].quality
  <2>1. ASSUME NEW e, IsRec(e, EntryFields)
        PROVE  older(e).reported = e.reported /\ older(e).quality = e.quality
    BY <2>1 DEF IsRec, EntryFields
  <2>2. \A d \in Dest : IsRec(p2.route[d], EntryFields) BY <1>5 DEF Counted, IsRoute
  <2> HIDE DEF older
  <2> QED BY <2>1, <2>2
<1> HIDE DEF route
<1>7. /\ p3.used = p2.used /\ p3.typ = p2.typ /\ p3.my = p2.my
      /\ p3.quality = p2.quality /\ p3.nbrl2l = p2.nbrl2l /\ p3.route = route
  BY <1>5 DEF Counted, IsRec, SegmentFields
<1> HIDE DEF p3
<1>8. Cut(p, p3) BY <1>4, <1>5, <1>6, <1>7
<1>9. Less(p, p3) BY <1>8 DEF Less, Whole
<1> QED BY <1>1, <1>9

(* add_route() over a link.                                                *)
LEMMA AddRoutesWays ==
  ASSUME NEW n, NEW s \in Router, NEW r, IsRouter(r), Ways(n, r), r.seg[s].nbrl2l # "none",
         NEW q, DOMAIN q \subseteq Dest, \A d \in DOMAIN q : q[d] \in Nat, NEW lt
  PROVE  LET r2 == AddRoutes(r, s, q, lt)
         IN  Ways(n, r2) /\ r2.seg[s].nbrl2l = r.seg[s].nbrl2l
<1> DEFINE p == r.seg[s]
<1> DEFINE r2 == AddRoutes(r, s, q, lt)
<1> DEFINE p2 == r2.seg[s]
<1> DEFINE ds == {d \in DOMAIN q : d \in r.known \/ q[d] # 0}
<1>1. s \in Dest /\ s \notin Local BY NamesAssumption DEF Dest
<1>2. RoutesAdded(r, s, q, lt, r2) BY <1>1, AddRoutesFields
<1>3. Proper(n, s, p) BY <1>1 DEF Ways
<1> HIDE DEF r2
<1>4. ASSUME NEW d \in Dest PROVE p2.route[d].quality \in Nat
  <2>1. p.route[d].quality \in Nat BY <1>3 DEF Proper, Whole
  <2>2. CASE d \in ds
    <3>1. p2.route[d].quality = IF q[d] >= HORIZONT THEN 0 ELSE q[d]
      BY <1>2, <2>2 DEF RoutesAdded
    <3>2. q[d] \in Nat BY <2>2
    <3> QED BY <3>1, <3>2
  <2>3. CASE d \notin ds
    <3>1. p2.route[d] = p.route[d] BY <1>2, <2>3 DEF RoutesAdded
    <3> QED BY <2>1, <3>1
  <2> QED BY <2>2, <2>3
<1>5. /\ p2.used = p.used /\ p2.typ = p.typ /\ p2.my = p.my
      /\ p2.quality = p.quality /\ p2.nbrl2l = p.nbrl2l
      /\ \A d \in Dest : p2.route[d].reported = p.route[d].reported
  BY <1>2 DEF RoutesAdded
<1> HIDE DEF p2, p
<1>6. Proper(n, s, p2) BY <1>1, <1>3, <1>4, <1>5 DEF Proper, Whole, p
<1>7. \A x \in Dest \ {s} : r2.seg[x] = r.seg[x] BY <1>2 DEF RoutesAdded, Changed
<1>8. Ways(n, r2) BY <1>6, <1>7 DEF Ways, p2
<1> QED BY <1>5, <1>8 DEF r2, p2, p

LEMMA AddRouteWays ==
  ASSUME NEW n, NEW s \in Router, NEW r, IsRouter(r), Ways(n, r), r.seg[s].nbrl2l # "none",
         NEW d \in Dest, NEW q \in Nat, NEW lt
  PROVE  LET r2 == AddRoute(r, s, d, q, lt)
         IN  Ways(n, r2) /\ r2.seg[s].nbrl2l = r.seg[s].nbrl2l
<1> DEFINE f == [x \in {d} |-> q]
<1>1. DOMAIN f \subseteq Dest /\ \A x \in DOMAIN f : f[x] \in Nat OBVIOUS
<1>2. AddRoute(r, s, d, q, lt) = AddRoutes(r, s, f, [x \in {d} |-> lt]) BY DEF AddRoute
<1> HIDE DEF f
<1> QED BY <1>1, <1>2, AddRoutesWays

LEMMA RxReportWays ==
  ASSUME NEW n, NEW s \in Router, NEW r, IsRouter(r), Ways(n, r), r.seg[s].nbrl2l # "none",
         NEW rep, DOMAIN rep \subseteq Dest, \A d \in DOMAIN rep : rep[d].q \in Nat
  PROVE  Ways(n, RxReport(r, s, rep))
<1> DEFINE ds == {d \in DOMAIN rep : d # r.id /\ ~IsCall(r, d, Virtual(r))}
<1> DEFINE hops(d) == IF rep[d].lt = 0 THEN DEFAULT_LT ELSE rep[d].lt + 1
<1> DEFINE q(d) == IF d = s THEN 1 ELSE IF hops(d) > MaxLt THEN 0 ELSE rep[d].q
<1> DEFINE lt(d) == IF q(d) \in {0, HORIZONT} THEN 0 ELSE IF d = s THEN 1 ELSE hops(d)
<1> DEFINE f == [d \in ds |-> q(d)]
<1>1. RxReport(r, s, rep) = AddRoutes(r, s, f, [d \in ds |-> lt(d)]) BY DEF RxReport
<1>2. \A d \in ds : q(d) \in Nat
  <2> HIDE DEF hops
  <2> QED OBVIOUS
<1>3. DOMAIN f \subseteq Dest /\ \A d \in DOMAIN f : f[d] \in Nat BY <1>2
<1> HIDE DEF f, ds, lt
<1> QED BY <1>1, <1>3, AddRoutesWays

LEMMA FastLearnWays ==
  ASSUME NEW n, NEW s \in Router, NEW r, IsRouter(r), Ways(n, r), r.seg[s].nbrl2l # "none",
         NEW org \in Dest
  PROVE  Ways(n, FastLearn(r, s, org))
<1> DEFINE r1 == AddRoute(r, s, org, LEARN, DEFAULT_LT)
<1> DEFINE p == r1.seg[s]
<1> DEFINE route == [p.route EXCEPT ![org] = [p.route[org] EXCEPT !.timeout = ObcIni]]
<1> DEFINE r2 == [r1 EXCEPT !.seg[s].route[org].timeout = ObcIni]
<1>1. s \in Dest /\ LEARN \in Nat BY DEF Dest, LEARN
<1>2. IsRouter(r1) /\ Ways(n, r1) BY <1>1, AddRouteRouter, AddRouteWays
<1>3. FastLearn(r, s, org) \in {r, r2} BY DEF FastLearn
<1> HIDE DEF r1
<1>4. Counted(p) /\ Whole(p) BY <1>1, <1>2 DEF IsRouter, Ways, Proper
<1>5. r2.seg = [r1.seg EXCEPT ![s] = [p EXCEPT !.typ = p.typ, !.route = route]]
  BY <1>1, <1>2, <1>4 DEF IsRouter, Counted, IsRec, RouterFields, SegmentFields
<1>6. \A d \in Dest : /\ route[d].quality \in {p.route[d].quality, 0}
                      /\ route[d].reported \in {p.route[d].reported, 0}
  BY <1>4 DEF Counted, IsRoute, IsRec, EntryFields
<1> HIDE DEF route, r2
<1>7. LessAt(s, r1, r2) BY <1>1, <1>2, <1>4, <1>5, <1>6, LessRoutes
<1>8. Ways(n, r2) BY <1>1, <1>2, <1>7, WaysLess
<1> QED BY <1>3, <1>8

(* inform_peer() over a link.                                              *)
LEMMA InformPeerWays ==
  ASSUME NEW n, NEW s \in Router, NEW r, IsRouter(r), Ways(n, r), r.seg[s].nbrl2l # "none",
         NEW hidden, NEW jam
  PROVE  Ways(n, InformPeer(r, s, hidden, jam))
<1> DEFINE ds == Announced(r, s, hidden, jam)
<1> DEFINE said(e, q) == [e EXCEPT !.reported = q,
                                   !.lt = IF q = 0 /\ e.quality = 0 THEN 0 ELSE e.lt]
<1> DEFINE p == r.seg[s]
<1> DEFINE entry(d) == IF d \in ds THEN said(p.route[d], ToAnnounce(r, s, d, hidden, jam))
                       ELSE p.route[d]
<1> DEFINE route == [d \in Dest |-> entry(d)]
<1> DEFINE p2 == [p EXCEPT !.route = route]
<1>1. InformPeer(r, s, hidden, jam) = [r EXCEPT !.seg[s] = p2] BY DEF InformPeer
<1>2. s \in Dest /\ s \notin Local BY NamesAssumption DEF Dest
<1>3. Counted(p) /\ Proper(n, s, p) BY <1>2 DEF IsRouter, Ways
<1>4. s \notin ds BY DEF Announced
<1> HIDE DEF ds
<1>5. \A d \in Dest : entry(d).quality = p.route[d].quality /\ (d = s => entry(d) = p.route[d])
  BY <1>3, <1>4 DEF Counted, IsRoute, IsRec, EntryFields
<1> HIDE DEF entry
<1>6. \A d \in Dest : route[d] = entry(d) OBVIOUS
<1> HIDE DEF route
<1>7. /\ p2.used = p.used /\ p2.typ = p.typ /\ p2.my = p.my
      /\ p2.quality = p.quality /\ p2.nbrl2l = p.nbrl2l /\ p2.route = route
  BY <1>3 DEF Counted, IsRec, SegmentFields
<1> HIDE DEF p2
<1>8. Proper(n, s, p2) BY <1>2, <1>3, <1>5, <1>6, <1>7 DEF Proper, Whole
<1> QED BY <1>1, <1>2, <1>8, WaysSet

LEMMA EmptyProper ==
  ASSUME NEW n, NEW s \in Local
  PROVE  Proper(n, s, EmptySegment)
<1>1. s \notin Router BY NamesAssumption
<1>2. Bare(EmptySegment) /\ Whole(EmptySegment)
  BY DEF Bare, Whole, EmptySegment, NoRoutes, NoRoute
<1> QED BY <1>1, <1>2 DEF Proper, Bare, Dest

LEMMA EmptyRouterWays ==
  ASSUME NEW n \in Router
  PROVE  Ways(n, EmptyRouter(n))
<1> SUFFICES ASSUME NEW s \in Dest PROVE Proper(n, s, EmptyRouter(n).seg[s]) BY DEF Ways
<1> DEFINE p == [EmptySegment EXCEPT !.used = s \in Neighbour(n)]
<1>1. EmptyRouter(n).seg[s] = p BY DEF EmptyRouter
<1>2. /\ p.used = (s \in Neighbour(n)) /\ p.typ = "NETROM" /\ p.my = 0 /\ p.quality = 0
      /\ p.route = NoRoutes
  BY DEF EmptySegment
<1>3. \A d \in Dest : NoRoutes[d].quality = 0 /\ NoRoutes[d].reported = 0
  BY DEF NoRoutes, NoRoute
<1> HIDE DEF p
<1>4. Bare(p) /\ Whole(p) BY <1>2, <1>3 DEF Bare, Whole
<1>5. Proper(n, s, p) BY <1>2, <1>4 DEF Proper, Bare, Dest
<1> QED BY <1>1, <1>5

LEMMA LocalWays ==
  ASSUME NEW n, NEW s \in Local, NEW r, IsRouter(r), Ways(n, r)
  PROVE  Ways(n, RegisterLocal(r, s)) /\ Ways(n, UnregisterLocal(r, s))
<1>1. s \in Dest /\ s \notin Router BY NamesAssumption DEF Dest
<1>2. Whole(r.seg[s]) BY <1>1 DEF Ways, Proper
<1>3. Ways(n, UnregisterLocal(r, s))
  <2>1. IsRouter(ClearPeer(r, s)) /\ LessAt(s, r, ClearPeer(r, s))
    BY <1>1, <1>2, ClearPeerRouter, LessClear
  <2>2. Ways(n, ClearPeer(r, s)) BY <1>1, <2>1, WaysLess
  <2> QED BY <1>1, <2>1, <2>2, EmptyProper, WaysSet DEF UnregisterLocal
<1>4. Ways(n, RegisterLocal(r, s))
  <2> DEFINE p == [EmptySegment EXCEPT !.used = TRUE, !.typ = "LOCAL"]
  <2> DEFINE r1 == [r EXCEPT !.seg[s] = p]
  <2> DEFINE q == [x \in {s} |-> LocalRtt]
  <2> DEFINE lt == [x \in {s} |-> 1]
  <2> DEFINE r2 == AddRoutes(r1, s, q, lt)
  <2> DEFINE p2 == r2.seg[s]
  <2> DEFINE p3 == [p2 EXCEPT !.quality = 1]
  <2> DEFINE r3 == [r2 EXCEPT !.seg[s] = p3]
  <2>1. RegisterLocal(r, s) = r3 BY DEF RegisterLocal, AddRoute
  <2>2. Counted(p)
    <3>1. Counted([EmptySegment EXCEPT !.used = TRUE])
      BY EmptyCounted, SetField DEF SegmentFields
    <3>2. Counted([[EmptySegment EXCEPT !.used = TRUE] EXCEPT !.typ = "LOCAL"])
      BY <3>1, SetField DEF SegmentFields
    <3> QED BY <3>2
  <2>3. p.my = 0 /\ \A d \in Dest : p.route[d].quality = 0 /\ p.route[d].reported = 0
    BY DEF EmptySegment, NoRoutes, NoRoute
  <2> HIDE DEF p
  <2>4. IsRouter(r1) BY <1>1, <2>2, SetSegment
  <2>5. r1.seg[s] = p /\ \A x \in Dest \ {s} : r1.seg[x] = r.seg[x] BY <1>1, SegmentSet
  <2>6. RoutesAdded(r1, s, q, lt, r2) BY <1>1, <2>4, AddRoutesFields
  <2>7. q[s] \in Nat /\ DOMAIN q = {s} BY DEF LocalRtt
  <2> HIDE DEF r1, r2, q, lt
  <2>8. IsRouter(r2) /\ \A x \in Dest \ {s} : r2.seg[x] = r.seg[x]
    BY <2>5, <2>6 DEF RoutesAdded, Changed
  <2>9. /\ p2.my = 0
        /\ \A d \in Dest : p2.route[d].reported = 0
        /\ \A d \in Dest \ {s} : p2.route[d].quality = 0
    <3>1. \A d \in Dest \ {s} : p2.route[d] = p.route[d] BY <2>5, <2>6, <2>7 DEF RoutesAdded
    <3>2. p2.my = p.my /\ \A d \in Dest : p2.route[d].reported = p.route[d].reported
      BY <2>5, <2>6 DEF RoutesAdded
    <3> QED BY <2>3, <3>1, <3>2
  <2>10. p2.route[s].quality \in Nat
    <3>1. \/ p2.route[s].quality = IF q[s] >= HORIZONT THEN 0 ELSE q[s]
          \/ p2.route[s] = p.route[s]
      BY <1>1, <2>5, <2>6 DEF RoutesAdded
    <3> QED BY <1>1, <2>3, <2>7, <3>1
  <2>11. Counted(p2) BY <1>1, <2>8 DEF IsRouter
  <2>12. p3.my = p2.my /\ p3.route = p2.route /\ p3.quality = 1
    BY <2>11 DEF Counted, IsRec, SegmentFields
  <2> HIDE DEF p2, p3
  <2>13. Whole(p3) BY <2>9, <2>10, <2>12 DEF Whole
  <2>14. Proper(n, s, p3) BY <1>1, <2>9, <2>12, <2>13 DEF Proper, Dest
  <2>15. r3.seg[s] = p3 /\ \A x \in Dest \ {s} : r3.seg[x] = r2.seg[x] BY <1>1, <2>8, SegmentSet
  <2> HIDE DEF r3
  <2>16. Ways(n, r3)
    <3> SUFFICES ASSUME NEW x \in Dest PROVE Proper(n, x, r3.seg[x]) BY DEF Ways
    <3>1. CASE x = s BY <2>14, <2>15, <3>1
    <3>2. CASE x # s
      <4>1. r3.seg[x] = r.seg[x] BY <2>8, <2>15, <3>2
      <4> QED BY <4>1 DEF Ways
    <3> QED BY <3>1, <3>2
  <2> QED BY <2>1, <2>16
<1> QED BY <1>3, <1>4

-----------------------------------------------------------------------------
(* The best way.                                                           *)

LEMMA LeastOf ==
  ASSUME NEW S \in SUBSET Nat, S # {}
  PROVE  (CHOOSE x \in S : \A y \in S : x <= y) \in S
<1>1. OpToRel(<, Nat) = {ss \in Nat \X Nat : ss[1] < ss[2]} BY DEF OpToRel
<1>2. PICK x \in S : \A y \in S : ~(<<y, x>> \in OpToRel(<, Nat))
  BY NatLessThanWellFounded, WFMin
<1>3. ASSUME NEW y \in S PROVE x <= y
  <2>1. x \in Nat /\ y \in Nat OBVIOUS
  <2>2. ~(y < x) BY <1>1, <1>2, <2>1
  <2> QED BY <2>1, <2>2
<1> QED BY <1>3

AllWhole(r) == \A s \in Dest : Whole(r.seg[s])

LEMMA WholeWay ==
  ASSUME NEW r, AllWhole(r), NEW s \in Dest, NEW d \in Dest
  PROVE  /\ Way(r, s, d) \in Nat
         /\ Way(r, s, d) # 0 <=> r.seg[s].route[d].quality # 0 /\ r.seg[s].quality # 0
<1>1. r.seg[s].route[d].quality \in Nat /\ r.seg[s].quality \in Nat BY DEF AllWhole, Whole
<1>2. ASSUME NEW x \in Nat, NEW y \in Nat, NEW dg \in BOOLEAN
      PROVE  LET z == IF x = 0 \/ y = 0 THEN 0
                      ELSE IF dg THEN AtMost(x + y, HORIZONT) ELSE x
             IN  z \in Nat /\ (z # 0 <=> x # 0 /\ y # 0)
  BY DEF AtMost, HORIZONT
<1> QED BY <1>1, <1>2 DEF Way, GetQuality, DG

LEMMA WholeBest ==
  ASSUME NEW r, AllWhole(r), NEW segs \in SUBSET Dest, NEW d \in Dest
  PROVE  /\ Best(r, d, segs).q \in Nat
         /\ Best(r, d, segs).q # 0 <=> \E s \in segs : Way(r, s, d) # 0
         /\ BestQuality(r, d, segs) # 0 <=> \E s \in segs : Way(r, s, d) # 0
<1> DEFINE qs == {Way(r, s, d) : s \in segs} \ {0}
<1> DEFINE q == CHOOSE x \in qs : \A y \in qs : x <= y
<1>1. qs \in SUBSET Nat BY WholeWay
<1>2. qs # {} => q \in qs BY <1>1, LeastOf
<1>3. Best(r, d, segs).q = IF qs = {} THEN 0 ELSE q BY DEF Best
<1>4. qs # {} <=> \E s \in segs : Way(r, s, d) # 0 OBVIOUS
<1> HIDE DEF q
<1>5. q \in qs => q # 0 OBVIOUS
<1> HIDE DEF qs
<1>6. /\ Best(r, d, segs).q \in Nat
      /\ Best(r, d, segs).q # 0 <=> qs # {}
  <2>1. CASE qs = {} BY <1>3, <2>1
  <2>2. CASE qs # {}
    <3>1. q \in qs /\ q \in Nat /\ q # 0 BY <1>1, <1>2, <1>5, <2>2
    <3> QED BY <1>3, <2>2, <3>1
  <2> QED BY <2>1, <2>2
<1>7. BestQuality(r, d, segs) = IF segs = {} THEN 0 ELSE Best(r, d, segs).q
  BY DEF BestQuality
<1>8. segs = {} => ~\E s \in segs : Way(r, s, d) # 0 OBVIOUS
<1> QED BY <1>4, <1>6, <1>7, <1>8

LEMMA WholeAnnounce ==
  ASSUME NEW r, AllWhole(r), NEW s \in Dest, NEW d \in Dest,
         NEW hidden, NEW jam, ToAnnounce(r, s, d, hidden, jam) # Skip
  PROVE  ToAnnounce(r, s, d, hidden, jam) \in Nat
<1> DEFINE best == Best(r, d, Segments(r))
<1> DEFINE q == IF best.seg = s THEN 0 ELSE best.q
<1> DEFINE p == r.seg[s]
<1>1. Segments(r) \in SUBSET Dest BY DEF Segments
<1>2. best.q \in Nat BY <1>1, WholeBest
<1>3. p.quality \in Nat BY DEF AllWhole, Whole
<1>4. ToAnnounce(r, s, d, hidden, jam) = Announce(p, q, p.route[d].reported, d \in hidden, jam)
  BY DEF ToAnnounce
<1>5. q \in Nat BY <1>2
<1> HIDE DEF q, best
<1>6. ASSUME NEW x \in Nat
      PROVE  UWORD(x + x \div 8 + p.quality \div 2) \in Nat
  BY <1>3, <1>6 DEF UWORD
<1> QED BY <1>4, <1>5, <1>6 DEF Announce

-----------------------------------------------------------------------------
(* Frames.                                                                 *)

(* A report names nodes, a datagram comes from a router.                   *)
Fine(f) ==
  /\ f.kind = "rif" => /\ DOMAIN f.rep \subseteq Dest
                       /\ \A d \in DOMAIN f.rep : f.rep[d].q \in Nat
  /\ f.kind = "data" => f.org \in Router

FineSeq(s) ==
  /\ s \in Seq({s[i] : i \in DOMAIN s})
  /\ \A i \in DOMAIN s : Fine(s[i])

Channels(ch) ==
  /\ ch = [n \in Router |-> ch[n]]
  /\ \A n \in Router : ch[n] = [m \in Router |-> ch[n][m]]
  /\ \A n, m \in Router : FineSeq(ch[n][m])

LEMMA SeqOfElements ==
  ASSUME NEW S, NEW s \in Seq(S)
  PROVE  s \in Seq({s[i] : i \in DOMAIN s})
<1>1. Len(s) \in Nat /\ DOMAIN s = 1 .. Len(s) /\ s = [i \in 1 .. Len(s) |-> s[i]]
  BY LenProperties
<1> DEFINE R == {s[i] : i \in DOMAIN s}
<1>2. s \in [1 .. Len(s) -> R] BY <1>1
<1> QED BY <1>1, <1>2, SeqDef

LEMMA FineAppend ==
  ASSUME NEW s, FineSeq(s), NEW f, Fine(f)
  PROVE  FineSeq(Append(s, f))
<1> DEFINE S == {s[i] : i \in DOMAIN s} \cup {f}
<1>1. s \in Seq(S)
  <2>1. s \in Seq({s[i] : i \in DOMAIN s}) BY DEF FineSeq
  <2>2. DOMAIN s = 1 .. Len(s) /\ Len(s) \in Nat /\ s = [i \in 1 .. Len(s) |-> s[i]]
    BY <2>1, LenProperties
  <2>3. s \in [1 .. Len(s) -> S] BY <2>2
  <2> QED BY <2>2, <2>3, SeqDef
<1>2. f \in S OBVIOUS
<1>3. \A i \in DOMAIN s : Fine(s[i]) BY DEF FineSeq
<1> HIDE DEF S
<1>4. /\ Append(s, f) \in Seq(S)
      /\ DOMAIN s = 1 .. Len(s) /\ DOMAIN Append(s, f) = 1 .. Len(s) + 1
      /\ \A i \in 1 .. Len(s) : Append(s, f)[i] = s[i]
      /\ Append(s, f)[Len(s) + 1] = f
      /\ Len(s) \in Nat
  BY <1>1, <1>2, AppendProperties, LenProperties
<1>5. ASSUME NEW i \in DOMAIN Append(s, f) PROVE Fine(Append(s, f)[i])
  <2>1. i \in 1 .. Len(s) \/ i = Len(s) + 1 BY <1>4
  <2> QED BY <1>3, <1>4, <2>1
<1> QED BY <1>4, <1>5, SeqOfElements DEF FineSeq

LEMMA FineHeadTail ==
  ASSUME NEW s, FineSeq(s), s # <<>>
  PROVE  Fine(Head(s)) /\ FineSeq(Tail(s))
<1> DEFINE S == {s[i] : i \in DOMAIN s}
<1>1. s \in Seq(S) BY DEF FineSeq
<1>2. \A i \in DOMAIN s : Fine(s[i]) BY DEF FineSeq
<1> HIDE DEF S
<1>3. /\ Tail(s) \in Seq(S)
      /\ DOMAIN s = 1 .. Len(s) /\ Len(s) \in Nat /\ Len(s) > 0
      /\ DOMAIN Tail(s) = 1 .. Len(s) - 1
      /\ \A i \in 1 .. Len(s) - 1 : Tail(s)[i] = s[i + 1]
      /\ Head(s) = s[1]
  BY <1>1, HeadTailProperties, LenProperties, EmptySeq
<1>4. Fine(Head(s)) BY <1>2, <1>3
<1>5. ASSUME NEW i \in DOMAIN Tail(s) PROVE Fine(Tail(s)[i])
  <2>1. i \in 1 .. Len(s) - 1 /\ i + 1 \in DOMAIN s BY <1>3
  <2> QED BY <1>2, <1>3, <2>1
<1>6. \A t \in Seq(S) : t \in Seq({t[i] : i \in DOMAIN t}) BY SeqOfElements
<1>7. Tail(s) \in Seq({Tail(s)[i] : i \in DOMAIN Tail(s)}) BY <1>3, <1>6, Zenon
<1> QED BY <1>4, <1>5, <1>7, Zenon DEF FineSeq

LEMMA FineEmpty == FineSeq(<<>>)
<1>1. <<>> \in Seq({}) /\ DOMAIN <<>> = {} BY EmptySeq, LenProperties
<1> QED BY <1>1, SeqOfElements DEF FineSeq

LEMMA FineFrom ==
  ASSUME NEW s, FineSeq(s), NEW k \in 1 .. Len(s) + 1
  PROVE  LET t == From(s, k)
         IN  /\ FineSeq(t) /\ DOMAIN t = 1 .. Len(s) + 1 - k
             /\ \A i \in DOMAIN t : i + (k - 1) \in DOMAIN s /\ t[i] = s[i + (k - 1)]
<1> DEFINE S == {s[i] : i \in DOMAIN s}
<1> DEFINE t == From(s, k)
<1>1. s \in Seq(S) /\ \A i \in DOMAIN s : Fine(s[i]) BY DEF FineSeq
<1>2. \A i \in DOMAIN s : s[i] \in S OBVIOUS
<1> HIDE DEF S
<1>3. DOMAIN s = 1 .. Len(s) /\ Len(s) \in Nat BY <1>1, LenProperties
<1>4. k \in Int /\ Len(s) \in Int BY <1>3
<1>5. \A i \in k .. Len(s) : s[i] \in S BY <1>2, <1>3
<1>6. /\ t \in Seq(S)
      /\ Len(t) = (IF k <= Len(s) THEN Len(s) - k + 1 ELSE 0)
      /\ \A i \in 1 .. Len(s) - k + 1 : t[i] = s[k + i - 1]
  BY <1>4, <1>5, SubSeqProperties DEF From
<1>7. DOMAIN t = 1 .. Len(t) BY <1>6, LenProperties
<1> HIDE DEF t
<1>8. Len(t) = Len(s) + 1 - k BY <1>3, <1>6
<1>9. \A i \in DOMAIN t : i + (k - 1) \in DOMAIN s /\ t[i] = s[i + (k - 1)]
  <2> SUFFICES ASSUME NEW i \in DOMAIN t PROVE i + (k - 1) \in DOMAIN s /\ t[i] = s[i + (k - 1)]
    OBVIOUS
  <2>1. i \in 1 .. Len(s) - k + 1 /\ k + i - 1 = i + (k - 1) BY <1>3, <1>7, <1>8
  <2> QED BY <1>3, <1>6, <2>1
<1>10. FineSeq(t)
  <2>1. t \in Seq({t[i] : i \in DOMAIN t}) BY <1>6, SeqOfElements
  <2>2. \A i \in DOMAIN t : Fine(t[i]) BY <1>1, <1>9
  <2> QED BY <2>1, <2>2, Zenon DEF FineSeq
<1> QED BY <1>7, <1>8, <1>9, <1>10 DEF t

(* The answer to a call goes in front of what waits.                       *)
LEMMA FineAnswer ==
  ASSUME NEW s, FineSeq(s)
  PROVE  LET t == <<UA>> \o s
         IN  /\ FineSeq(t) /\ 1 \in DOMAIN t /\ t[1] = UA
             /\ \A i \in DOMAIN t : i = 1 \/ (i > 1 /\ i - 1 \in DOMAIN s /\ t[i] = s[i - 1])
<1> DEFINE S == {s[i] : i \in DOMAIN s} \cup {UA}
<1> DEFINE u == <<UA>>
<1> DEFINE t == u \o s
<1>1. u \in Seq(S) /\ Len(u) = 1 /\ u[1] = UA OBVIOUS
<1>2. s \in Seq({s[i] : i \in DOMAIN s}) /\ \A i \in DOMAIN s : Fine(s[i]) BY DEF FineSeq
<1>3. DOMAIN s = 1 .. Len(s) /\ Len(s) \in Nat /\ s = [i \in 1 .. Len(s) |-> s[i]]
  BY <1>2, LenProperties
<1>4. s \in Seq(S)
  <2>1. s \in [1 .. Len(s) -> S] BY <1>3
  <2> QED BY <1>3, <2>1, SeqDef
<1> HIDE DEF S, u
<1>5. /\ t \in Seq(S) /\ Len(t) = 1 + Len(s)
      /\ \A i \in 1 .. 1 + Len(s) : t[i] = IF i <= 1 THEN u[i] ELSE s[i - 1]
  <2>1. /\ u \o s \in Seq(S) /\ Len(u \o s) = Len(u) + Len(s)
        /\ \A i \in 1 .. Len(u) + Len(s) :
             (u \o s)[i] = IF i <= Len(u) THEN u[i] ELSE s[i - Len(u)]
    BY <1>1, <1>4, ConcatProperties
  <2> QED BY <1>1, <2>1
<1>6. DOMAIN t = 1 .. Len(t) BY <1>5, LenProperties
<1> HIDE DEF t
<1>7. 1 \in DOMAIN t /\ t[1] = UA BY <1>1, <1>3, <1>5, <1>6
<1>8. \A i \in DOMAIN t : i = 1 \/ (i > 1 /\ i - 1 \in DOMAIN s /\ t[i] = s[i - 1])
  BY <1>3, <1>5, <1>6
<1>9. FineSeq(t)
  <2>1. t \in Seq({t[i] : i \in DOMAIN t}) BY <1>5, SeqOfElements
  <2>2. Fine(UA) BY DEF Fine, UA
  <2>3. \A i \in DOMAIN t : Fine(t[i]) BY <1>2, <1>7, <1>8, <2>2
  <2> QED BY <2>1, <2>3, Zenon DEF FineSeq
<1> QED BY <1>7, <1>8, <1>9 DEF t, u

LEMMA FineUnanswered ==
  ASSUME NEW s, FineSeq(s)
  PROVE  FineSeq(Unanswered(s))
BY FineHeadTail DEF Unanswered, Renewing

LEMMA SetChannel ==
  ASSUME NEW ch, Channels(ch), NEW n, NEW m, NEW s,
         n \in Router /\ m \in Router => FineSeq(s)
  PROVE  Channels([ch EXCEPT ![n][m] = s])
BY DEF Channels

LEMMA SendChannels ==
  ASSUME NEW ch, Channels(ch), NEW n, NEW m, NEW f, Fine(f)
  PROVE  Channels(Send(ch, n, m, f))
<1>1. n \in Router /\ m \in Router => FineSeq(Append(ch[n][m], f))
  BY FineAppend DEF Channels
<1>2. Channels([ch EXCEPT ![n][m] = Append(ch[n][m], f)]) BY <1>1, SetChannel
<1> QED BY <1>2 DEF Send

LEMMA LostChannels ==
  ASSUME NEW ch, Channels(ch), NEW n, NEW m
  PROVE  Channels(Lost(ch, n, m))
<1> DEFINE ch1 == [ch EXCEPT ![n][m] = <<>>]
<1>1. Channels(ch1) BY FineEmpty, SetChannel
<1>2. Lost(ch, n, m) = [ch1 EXCEPT ![m][n] = Unanswered(ch[m][n])] BY DEF Lost
<1> HIDE DEF ch1
<1>3. n \in Router /\ m \in Router => FineSeq(Unanswered(ch[m][n]))
  BY FineUnanswered DEF Channels
<1>4. Channels([ch1 EXCEPT ![m][n] = Unanswered(ch[m][n])]) BY <1>1, <1>3, SetChannel
<1> QED BY <1>2, <1>4

LEMMA FineFrames ==
  ASSUME NEW n \in Router
  PROVE  /\ \A p : Fine(RttFrame(p, n))
         /\ \A dst, ttl : Fine(DatagramFrame(n, dst, ttl))
BY DEF Fine, RttFrame, DatagramFrame

LEMMA FineReport ==
  ASSUME NEW rep, DOMAIN rep \subseteq Dest, \A d \in DOMAIN rep : rep[d].q \in Nat
  PROVE  Fine(ReportFrame(rep))
BY DEF Fine, ReportFrame

-----------------------------------------------------------------------------
(* The inductive invariant.                                                *)

Tables ==
  /\ router = [n \in Router |-> router[n]]
  /\ \A n \in Router : IsRouter(router[n]) /\ Ways(n, router[n])

(* Level 4 has circuits with routers that are known.                       *)
CircuitsKnown == \A n \in Router : circuit[n] \subseteq router[n].known \cap Router

Circuits == circuit = [n \in Router |-> circuit[n]] /\ CircuitsKnown

Kept == Tables /\ Channels(chan) /\ Circuits

LEMMA InitKept == Init => Kept
<1> SUFFICES ASSUME Init PROVE Kept OBVIOUS
<1>1. ASSUME NEW n \in Router PROVE IsRouter(EmptyRouter(n))
  <2>1. \A s \in Dest : Counted([EmptySegment EXCEPT !.used = s \in Neighbour(n)])
    BY EmptyCounted, SetField DEF SegmentFields
  <2> QED BY <2>1 DEF EmptyRouter, IsRouter, IsRec, RouterFields
<1>2. Tables BY <1>1, EmptyRouterWays DEF Init, Tables
<1>3. Channels(chan) BY FineEmpty DEF Init, Quiet, Channels
<1>4. Circuits BY DEF Init, Quiet, Circuits, CircuitsKnown
<1> QED BY <1>2, <1>3, <1>4 DEF Kept

(* New tables for n, of which level 4 is told.                             *)
LEMMA BecomeKeeps ==
  ASSUME Kept, NEW n \in Router, NEW r, IsRouter(r), Ways(n, r), Become(n, r)
  PROVE  Tables' /\ Circuits'
<1>1. /\ router' = [router EXCEPT ![n] = r]
      /\ circuit' = [circuit EXCEPT ![n] = circuit[n] \ (router[n].known \ r.known)]
  BY DEF Become
<1>2. Tables' BY <1>1 DEF Kept, Tables
<1>3. Circuits' BY <1>1 DEF Kept, Tables, Circuits, CircuitsKnown
<1> QED BY <1>2, <1>3

(* New tables for n with the same nodes.                                   *)
LEMMA RouterKeeps ==
  ASSUME Kept, NEW n \in Router, NEW r, IsRouter(r), Ways(n, r), r.known = router[n].known,
         router' = [router EXCEPT ![n] = r], circuit' = circuit
  PROVE  Tables' /\ Circuits'
<1>1. Tables' BY DEF Kept, Tables
<1>2. Circuits' BY DEF Kept, Tables, Circuits, CircuitsKnown
<1> QED BY <1>1, <1>2

LEMMA KeptRouter ==
  ASSUME Kept, NEW n \in Router
  PROVE  /\ IsRouter(router[n]) /\ Ways(n, router[n])
         /\ \A m \in Router : IsRouter([router[n] EXCEPT !.seg[m].nbrl2l = "up"])
         /\ \A m \in Router : IsRouter([router[n] EXCEPT !.seg[m].nbrl2l = "none"])
         /\ \A m \in Router : \A v :
              /\ IsRouter([router[n] EXCEPT !.seg[m].nbrl2l = v])
              /\ [router[n] EXCEPT !.seg[m].nbrl2l = v].known = router[n].known
              /\ IsRouter([router[n] EXCEPT !.seg[m].rttstart = v])
              /\ [router[n] EXCEPT !.seg[m].rttstart = v].known = router[n].known
              /\ Ways(n, [router[n] EXCEPT !.seg[m].rttstart = v])
              /\ v # "none" => Ways(n, [router[n] EXCEPT !.seg[m].nbrl2l = v])
<1>1. IsRouter(router[n]) /\ Ways(n, router[n]) BY DEF Kept, Tables
<1>2. Router \subseteq Dest BY DEF Dest
<1>3. ASSUME NEW m \in Router, NEW v
      PROVE  /\ IsRouter([router[n] EXCEPT !.seg[m].nbrl2l = v])
             /\ [router[n] EXCEPT !.seg[m].nbrl2l = v].known = router[n].known
             /\ IsRouter([router[n] EXCEPT !.seg[m].rttstart = v])
             /\ [router[n] EXCEPT !.seg[m].rttstart = v].known = router[n].known
             /\ Ways(n, [router[n] EXCEPT !.seg[m].rttstart = v])
             /\ v # "none" => Ways(n, [router[n] EXCEPT !.seg[m].nbrl2l = v])
  <2>1. IsRouter([router[n] EXCEPT !.seg[m].nbrl2l = v])
    BY <1>1, <1>2, SetSegmentField DEF SegmentFields
  <2>2. IsRouter([router[n] EXCEPT !.seg[m].rttstart = v])
    BY <1>1, <1>2, SetSegmentField DEF SegmentFields
  <2>3. /\ [router[n] EXCEPT !.seg[m].nbrl2l = v].known = router[n].known
        /\ [router[n] EXCEPT !.seg[m].rttstart = v].known = router[n].known
    BY <1>1 DEF IsRouter, IsRec, RouterFields
  <2>4. Ways(n, [router[n] EXCEPT !.seg[m].rttstart = v])
    <3>1. Whole(router[n].seg[m]) BY <1>1, <1>2 DEF Ways, Proper
    <3>2. LessAt(m, router[n], [router[n] EXCEPT !.seg[m].rttstart = v])
      BY <1>1, <1>2, <3>1, LessField
    <3> QED BY <1>1, <1>2, <3>2, WaysLess
  <2>5. v # "none" => Ways(n, [router[n] EXCEPT !.seg[m].nbrl2l = v])
    BY <1>1, <1>2, LinkStateWays
  <2> QED BY <2>1, <2>2, <2>3, <2>4, <2>5
<1> QED BY <1>1, <1>3

-----------------------------------------------------------------------------
(* The actions.                                                            *)

LEMMA LinksKeep ==
  ASSUME Kept, NEW n \in Router, NEW m \in Router
  PROVE  /\ Connect(n, m) => Kept'
         /\ Accept(n, m) => Kept'
         /\ Fail(n, m) => Kept'
         /\ Busy(n, m) => Kept'
         /\ Notice(n, m) => Kept'
         /\ Reset(n, m) => Kept'
<1> DEFINE gone == LinkGone([router[n] EXCEPT !.seg[m].nbrl2l = "none"], m)
<1> DEFINE up == [router[m] EXCEPT !.seg[n].nbrl2l = "up"]
<1>1. Router \subseteq Dest BY DEF Dest
<1>2. IsRouter(up) /\ Ways(m, up) BY KeptRouter
<1>3. IsRouter(gone) /\ Ways(n, gone)
  <2>1. IsRouter(router[n]) /\ Ways(n, router[n]) BY KeptRouter
  <2>2. Ways(n, gone) BY <1>1, <2>1, GoneWays
  <2> QED BY <1>1, <2>2, KeptRouter, LinkRouter
<1>4. /\ IsRouter(LinkReset(LinkReset(up, n), n)) /\ IsRouter(LinkConnected(up, n))
      /\ Ways(m, LinkReset(LinkReset(up, n), n)) /\ Ways(m, LinkConnected(up, n))
  <2> HIDE DEF up
  <2>1. IsRouter(LinkReset(up, n)) /\ Ways(m, LinkReset(up, n)) BY <1>1, <1>2, LinkRouter, LinkWays
  <2> QED BY <1>1, <1>2, <2>1, LinkRouter, LinkWays
<1>5. Channels(chan) BY DEF Kept
<1> HIDE DEF gone, up
<1>6. CASE Connect(n, m)
  <2> DEFINE r == [router[n] EXCEPT !.seg[m].nbrl2l = "setup"]
  <2>1. IsRouter(r) /\ Ways(n, r) /\ r.known = router[n].known BY KeptRouter
  <2>2. router' = [router EXCEPT ![n] = r] /\ circuit' = circuit /\ chan' = chan
    BY <1>6 DEF Connect
  <2> HIDE DEF r
  <2>3. Tables' /\ Circuits' BY <2>1, <2>2, RouterKeeps
  <2> QED BY <1>5, <2>2, <2>3 DEF Kept
<1>7. CASE Accept(n, m)
  <2> DEFINE r == IF Up(m, n) THEN LinkReset(LinkReset(up, n), n) ELSE LinkConnected(up, n)
  <2>1. Become(m, r) BY <1>7 DEF Accept, up
  <2>2. PICK i \in 1 .. Len(chan[n][m]) + 1, j \in 1 .. Len(chan[m][n]) + 1 :
          chan' = [chan EXCEPT ![n][m] = From(chan[n][m], i),
                               ![m][n] = <<UA>> \o From(chan[m][n], j)]
    BY <1>7 DEF Accept
  <2>3. IsRouter(r) /\ Ways(m, r) BY <1>4
  <2> HIDE DEF r
  <2>4. Tables' /\ Circuits' BY <2>1, <2>3, BecomeKeeps
  <2>5. FineSeq(chan[n][m]) /\ FineSeq(chan[m][n]) BY <1>5 DEF Channels
  <2> DEFINE c == From(chan[n][m], i)
  <2> DEFINE b == <<UA>> \o From(chan[m][n], j)
  <2>6. FineSeq(c) BY <2>5, FineFrom
  <2>7. FineSeq(From(chan[m][n], j)) BY <2>5, FineFrom
  <2>8. FineSeq(b) BY <2>7, FineAnswer
  <2>9. chan' = [[chan EXCEPT ![n][m] = c] EXCEPT ![m][n] = b] BY <2>2
  <2> HIDE DEF c, b
  <2>10. Channels(chan') BY <1>5, <2>6, <2>8, <2>9, SetChannel
  <2> QED BY <2>4, <2>10 DEF Kept, Channels
<1>8. CASE Fail(n, m) \/ Notice(n, m)
  <2>1. Become(n, gone) /\ chan' = Lost(chan, n, m)
    BY <1>8 DEF Fail, Notice, gone
  <2>2. Tables' /\ Circuits' BY <1>3, <2>1, BecomeKeeps
  <2>3. Channels(chan') BY <1>5, <2>1, LostChannels
  <2> QED BY <2>2, <2>3 DEF Kept, Channels
<1>9. CASE Busy(n, m)
  <2>1. /\ router' = [router EXCEPT ![n] = gone] /\ chan' = Lost(chan, n, m)
        /\ circuit' = [circuit EXCEPT ![n] = {d \in circuit[n] : IsCall(gone, d, Datagram(gone))}]
    BY <1>9 DEF Busy, gone
  <2>2. \A d : IsCall(gone, d, Datagram(gone)) => d \in gone.known BY DEF IsCall
  <2>3. Tables' BY <1>3, <2>1 DEF Kept, Tables
  <2>4. Circuits' BY <2>1, <2>2 DEF Kept, Tables, Circuits, CircuitsKnown
  <2>5. Channels(chan') BY <1>5, <2>1, LostChannels
  <2> QED BY <2>3, <2>4, <2>5 DEF Kept, Channels
<1>10. CASE Reset(n, m)
  <2> DEFINE setup == [router[n] EXCEPT !.seg[m].nbrl2l = "setup"]
  <2>1. Become(n, LinkReset(setup, m)) /\ chan' = chan BY <1>10 DEF Reset
  <2>2. IsRouter(setup) /\ Ways(n, setup) BY KeptRouter
  <2> HIDE DEF setup
  <2>3. IsRouter(LinkReset(setup, m)) /\ Ways(n, LinkReset(setup, m))
    BY <1>1, <2>2, LinkRouter, LinkWays
  <2>4. Tables' /\ Circuits' BY <2>1, <2>3, BecomeKeeps
  <2> QED BY <1>5, <2>1, <2>4 DEF Kept, Channels
<1> QED BY <1>6, <1>7, <1>8, <1>9, <1>10

LEMMA RestartKeeps ==
  ASSUME Kept, NEW n \in Router, Restart(n)
  PROVE  Kept'
<1>1. IsRouter(EmptyRouter(n))
  <2>1. \A s \in Dest : Counted([EmptySegment EXCEPT !.used = s \in Neighbour(n)])
    BY EmptyCounted, SetField DEF SegmentFields
  <2> QED BY <2>1 DEF EmptyRouter, IsRouter, IsRec, RouterFields
<1>2. /\ router' = [router EXCEPT ![n] = EmptyRouter(n)]
      /\ chan' = [a \in Router |-> [b \in Router |->
                    IF a = n THEN <<>>
                    ELSE IF b = n THEN Unanswered(chan[a][b]) ELSE chan[a][b]]]
      /\ circuit' = [circuit EXCEPT ![n] = {}]
  BY DEF Restart
<1>3. Tables' BY <1>1, <1>2, EmptyRouterWays DEF Kept, Tables
<1>4. Circuits' BY <1>2 DEF Kept, Tables, Circuits, CircuitsKnown
<1>5. \A a, b \in Router : FineSeq(Unanswered(chan[a][b])) /\ FineSeq(chan[a][b])
  BY FineUnanswered DEF Kept, Channels
<1>6. Channels(chan') BY <1>2, <1>5, FineEmpty DEF Channels
<1> QED BY <1>3, <1>4, <1>6 DEF Kept, Channels

LEMMA ClockKeeps ==
  ASSUME Kept, NEW n \in Router
  PROVE  /\ \A m \in Router :
              /\ StartMeasurement(n, m) => Kept'
              /\ \A jam \in BOOLEAN : Broadcast(n, m, jam) => Kept'
              /\ AnHour(n, m) => Kept'
         /\ Minute(n) => Kept'
         /\ Drop(n) => Kept'
<1>1. Router \subseteq Dest BY DEF Dest
<1>2. IsRouter(router[n]) /\ Ways(n, router[n]) BY KeptRouter
<1>3. Channels(chan) BY DEF Kept
<1>4. ASSUME NEW m \in Router, StartMeasurement(n, m) PROVE Kept'
  <2> DEFINE r == [router[n] EXCEPT !.seg[m].rttstart = TRUE]
  <2>1. /\ router' = [router EXCEPT ![n] = r] /\ circuit' = circuit
        /\ chan' = Send(chan, n, m, RttFrame(router[n].seg[m], n))
    BY <1>4 DEF StartMeasurement
  <2>2. IsRouter(r) /\ Ways(n, r) /\ r.known = router[n].known BY KeptRouter
  <2> HIDE DEF r
  <2>3. Tables' /\ Circuits' BY <2>1, <2>2, RouterKeeps
  <2>4. Channels(chan') BY <1>3, <2>1, SendChannels, FineFrames
  <2> QED BY <2>3, <2>4 DEF Kept, Channels
<1>5. ASSUME NEW m \in Router, NEW jam \in BOOLEAN, Broadcast(n, m, jam) PROVE Kept'
  <2> DEFINE r == InformPeer(router[n], m, Hidden, jam)
  <2> DEFINE rep == Report(router[n], m, Hidden, jam)
  <2>1. /\ router' = [router EXCEPT ![n] = r] /\ circuit' = circuit
        /\ chan' = Send(chan, n, m, ReportFrame(rep))
    BY <1>5 DEF Broadcast
  <2>2. IsRouter(r) /\ r.known = router[n].known BY <1>1, <1>2, InformPeerRouter
  <2>3. DOMAIN rep \subseteq Dest BY <1>2 DEF Report, Announced, IsRouter
  <2>6. \A d \in DOMAIN rep : rep[d].q \in Nat
    <3> DEFINE q(d) == ToAnnounce(router[n], m, d, Hidden, jam)
    <3>1. AllWhole(router[n]) BY <1>2 DEF AllWhole, Ways, Proper
    <3>2. \A d \in DOMAIN rep : q(d) # Skip /\ rep[d].q = IF q(d) = 0 THEN HORIZONT ELSE q(d)
      BY DEF Report, Announced
    <3>3. \A d \in DOMAIN rep : q(d) \in Nat BY <1>1, <2>3, <3>1, <3>2, WholeAnnounce
    <3>4. HORIZONT \in Nat BY DEF HORIZONT
    <3> HIDE DEF q, rep
    <3> QED BY <3>2, <3>3, <3>4
  <2>7. Ways(n, r)
    <3>1. router[n].seg[m].nbrl2l # "none" BY <1>5 DEF Broadcast, MayReport, Up, LinkState
    <3> QED BY <1>2, <3>1, InformPeerWays
  <2> HIDE DEF r, rep
  <2>4. Tables' /\ Circuits' BY <2>1, <2>2, <2>7, RouterKeeps
  <2>5. Channels(chan') BY <1>3, <2>1, <2>3, <2>6, SendChannels, FineReport
  <2> QED BY <2>4, <2>5 DEF Kept, Channels
<1>6. ASSUME NEW m \in Router, AnHour(n, m) PROVE Kept'
  <2>1. router' = [router EXCEPT ![n] = Hourly(router[n], m)] /\ circuit' = circuit /\ chan' = chan
    BY <1>6 DEF AnHour
  <2>2. /\ IsRouter(Hourly(router[n], m)) /\ Hourly(router[n], m).known = router[n].known
        /\ Ways(n, Hourly(router[n], m))
    BY <1>1, <1>2, HourlyRouter, HourlyWays
  <2>3. Tables' /\ Circuits' BY <2>1, <2>2, RouterKeeps
  <2> QED BY <1>3, <2>1, <2>3 DEF Kept, Channels
<1>7. ASSUME Minute(n) PROVE Kept'
  <2> DEFINE old == router[n]
  <2> DEFINE seg == [s \in Dest |-> IF old.seg[s].used THEN AgeSegment(old.seg[s], old.known)
                                    ELSE old.seg[s]]
  <2> DEFINE r == [old EXCEPT !.seg = seg]
  <2>1. router' = [router EXCEPT ![n] = r] /\ circuit' = circuit /\ chan' = chan
    BY <1>7 DEF Minute
  <2>2. \A s \in Dest : Counted(seg[s]) BY <1>2, AgeSegmentCounted DEF IsRouter
  <2>3. seg = [s \in Dest |-> seg[s]] OBVIOUS
  <2>6. \A s \in Dest : Proper(n, s, seg[s])
    <3> TAKE s \in Dest
    <3>1. Counted(old.seg[s]) /\ Proper(n, s, old.seg[s]) /\ old.known \in SUBSET Dest
      BY <1>2 DEF IsRouter, Ways
    <3>2. Whole(old.seg[s]) BY <3>1 DEF Proper
    <3> HIDE DEF old
    <3>3. Less(old.seg[s], AgeSegment(old.seg[s], old.known)) BY <3>1, <3>2, LessAge
    <3>4. Proper(n, s, AgeSegment(old.seg[s], old.known)) BY <3>1, <3>3, ProperLess
    <3> QED BY <3>1, <3>4
  <2> HIDE DEF seg
  <2>4. IsRouter(r) /\ r.known = router[n].known
    BY <1>2, <2>2, <2>3 DEF IsRouter, IsRec, RouterFields
  <2>7. Ways(n, r)
    <3>1. r.seg = seg BY <1>2 DEF IsRouter, IsRec, RouterFields
    <3> QED BY <2>6, <3>1 DEF Ways
  <2> HIDE DEF r
  <2>5. Tables' /\ Circuits' BY <2>1, <2>4, <2>7, RouterKeeps
  <2> QED BY <1>3, <2>1, <2>5 DEF Kept, Channels
<1>8. ASSUME Drop(n) PROVE Kept'
  <2>1. Become(n, DropUnreachable(router[n])) /\ chan' = chan BY <1>8 DEF Drop
  <2>3. Ways(n, DropUnreachable(router[n])) BY <1>2, SameSegments DEF Ways
  <2>2. Tables' /\ Circuits' BY <1>2, <2>1, <2>3, DropUnreachableRouter, BecomeKeeps
  <2> QED BY <1>3, <2>1, <2>2 DEF Kept, Channels
<1> QED BY <1>4, <1>5, <1>6, <1>7, <1>8

LEMMA ToggleLocalKeeps ==
  ASSUME Kept, NEW d \in Local, ToggleLocal(d)
  PROVE  Kept'
<1> DEFINE n == Home[d]
<1> DEFINE r == IF router[n].seg[d].used THEN UnregisterLocal(router[n], d)
                ELSE RegisterLocal(router[n], d)
<1>1. n \in Router /\ d \in Dest BY LineAssumption DEF Dest
<1>2. Become(n, r) /\ chan' = chan BY DEF ToggleLocal
<1> HIDE DEF n
<1>3. IsRouter(router[n]) /\ Ways(n, router[n]) BY <1>1, KeptRouter
<1>4. IsRouter(r) /\ Ways(n, r) BY <1>1, <1>3, LocalRouter, LocalWays
<1> HIDE DEF r
<1>5. Tables' /\ Circuits' BY <1>1, <1>2, <1>4, BecomeKeeps
<1> QED BY <1>2, <1>5 DEF Kept, Channels

-----------------------------------------------------------------------------
(* Received frames.                                                        *)

LEMMA RxOwnRttKeeps ==
  ASSUME Kept, NEW n \in Router, NEW m \in Router, Up(n, m), NEW f,
         NEW ch, Channels(ch), RxOwnRtt(n, m, f, ch)
  PROVE  Kept'
<1> DEFINE old == router[n].seg[m]
<1>1. PICK rtt \in Rtt[n][m] :
        LET p == [UpdatePeerQuality(router[n].seg[m], rtt, -1) EXCEPT !.rttstart = FALSE]
            r == AddRoute([router[n] EXCEPT !.seg[m] = p], m, m, 1, 1)
        IN IF ~router[n].seg[m].rttstart \/ Overtaken(ch, n, m)
           THEN Become(n, router[n]) /\ chan' = ch
           ELSE /\ Become(n, [r EXCEPT !.seg[m].rttstart = f.first])
                /\ chan' = IF f.first THEN Send(ch, n, m, RttFrame(r.seg[m], n)) ELSE ch
  BY DEF RxOwnRtt
<1> DEFINE p == [UpdatePeerQuality(router[n].seg[m], rtt, -1) EXCEPT !.rttstart = FALSE]
<1> DEFINE r == AddRoute([router[n] EXCEPT !.seg[m] = p], m, m, 1, 1)
<1> DEFINE r2 == [r EXCEPT !.seg[m].rttstart = f.first]
<1>2. \/ Become(n, router[n]) /\ chan' = ch
      \/ Become(n, r2) /\ chan' \in {Send(ch, n, m, RttFrame(r.seg[m], n)), ch}
  BY <1>1
<1>3. m \in Dest BY DEF Dest
<1>4. IsRouter(router[n]) /\ Ways(n, router[n]) BY KeptRouter
<1>5. Counted(router[n].seg[m]) BY <1>3, <1>4 DEF IsRouter
<1>6. Counted(UpdatePeerQuality(router[n].seg[m], rtt, -1))
  BY <1>5, UpdatePeerQualityCounted
<1>7. Counted(p) BY <1>6, SetField DEF SegmentFields
<1> DEFINE u == [router[n] EXCEPT !.seg[m] = UpdatePeerQuality(@, rtt, -1)]
<1> DEFINE v == [u EXCEPT !.seg[m].rttstart = FALSE]
<1>13. /\ Ways(n, [router[n] EXCEPT !.seg[m] = p])
       /\ [router[n] EXCEPT !.seg[m] = p].seg[m].nbrl2l # "none"
  <2>1. Whole(router[n].seg[m]) /\ rtt \in Nat BY <1>3, <1>4, RttAssumption DEF Ways, Proper
  <2>2. IsRouter(u) /\ LessAt(m, router[n], u)
    BY <1>3, <1>4, <2>1, LessQuality, UpdatePeerQualityRouter
  <2>3. v = [router[n] EXCEPT !.seg[m] = p]
    BY <1>3, <1>4 DEF IsRouter, IsRec, RouterFields
  <2> HIDE DEF u
  <2>4. Whole(u.seg[m]) BY <2>1, <2>2, LessWhole DEF LessAt
  <2>5. LessAt(m, u, v) BY <1>3, <2>2, <2>4, LessField
  <2> HIDE DEF v, p
  <2>6. LessAt(m, router[n], v) BY <2>2, <2>5, LessTwice
  <2>7. Ways(n, v) BY <1>3, <1>4, <2>6, WaysLess
  <2>8. v.seg[m].nbrl2l = router[n].seg[m].nbrl2l BY <2>6 DEF LessAt, Less
  <2> QED BY <2>3, <2>7, <2>8 DEF Up, LinkState
<1> HIDE DEF p
<1>8. IsRouter([router[n] EXCEPT !.seg[m] = p]) BY <1>3, <1>4, <1>7, SetSegment
<1>9. IsRouter(r) /\ Ways(n, r) BY <1>3, <1>8, <1>13, AddRouteRouter, AddRouteWays
<1> HIDE DEF r
<1>10. IsRouter(r2) /\ Ways(n, r2)
  <2>1. Whole(r.seg[m]) BY <1>3, <1>9 DEF Ways, Proper
  <2>2. LessAt(m, r, r2) BY <1>3, <1>9, <2>1, LessField
  <2> QED BY <1>3, <1>9, <2>2, SetSegmentField, WaysLess DEF SegmentFields
<1> HIDE DEF r2
<1>11. Tables' /\ Circuits' BY <1>2, <1>4, <1>10, BecomeKeeps
<1>12. Channels(chan') BY <1>2, SendChannels, FineFrames
<1> QED BY <1>11, <1>12 DEF Kept, Channels

LEMMA RxRttKeeps ==
  ASSUME Kept, NEW n \in Router, NEW m \in Router, Up(n, m), NEW f, Fine(f),
         NEW ch, Channels(ch), RxRtt(n, m, f, ch)
  PROVE  Kept'
<1> DEFINE r1 == IF router[n].seg[m].typ = "INP" THEN router[n]
                 ELSE SetPeerTyp(router[n], m, "INP")
<1> DEFINE r2 == IF f.srtt >= 5 THEN [r1 EXCEPT !.seg[m] = UpdatePeerQuality(@, -1, f.srtt)]
                 ELSE r1
<1> DEFINE r3 == AddRoute(r2, m, m, 1, 1)
<1> DEFINE back == Send(ch, n, m, f)
<1> DEFINE own == ReportFrame([d \in {n} |-> [q |-> 1, lt |-> 1]])
<1>1. Become(n, r3) /\ chan' \in {back, Send(back, n, m, own)} BY DEF RxRtt
<1>2. m \in Dest /\ n \in Dest BY DEF Dest
<1>3. IsRouter(router[n]) /\ Ways(n, router[n]) BY KeptRouter
<1>4. /\ IsRouter(r1) /\ Ways(n, r1) /\ r1.seg[m].nbrl2l # "none"
  <2>1. Whole(router[n].seg[m]) BY <1>2, <1>3 DEF Ways, Proper
  <2>2. LessAt(m, router[n], SetPeerTyp(router[n], m, "INP")) BY <1>2, <1>3, <2>1, LessTyp
  <2>3. Ways(n, SetPeerTyp(router[n], m, "INP")) BY <1>2, <1>3, <2>2, WaysLess
  <2>4. SetPeerTyp(router[n], m, "INP").seg[m].nbrl2l = router[n].seg[m].nbrl2l
    BY <2>2 DEF LessAt, Less
  <2> QED BY <1>2, <1>3, <2>3, <2>4, SetPeerTypRouter DEF Up, LinkState
<1> HIDE DEF r1
<1>5. /\ IsRouter(r2) /\ Ways(n, r2) /\ r2.seg[m].nbrl2l # "none"
  <2> DEFINE u == [r1 EXCEPT !.seg[m] = UpdatePeerQuality(@, -1, f.srtt)]
  <2>1. Whole(r1.seg[m]) BY <1>2, <1>4 DEF Ways, Proper
  <2>2. LessAt(m, r1, u) BY <1>2, <1>4, <2>1, LessQuality
  <2>3. Ways(n, u) BY <1>2, <1>4, <2>2, WaysLess
  <2>4. u.seg[m].nbrl2l = r1.seg[m].nbrl2l BY <2>2 DEF LessAt, Less
  <2>5. IsRouter(u) BY <1>2, <1>4, UpdatePeerQualityRouter
  <2> HIDE DEF u
  <2>6. r2 \in {u, r1} BY DEF u
  <2> HIDE DEF r2
  <2> QED BY <1>4, <2>3, <2>4, <2>5, <2>6
<1> HIDE DEF r2
<1>6. IsRouter(r3) /\ Ways(n, r3) BY <1>2, <1>5, AddRouteRouter, AddRouteWays
<1> HIDE DEF r3
<1>7. Fine(own) BY <1>2, FineReport
<1> HIDE DEF own
<1>8. Channels(back) BY SendChannels
<1> HIDE DEF back
<1>9. Channels(chan') BY <1>1, <1>7, <1>8, SendChannels
<1>10. Tables' /\ Circuits' BY <1>1, <1>6, BecomeKeeps
<1> QED BY <1>9, <1>10 DEF Kept, Channels

LEMMA RxDatagramKeeps ==
  ASSUME Kept, NEW n \in Router, NEW m \in Router, Up(n, m), NEW f, f.org \in Router,
         NEW ch, Channels(ch), RxDatagram(n, m, f, ch)
  PROVE  Kept'
<1> DEFINE r == IF f.org = n THEN router[n] ELSE FastLearn(router[n], m, f.org)
<1> DEFINE next == BestSegment(r, f.dst, Datagram(r))
<1>1. /\ router' = [router EXCEPT ![n] = r]
      /\ chan' \in {Send(ch, n, next, DatagramFrame(f.org, f.dst, f.ttl - 1)), ch}
      /\ \/ circuit' = circuit
         \/ /\ IsCall(r, f.org, Datagram(r))
            /\ circuit' = [circuit EXCEPT ![n] = circuit[n] \cup {f.org}]
  BY DEF RxDatagram
<1>2. m \in Dest /\ f.org \in Dest BY DEF Dest
<1>3. IsRouter(router[n]) /\ Ways(n, router[n]) BY KeptRouter
<1>4. IsRouter(r) /\ router[n].known \subseteq r.known BY <1>2, <1>3, FastLearnRouter
<1>9. Ways(n, r) BY <1>2, <1>3, FastLearnWays DEF Up, LinkState
<1> HIDE DEF r, next
<1>5. Tables' BY <1>1, <1>4, <1>9 DEF Kept, Tables
<1>6. IsCall(r, f.org, Datagram(r)) => f.org \in r.known BY DEF IsCall
<1>7. Circuits' BY <1>1, <1>4, <1>6 DEF Kept, Tables, Circuits, CircuitsKnown
<1>8. Channels(chan') BY <1>1, SendChannels, FineFrames
<1> QED BY <1>5, <1>7, <1>8 DEF Kept, Channels

LEMMA RxReportKeeps ==
  ASSUME Kept, NEW n \in Router, NEW m \in Router, Up(n, m), NEW rep,
         DOMAIN rep \subseteq Dest, \A d \in DOMAIN rep : rep[d].q \in Nat,
         Become(n, RxReport(router[n], m, rep))
  PROVE  Tables' /\ Circuits'
<1>1. IsRouter(RxReport(router[n], m, rep)) /\ Ways(n, RxReport(router[n], m, rep))
  <2>1. m \in Dest /\ router[n].seg[m].nbrl2l # "none" BY DEF Dest, Up, LinkState
  <2> QED BY <2>1, KeptRouter, RxReportRouter, RxReportWays
<1> QED BY <1>1, BecomeKeeps

LEMMA ReceiveKeeps ==
  ASSUME Kept, NEW n \in Router, NEW m \in Router, Receive(n, m)
  PROVE  Kept'
<1> DEFINE f == Head(chan[m][n])
<1> DEFINE ch == [chan EXCEPT ![m][n] = Tail(chan[m][n])]
<1> DEFINE r == LinkConnected([router[n] EXCEPT !.seg[m].nbrl2l = "up"], m)
<1>1. \/ f.kind = "ua" /\ Become(n, r) /\ chan' = ch
      \/ f.kind = "rtt" /\ RxOwnRtt(n, m, f, ch)
      \/ f.kind = "rtt" /\ RxRtt(n, m, f, ch)
      \/ f.kind = "rif" /\ Become(n, RxReport(router[n], m, f.rep)) /\ chan' = ch
      \/ f.kind = "data" /\ RxDatagram(n, m, f, ch)
  BY DEF Receive
<1>11. f.kind = "ua" \/ Up(n, m)
  <2>1. chan[m][n] # <<>> /\ (Renewing(chan[m][n]) \/ Up(n, m)) BY DEF Receive
  <2>2. chan[m][n] # <<>> => Head(chan[m][n]) = chan[m][n][1]
    BY HeadTailProperties DEF Kept, Channels, FineSeq
  <2> QED BY <2>1, <2>2 DEF Renewing
<1>2. FineSeq(chan[m][n]) /\ chan[m][n] # <<>> BY DEF Kept, Channels, Receive
<1>3. Fine(f) /\ FineSeq(Tail(chan[m][n])) BY <1>2, FineHeadTail
<1>4. Channels(ch) BY <1>3, SetChannel DEF Kept
<1>5. IsRouter(r) /\ Ways(n, r) BY KeptRouter, LinkRouter, LinkWays DEF Dest
<1> HIDE DEF f, ch, r
<1>6. CASE f.kind = "ua" /\ Become(n, r) /\ chan' = ch
  <2>1. Tables' /\ Circuits' BY <1>5, <1>6, BecomeKeeps
  <2> QED BY <1>4, <1>6, <2>1 DEF Kept, Channels
<1>7. CASE f.kind = "rtt" /\ RxOwnRtt(n, m, f, ch) BY <1>4, <1>7, <1>11, RxOwnRttKeeps
<1>8. CASE f.kind = "rtt" /\ RxRtt(n, m, f, ch) BY <1>3, <1>4, <1>8, <1>11, RxRttKeeps
<1>9. CASE f.kind = "rif" /\ Become(n, RxReport(router[n], m, f.rep)) /\ chan' = ch
  <2>1. DOMAIN f.rep \subseteq Dest /\ \A d \in DOMAIN f.rep : f.rep[d].q \in Nat
    BY <1>3, <1>9 DEF Fine
  <2>2. Tables' /\ Circuits' BY <1>9, <1>11, <2>1, RxReportKeeps
  <2> QED BY <1>4, <1>9, <2>2 DEF Kept, Channels
<1>10. CASE f.kind = "data" /\ RxDatagram(n, m, f, ch)
  <2>1. f.org \in Router BY <1>3, <1>10 DEF Fine
  <2> QED BY <1>4, <1>10, <1>11, <2>1, RxDatagramKeeps
<1> QED BY <1>1, <1>6, <1>7, <1>8, <1>9, <1>10

-----------------------------------------------------------------------------
(* Level 4.                                                                *)

LEMMA OriginateKeeps ==
  ASSUME Kept, NEW n \in Router, NEW d, Originate(n, d)
  PROVE  Kept'
<1>1. /\ IsCall(router[n], d, Datagram(router[n])) /\ router' = router /\ chan' = chan
      /\ circuit' = [circuit EXCEPT ![n] = circuit[n] \cup {d}]
  BY DEF Originate
<1>2. d \in router[n].known /\ d \in Router BY <1>1 DEF IsCall, Originate
<1>3. Circuits' BY <1>1, <1>2 DEF Kept, Circuits, CircuitsKnown
<1> QED BY <1>1, <1>3 DEF Kept, Tables, Channels

LEMMA L3txKeeps ==
  ASSUME Kept, NEW n \in Router, L3tx(n)
  PROVE  Kept'
<1> DEFINE d == Head(txl[n])
<1> DEFINE next == BestSegment(router[n], d, Datagram(router[n]))
<1>1. /\ router' = router /\ circuit' = circuit
      /\ chan' \in {Send(chan, n, next, DatagramFrame(n, d, TimLiv)), chan}
  BY DEF L3tx
<1> HIDE DEF d, next
<1>2. Channels(chan') BY <1>1, SendChannels, FineFrames DEF Kept
<1> QED BY <1>1, <1>2 DEF Kept, Tables, Channels, Circuits, CircuitsKnown

LEMMA NextKeeps == Kept /\ [Next]_vars => Kept'
<1> SUFFICES ASSUME Kept, [Next]_vars PROVE Kept' OBVIOUS
<1>1. CASE Work
  <2>1. ASSUME NEW n \in Router, NEW m \in Router,
               Connect(n, m) \/ Accept(n, m) \/ Notice(n, m)
        PROVE  Kept'
    BY <2>1, LinksKeep
  <2>2. ASSUME NEW n \in Router, NEW m \in Router, Measure(n, m) PROVE Kept'
    BY <2>2, ClockKeeps DEF Measure
  <2>3. ASSUME NEW n \in Router, NEW m \in Router, Broadcast(n, m, FALSE) PROVE Kept'
    BY <2>3, ClockKeeps
  <2>4. ASSUME NEW n \in Router, NEW m \in Router, Receive(n, m) PROVE Kept'
    BY <2>4, ReceiveKeeps
  <2>5. ASSUME NEW n \in Router, Minute(n) \/ Drop(n) PROVE Kept'
    BY <2>5, ClockKeeps
  <2>6. ASSUME NEW n \in Router, L3tx(n) PROVE Kept'
    BY <2>6, L3txKeeps
  <2> QED BY <1>1, <2>1, <2>2, <2>3, <2>4, <2>5, <2>6 DEF Work
<1>2. CASE Disturbance
  <2>1. ASSUME NEW n \in Router, NEW m \in Router,
               Fail(n, m) \/ Busy(n, m) \/ Reset(n, m)
        PROVE  Kept'
    BY <2>1, LinksKeep
  <2>2. ASSUME NEW n \in Router, NEW m \in Router, AnHour(n, m) PROVE Kept'
    BY <2>2, ClockKeeps
  <2>3. ASSUME NEW n \in Router, NEW m \in Router, Remeasure(n, m) PROVE Kept'
    BY <2>3, ClockKeeps DEF Remeasure
  <2>4. ASSUME NEW n \in Router, NEW m \in Router, Broadcast(n, m, TRUE) PROVE Kept'
    BY <2>4, ClockKeeps
  <2>5. ASSUME NEW n \in Router, NEW m \in Router, Originate(n, m) PROVE Kept'
    BY <2>5, OriginateKeeps
  <2>6. ASSUME NEW n \in Router, Restart(n) PROVE Kept'
    BY <2>6, RestartKeeps
  <2>7. ASSUME NEW d \in Local, ToggleLocal(d) PROVE Kept'
    BY <2>7, ToggleLocalKeeps
  <2> QED BY <1>2, <2>1, <2>2, <2>3, <2>4, <2>5, <2>6, <2>7 DEF Disturbance
<1>3. CASE UNCHANGED vars
  BY <1>3 DEF vars, Kept, Tables, Channels, Circuits, CircuitsKnown
<1> QED BY <1>1, <1>2, <1>3 DEF Next

LEMMA AlwaysKept == Spec => []Kept
BY InitKept, NextKeeps, PTL DEF Spec

(* num_routes of every segment is the number of its routes, always: the    *)
(* places that change routes on the side keep it (l3tab.c:414).            *)
THEOREM RoutesCounted == Spec => []NumRoutesAgree
<1>1. Kept => NumRoutesAgree
  BY DEF Kept, Tables, IsRouter, Counted, Led, NumRoutesAgree
<1> QED BY <1>1, AlwaysKept, PTL

LEMMA KeptReachable == Kept => CircuitsReachable
<1> SUFFICES ASSUME Kept, NEW n \in Router, \A m \in Neighbour(n) : Finished(n, m),
                    Unreachable(router[n]) = {}, NEW d \in circuit[n]
             PROVE  IsCall(router[n], d, Datagram(router[n]))
  BY DEF CircuitsReachable
<1> DEFINE r == router[n]
<1>1. Ways(n, r) BY KeptRouter
<1>2. d \in r.known /\ d \in Router /\ d \in Dest /\ Router \subseteq Dest
  BY DEF Kept, Circuits, CircuitsKnown, Dest
<1>3. AllWhole(r) BY <1>1 DEF AllWhole, Ways, Proper
<1>4. Segments(r) \in SUBSET Dest /\ Datagram(r) \in SUBSET Dest BY DEF Segments, Datagram
<1>5. ASSUME NEW s \in Segments(r),
             r.seg[s].route[d].quality # 0 \/ r.seg[s].route[d].reported # 0
      PROVE  /\ s \in Datagram(r)
             /\ r.seg[s].quality # 0 /\ Announced(r, s, Hidden, FALSE) = {}
             /\ s \in Dest /\ (s = d => r.seg[s].route[d].reported = 0)
  <2>1. s \in Dest /\ r.seg[s].used /\ Proper(n, s, r.seg[s]) BY <1>1 DEF Segments, Ways
  <2>2. s \in Router BY <1>2, <1>5, <2>1 DEF Proper, Dest
  <2>3. s \in Neighbour(n) /\ r.seg[s].nbrl2l # "none" BY <1>2, <1>5, <2>1, <2>2 DEF Proper, Bare
  <2>4. MayReport(n, s) /\ Announced(r, s, Hidden, FALSE) = {}
    BY <2>3 DEF Finished, LinkState
  <2> QED BY <1>5, <2>1, <2>2, <2>4 DEF MayReport, Proper, Datagram, DG
<1>6. PICK s \in Segments(r) : r.seg[s].route[d].quality # 0 \/ r.seg[s].route[d].reported # 0
  BY <1>2 DEF Unreachable
<1>7. CASE \E x \in Segments(r) : r.seg[x].route[d].quality # 0
  <2>1. PICK x \in Segments(r) : r.seg[x].route[d].quality # 0 BY <1>7
  <2>2. x \in Datagram(r) /\ x \in Dest /\ r.seg[x].quality # 0 BY <1>5, <2>1
  <2>3. Way(r, x, d) # 0 BY <1>2, <1>3, <2>1, <2>2, WholeWay
  <2>4. BestQuality(r, d, Datagram(r)) # 0 BY <1>2, <1>3, <1>4, <2>2, <2>3, WholeBest
  <2> QED BY <1>2, <2>4 DEF IsCall
<1>8. CASE \A x \in Segments(r) : r.seg[x].route[d].quality = 0
  <2> DEFINE p == r.seg[s]
  <2> DEFINE best == Best(r, d, Segments(r))
  <2> DEFINE last == p.route[d].reported
  <2>1. last # 0 /\ s # d /\ Announced(r, s, Hidden, FALSE) = {} BY <1>5, <1>6, <1>8
  <2>2. \A x \in Segments(r) : Way(r, x, d) = 0 BY <1>2, <1>3, <1>4, <1>8, WholeWay
  <2>3. best.q = 0 BY <1>2, <1>3, <1>4, <2>2, WholeBest
  <2>4. ToAnnounce(r, s, d, Hidden, FALSE) = Announce(p, 0, last, d \in Hidden, FALSE)
    BY <2>3 DEF ToAnnounce
  <2> HIDE DEF p, best, last
  <2>5. Announce(p, 0, last, d \in Hidden, FALSE) = 0 BY <2>1 DEF Announce, HORIZONT
  <2>6. ToAnnounce(r, s, d, Hidden, FALSE) # Skip
    <3>1. ToAnnounce(r, s, d, Hidden, FALSE) = 0 BY Zenon, <2>4, <2>5
    <3>2. Skip # 0 BY DEF Skip
    <3> QED BY Zenon, <3>1, <3>2
  <2>7. d \in r.known \ {s} BY <1>2, <2>1
  <2>8. d \in Announced(r, s, Hidden, FALSE) BY <2>6, <2>7 DEF Announced
  <2> QED BY <2>1, <2>8
<1> QED BY <1>7, <1>8

(* Level 4 keeps no circuit with a node that nothing leads to, once the    *)
(* neighbours have been told: whatever took the ways, the node is deleted  *)
(* and its circuits with it (l3tab.c:344, :376).                           *)
THEOREM CircuitsAlwaysReachable == Spec => []CircuitsReachable
BY AlwaysKept, KeptReachable, PTL

-----------------------------------------------------------------------------
(* What a node remembers having reported.                                  *)

RifOf(f, d) == f.kind = "rif" /\ d \in DOMAIN f.rep
RttBy(f, n) == f.kind = "rtt" /\ f.org = n

(* No route of segment q, which leads to n, is meant to stay.              *)
Unlimited(e) == e.quality # 0 /\ e.timeout = 0
Limited(n, q) == \A d \in Dest \ {n} : ~Unlimited(q.route[d])

(* What n sends to the other end, which has segment q, is read before      *)
(* n forgets what it has reported.                                         *)
Open(p, q, c) == p.nbrl2l = "up" /\ (q.nbrl2l = "up" \/ Renewing(c))

(* A report that is read with a limit, because the segment is not an INP   *)
(* segment then.                                                           *)
Deaf(q, c) == Renewing(c) \/ q.typ # "INP"
Harmless(n, q, c, i) == Deaf(q, c) /\ \A k \in DOMAIN c : k < i => ~RttBy(c[k], n)
AllHarmless(n, q, c) ==
  /\ Limited(n, q)
  /\ \A i \in DOMAIN c : \A d \in Dest \ {n} : RifOf(c[i], d) => Harmless(n, q, c, i)

(* No report waits behind a measurement, which makes an INP segment.       *)
Clean(n, c) ==
  \A i, k \in DOMAIN c : k < i /\ RttBy(c[k], n) => \A d \in Dest \ {n} : ~RifOf(c[i], d)

(* x stands in a report, where the horizon means no way; y is remembered.  *)
Matches(x, y) == x < HORIZONT => x = y

(* p is the segment of n to m, q that of m to n; c is on its way from n to *)
(* m, b comes back.  The frames:                                           *)
FramesOf(n, m, c) ==
  \A i \in DOMAIN c :
    /\ c[i].kind = "ua" => i = 1
    /\ c[i].kind = "rtt" => c[i].org \in {n, m}
    /\ c[i].kind = "rif" => \A d \in DOMAIN c[i].rep : c[i].rep[d].q \in Nat

(* The state of the link at n.  While the answer to its call is under way, *)
(* m has started anew, and what n has kept for it can do no harm.          *)
EndOf(n, m, p, q, c, b) ==
  /\ p.nbrl2l \in {"none", "setup", "up"}
  /\ p.nbrl2l # "none" => m \in Neighbour(n)
  /\ p.nbrl2l = "none" => c = <<>> /\ \A d \in Dest : p.route[d].quality = 0
  /\ p.nbrl2l = "setup" => ~Renewing(c)
  /\ q.nbrl2l # "up" => Limited(n, q)
  /\ Renewing(b) => /\ p.nbrl2l = "setup" /\ q.nbrl2l = "up" /\ q.typ # "INP"
                    /\ Limited(n, q) /\ Clean(n, c)

(* What m will hold for good is what n remembers:                          *)
LastWord(n, p, q, c) ==
  \A d \in Dest \ {n} :
    /\ Unlimited(q.route[d]) =>
         \/ \E i \in DOMAIN c : RifOf(c[i], d)
         \/ p.route[d].reported = q.route[d].quality
    /\ \A i \in DOMAIN c : RifOf(c[i], d) =>
         \/ \E j \in DOMAIN c : j > i /\ RifOf(c[j], d)
         \/ Matches(c[i].rep[d].q, p.route[d].reported)
         \/ Harmless(n, q, c, i)

LinkInv(n, m, p, q, c, b) ==
  /\ FramesOf(n, m, c)
  /\ EndOf(n, m, p, q, c, b)
  /\ Open(p, q, c) => LastWord(n, p, q, c)
  /\ Open(p, q, c) /\ p.typ # "INP" => AllHarmless(n, q, c)

-----------------------------------------------------------------------------
(* Frames come and go.                                                     *)

Longer(c, f, c2) ==
  /\ Len(c) \in Nat /\ DOMAIN c = 1 .. Len(c) /\ (c = <<>> <=> Len(c) = 0)
  /\ DOMAIN c2 = 1 .. Len(c) + 1 /\ c2 # <<>>
  /\ \A i \in 1 .. Len(c) : c2[i] = c[i]
  /\ c2[Len(c) + 1] = f

Shorter(c, c2) ==
  /\ Len(c) \in Nat /\ DOMAIN c = 1 .. Len(c) /\ c # <<>> /\ Len(c) # 0
  /\ DOMAIN c2 = 1 .. Len(c) - 1 /\ (c2 = <<>> <=> Len(c) = 1)
  /\ \A i \in 1 .. Len(c) - 1 : c2[i] = c[i + 1]

LEMMA AppendIsLonger ==
  ASSUME NEW c, FineSeq(c), NEW f
  PROVE  Longer(c, f, Append(c, f))
<1> DEFINE S == {c[i] : i \in DOMAIN c} \cup {f}
<1>1. c \in Seq({c[i] : i \in DOMAIN c}) BY DEF FineSeq
<1>2. DOMAIN c = 1 .. Len(c) /\ Len(c) \in Nat /\ c = [i \in 1 .. Len(c) |-> c[i]]
  BY <1>1, LenProperties
<1>3. c \in [1 .. Len(c) -> S] BY <1>2
<1>4. c \in Seq(S) BY <1>2, <1>3, SeqDef
<1>5. f \in S OBVIOUS
<1> HIDE DEF S
<1>6. /\ Append(c, f) \in Seq(S) /\ Append(c, f) # <<>>
      /\ DOMAIN Append(c, f) = 1 .. Len(c) + 1
      /\ \A i \in 1 .. Len(c) : Append(c, f)[i] = c[i]
      /\ Append(c, f)[Len(c) + 1] = f
  BY <1>4, <1>5, AppendProperties, LenProperties
<1>7. c = <<>> <=> Len(c) = 0 BY <1>4, EmptySeq
<1> QED BY <1>2, <1>6, <1>7 DEF Longer

LEMMA TailIsShorter ==
  ASSUME NEW c, FineSeq(c), c # <<>>
  PROVE  Shorter(c, Tail(c)) /\ Head(c) = c[1]
<1> DEFINE S == {c[i] : i \in DOMAIN c}
<1>1. c \in Seq(S) BY DEF FineSeq
<1> HIDE DEF S
<1>2. /\ Tail(c) \in Seq(S) /\ Len(Tail(c)) = Len(c) - 1
      /\ DOMAIN c = 1 .. Len(c) /\ Len(c) \in Nat /\ Len(c) # 0
      /\ DOMAIN Tail(c) = 1 .. Len(c) - 1
      /\ \A i \in 1 .. Len(c) - 1 : Tail(c)[i] = c[i + 1]
      /\ Head(c) = c[1]
  BY <1>1, HeadTailProperties, LenProperties, EmptySeq
<1>3. Tail(c) = <<>> <=> Len(c) = 1 BY <1>2, EmptySeq
<1> QED BY <1>2, <1>3 DEF Shorter

(* c2 is the last part of c, b2 is the answer to a call in front of b.     *)
LastPart(c, c2) ==
  /\ \E k \in Nat : \A i \in DOMAIN c2 : i + k \in DOMAIN c /\ c2[i] = c[i + k]
  /\ c2 # <<>> => 1 \in DOMAIN c2

Answered(b, b2) ==
  /\ 1 \in DOMAIN b2 /\ b2 # <<>> /\ b2[1] = UA
  /\ \A i \in DOMAIN b2 : i = 1 \/ (i > 1 /\ i - 1 \in DOMAIN b /\ b2[i] = b[i - 1])
  /\ DOMAIN b2 \subseteq Nat

LEMMA FromIsLastPart ==
  ASSUME NEW c, FineSeq(c), NEW k \in 1 .. Len(c) + 1
  PROVE  LastPart(c, From(c, k)) /\ Answered(From(c, k), <<UA>> \o From(c, k))
<1> DEFINE c2 == From(c, k)
<1> DEFINE b2 == <<UA>> \o c2
<1>1. /\ FineSeq(c2)
      /\ \A i \in DOMAIN c2 : i + (k - 1) \in DOMAIN c /\ c2[i] = c[i + (k - 1)]
  BY FineFrom
<1>2. Len(c) \in Nat BY FineAppend, AppendIsLonger DEF Longer
<1>3. k - 1 \in Nat BY <1>2
<1> HIDE DEF c2
<1>4. LastPart(c, c2)
  <2>1. Longer(c2, UA, Append(c2, UA)) BY <1>1, AppendIsLonger
  <2>2. c2 # <<>> => 1 \in DOMAIN c2 BY <2>1 DEF Longer
  <2> QED BY <1>1, <1>3, <2>2 DEF LastPart
<1>5. /\ FineSeq(b2) /\ 1 \in DOMAIN b2 /\ b2[1] = UA
      /\ \A i \in DOMAIN b2 : i = 1 \/ (i > 1 /\ i - 1 \in DOMAIN c2 /\ b2[i] = c2[i - 1])
  BY <1>1, FineAnswer
<1> HIDE DEF b2
<1>6. Longer(b2, UA, Append(b2, UA)) BY <1>5, AppendIsLonger
<1>7. b2 # <<>> /\ DOMAIN b2 \subseteq Nat
  <2>1. Len(b2) \in Nat /\ DOMAIN b2 = 1 .. Len(b2) /\ (b2 = <<>> <=> Len(b2) = 0)
    BY <1>6 DEF Longer
  <2> QED BY <1>5, <2>1
<1>8. Answered(c2, b2) BY <1>5, <1>7 DEF Answered
<1> QED BY <1>4, <1>8 DEF c2, b2

LEMMA DomainOf ==
  ASSUME NEW c, FineSeq(c)
  PROVE  Len(c) \in Nat /\ DOMAIN c = 1 .. Len(c) /\ (c = <<>> <=> Len(c) = 0)
BY AppendIsLonger DEF Longer

-----------------------------------------------------------------------------
(* One link: what the steps of its ends do to LinkInv.                     *)

SameEnd(p, p2) == p2.nbrl2l = p.nbrl2l /\ p2.typ = p.typ /\ p2.my = p.my
SameReports(p, p2) == \A d \in Dest : p2.route[d].reported = p.route[d].reported
Softer(n, q, q2) ==
  \A d \in Dest \ {n} : Unlimited(q2.route[d]) =>
    Unlimited(q.route[d]) /\ q2.route[d].quality = q.route[d].quality
NoWay(p) == p.nbrl2l = "none" => \A d \in Dest : p.route[d].quality = 0

(* Neither end does anything the other one should know.                    *)
LEMMA LinkStill ==
  ASSUME NEW n, NEW m, NEW p, NEW q, NEW c, NEW b, NEW p2, NEW q2,
         LinkInv(n, m, p, q, c, b),
         SameEnd(p, p2), SameReports(p, p2), NoWay(p2),
         q2.nbrl2l = q.nbrl2l, q2.typ = q.typ, Softer(n, q, q2)
  PROVE  LinkInv(n, m, p2, q2, c, b)
<1>1. FramesOf(n, m, c) BY DEF LinkInv
<1>2. Limited(n, q) => Limited(n, q2) BY DEF Limited, Softer
<1>3. EndOf(n, m, p2, q2, c, b) BY <1>2 DEF LinkInv, EndOf, SameEnd, NoWay
<1>4. Deaf(q2, c) <=> Deaf(q, c) BY DEF Deaf
<1>5. \A i : Harmless(n, q2, c, i) <=> Harmless(n, q, c, i) BY <1>4 DEF Harmless
<1>6. Open(p2, q2, c) <=> Open(p, q, c) BY DEF Open, SameEnd
<1>7. LastWord(n, p, q, c) => LastWord(n, p2, q2, c)
  BY <1>5 DEF LastWord, SameReports, Softer
<1>8. AllHarmless(n, q, c) => AllHarmless(n, q2, c) BY <1>2, <1>5 DEF AllHarmless
<1> QED BY <1>1, <1>3, <1>6, <1>7, <1>8 DEF LinkInv, SameEnd

(* n sends something that is not a report of other nodes.                  *)
LEMMA LinkSends ==
  ASSUME NEW n, NEW m, NEW p, NEW q, NEW c, NEW b, NEW f, NEW c2,
         LinkInv(n, m, p, q, c, b), p.nbrl2l # "none", Longer(c, f, c2),
         f.kind # "ua", f.kind = "rtt" => f.org \in {n, m},
         f.kind = "rif" => \A d \in DOMAIN f.rep : d = n /\ f.rep[d].q \in Nat
  PROVE  LinkInv(n, m, p, q, c2, b)
<1> DEFINE k == Len(c) + 1
<1>1. /\ Len(c) \in Nat /\ DOMAIN c = 1 .. Len(c) /\ (c = <<>> <=> Len(c) = 0)
      /\ DOMAIN c2 = 1 .. k /\ c2 # <<>>
      /\ \A i \in DOMAIN c : c2[i] = c[i] /\ i \in DOMAIN c2 /\ i < k
      /\ c2[k] = f /\ k \in DOMAIN c2 /\ k \in Nat
      /\ \A i \in DOMAIN c2 : i \in DOMAIN c \/ i = k
  BY DEF Longer
<1> HIDE DEF k
<1>2. Renewing(c2) <=> Renewing(c) BY <1>1 DEF Renewing, k
<1>3. FramesOf(n, m, c2) BY <1>1 DEF LinkInv, FramesOf
<1>4. \A d \in Dest \ {n} : ~RifOf(f, d) BY DEF RifOf
<1>5. Clean(n, c) => Clean(n, c2) BY <1>1, <1>4 DEF Clean
<1>6. EndOf(n, m, p, q, c2, b) BY <1>2, <1>5 DEF LinkInv, EndOf
<1>7. Open(p, q, c2) <=> Open(p, q, c) BY <1>2 DEF Open
<1>8. \A i \in DOMAIN c : Harmless(n, q, c, i) => Harmless(n, q, c2, i)
  BY <1>1, <1>2 DEF Harmless, Deaf
<1>9. LastWord(n, p, q, c) => LastWord(n, p, q, c2) BY <1>1, <1>4, <1>8 DEF LastWord
<1>10. AllHarmless(n, q, c) => AllHarmless(n, q, c2)
  BY <1>1, <1>4, <1>8 DEF AllHarmless
<1> QED BY <1>3, <1>6, <1>7, <1>9, <1>10 DEF LinkInv

(* m sends something to n.                                                 *)
LEMMA LinkSendsBack ==
  ASSUME NEW n, NEW m, NEW p, NEW q, NEW c, NEW b, NEW f, NEW b2,
         LinkInv(n, m, p, q, c, b), Longer(b, f, b2), f.kind # "ua"
  PROVE  LinkInv(n, m, p, q, c, b2)
<1>1. Renewing(b2) <=> Renewing(b) BY DEF Renewing, Longer
<1> QED BY <1>1 DEF LinkInv, EndOf, Open

(* n broadcasts: a report of the nodes ds, which it remembers.             *)
LEMMA LinkReports ==
  ASSUME NEW n, NEW m, NEW p, NEW q, NEW c, NEW b, NEW rep, NEW c2, NEW p2,
         LinkInv(n, m, p, q, c, b),
         SameEnd(p, p2), NoWay(p2), p.nbrl2l = "up", p.typ = "INP",
         \A d \in Dest \ DOMAIN rep : p2.route[d].reported = p.route[d].reported,
         \A d \in DOMAIN rep :
           rep[d].q \in Nat /\ Matches(rep[d].q, p2.route[d].reported),
         Longer(c, ReportFrame(rep), c2)
  PROVE  LinkInv(n, m, p2, q, c2, b)
<1> DEFINE k == Len(c) + 1
<1> DEFINE f == ReportFrame(rep)
<1>1. /\ Len(c) \in Nat /\ DOMAIN c = 1 .. Len(c) /\ (c = <<>> <=> Len(c) = 0)
      /\ DOMAIN c2 = 1 .. k /\ c2 # <<>>
      /\ \A i \in DOMAIN c : c2[i] = c[i] /\ i \in DOMAIN c2 /\ i < k
      /\ c2[k] = f /\ k \in DOMAIN c2 /\ k \in Nat
      /\ \A i \in DOMAIN c2 : i \in DOMAIN c \/ i = k
  BY DEF Longer
<1>2. f.kind = "rif" /\ f.rep = rep BY DEF ReportFrame
<1> HIDE DEF k, f
<1>3. Renewing(c2) <=> Renewing(c) BY <1>1, <1>2 DEF Renewing, k
<1>4. FramesOf(n, m, c2) BY <1>1, <1>2 DEF LinkInv, FramesOf
<1>5. Open(p2, q, c2) => Open(p, q, c) BY <1>3 DEF Open, SameEnd
<1>6. EndOf(n, m, p2, q, c2, b) BY DEF LinkInv, EndOf, SameEnd
<1>7. \A d : RifOf(f, d) <=> d \in DOMAIN rep BY <1>2 DEF RifOf
<1>8. \A i \in DOMAIN c : Harmless(n, q, c, i) => Harmless(n, q, c2, i)
  BY <1>1, <1>3 DEF Harmless, Deaf
<1>9. ASSUME LastWord(n, p, q, c) PROVE LastWord(n, p2, q, c2)
  <2>1. ASSUME NEW d \in Dest \ {n}, d \in DOMAIN rep
        PROVE  /\ \E i \in DOMAIN c2 : RifOf(c2[i], d)
               /\ \A i \in DOMAIN c2 : RifOf(c2[i], d) =>
                    \/ \E j \in DOMAIN c2 : j > i /\ RifOf(c2[j], d)
                    \/ Matches(c2[i].rep[d].q, p2.route[d].reported)
    BY <1>1, <1>2, <1>7, <2>1
  <2>2. ASSUME NEW d \in Dest \ {n}, d \notin DOMAIN rep
        PROVE  /\ Unlimited(q.route[d]) =>
                    \/ \E i \in DOMAIN c2 : RifOf(c2[i], d)
                    \/ p2.route[d].reported = q.route[d].quality
               /\ \A i \in DOMAIN c2 : RifOf(c2[i], d) =>
                    \/ \E j \in DOMAIN c2 : j > i /\ RifOf(c2[j], d)
                    \/ Matches(c2[i].rep[d].q, p2.route[d].reported)
                    \/ Harmless(n, q, c2, i)
    <3>1. p2.route[d].reported = p.route[d].reported BY <2>2
    <3>2. ~RifOf(f, d) BY <1>7, <2>2
    <3> QED BY <1>1, <1>8, <1>9, <3>1, <3>2 DEF LastWord
  <2> QED BY <2>1, <2>2 DEF LastWord
<1> QED BY <1>4, <1>5, <1>6, <1>9 DEF LinkInv, SameEnd

(* What is left when the first frame is read.                              *)
Rest(c, c2) ==
  /\ 1 \in DOMAIN c /\ c # <<>> /\ DOMAIN c \subseteq Nat /\ DOMAIN c2 \subseteq Nat
  /\ \A i \in DOMAIN c2 : i + 1 \in DOMAIN c /\ c2[i] = c[i + 1] /\ i > 0
  /\ \A i \in DOMAIN c : i = 1 \/ (i > 1 /\ i - 1 \in DOMAIN c2 /\ c2[i - 1] = c[i])
  /\ ~Renewing(c2)

LEMMA RestOfFrames ==
  ASSUME NEW n, NEW m, NEW c, NEW c2, FramesOf(n, m, c), Shorter(c, c2)
  PROVE  Rest(c, c2) /\ FramesOf(n, m, c2)
<1>1. /\ 1 \in DOMAIN c /\ c # <<>> /\ DOMAIN c \subseteq Nat /\ DOMAIN c2 \subseteq Nat
      /\ \A i \in DOMAIN c2 : i + 1 \in DOMAIN c /\ c2[i] = c[i + 1] /\ i > 0
      /\ \A i \in DOMAIN c : i = 1 \/ (i > 1 /\ i - 1 \in DOMAIN c2 /\ c2[i - 1] = c[i])
      /\ c2 # <<>> => 1 \in DOMAIN c2
  BY DEF Shorter
<1>2. \A i \in DOMAIN c2 : c2[i].kind # "ua" BY <1>1 DEF FramesOf
<1>3. FramesOf(n, m, c2) BY <1>1, <1>2 DEF FramesOf
<1>4. ~Renewing(c2) BY <1>1, <1>2 DEF Renewing
<1> QED BY <1>1, <1>3, <1>4 DEF Rest

LEMMA HarmlessRest ==
  ASSUME NEW n, NEW m, NEW c, NEW c2, FramesOf(n, m, c), Shorter(c, c2), NEW q, NEW q2,
         Deaf(q, c) /\ ~RttBy(c[1], n) => q2.typ # "INP"
  PROVE  \A i \in DOMAIN c2 : Harmless(n, q, c, i + 1) => Harmless(n, q2, c2, i)
<1> SUFFICES ASSUME NEW i \in DOMAIN c2, Harmless(n, q, c, i + 1)
             PROVE  Harmless(n, q2, c2, i)
  OBVIOUS
<1>0. Rest(c, c2) BY RestOfFrames
<1>1. ~RttBy(c[1], n) BY <1>0 DEF Harmless, Rest
<1>2. Deaf(q2, c2) BY <1>1 DEF Harmless, Deaf
<1>3. ASSUME NEW k \in DOMAIN c2, k < i PROVE ~RttBy(c2[k], n)
  <2>1. k + 1 \in DOMAIN c /\ k + 1 < i + 1 /\ c2[k] = c[k + 1] BY <1>0, <1>3 DEF Rest
  <2> QED BY <2>1 DEF Harmless
<1> QED BY <1>2, <1>3 DEF Harmless

(* What was true of the reports on their way is true of the others.        *)
LastReports(n, p, q, c) ==
  \A d \in Dest \ {n} : \A i \in DOMAIN c : RifOf(c[i], d) =>
    \/ \E j \in DOMAIN c : j > i /\ RifOf(c[j], d)
    \/ Matches(c[i].rep[d].q, p.route[d].reported)
    \/ Harmless(n, q, c, i)

LEMMA LaterReports ==
  ASSUME NEW n, NEW m, NEW c, NEW c2, FramesOf(n, m, c), Shorter(c, c2),
         NEW p, NEW q, NEW q2, Deaf(q, c) /\ ~RttBy(c[1], n) => q2.typ # "INP",
         LastWord(n, p, q, c)
  PROVE  LastReports(n, p, q2, c2)
<1> SUFFICES ASSUME NEW d \in Dest \ {n}, NEW i \in DOMAIN c2, RifOf(c2[i], d)
             PROVE  \/ \E j \in DOMAIN c2 : j > i /\ RifOf(c2[j], d)
                    \/ Matches(c2[i].rep[d].q, p.route[d].reported)
                    \/ Harmless(n, q2, c2, i)
  BY DEF LastReports
<1>0. Rest(c, c2) BY RestOfFrames
<1>1. i + 1 \in DOMAIN c /\ c[i + 1] = c2[i] BY <1>0 DEF Rest
<1>2. CASE \E j \in DOMAIN c : j > i + 1 /\ RifOf(c[j], d)
  <2>1. PICK j \in DOMAIN c : j > i + 1 /\ RifOf(c[j], d) BY <1>2
  <2>2. j - 1 \in DOMAIN c2 /\ c2[j - 1] = c[j] /\ j - 1 > i BY <1>0, <2>1 DEF Rest
  <2> QED BY <2>1, <2>2
<1>3. CASE Harmless(n, q, c, i + 1) BY <1>3, HarmlessRest
<1> QED BY <1>1, <1>2, <1>3 DEF LastWord

(* n has lost the link, and what it had for m; m has not noticed yet.      *)
LEMMA LinkLost ==
  ASSUME NEW n, NEW m, NEW p, NEW q, NEW c, NEW b, NEW p2, NEW b2,
         LinkInv(n, m, p, q, c, b), LinkInv(m, n, q, p, b, c),
         p2.nbrl2l = "none", NoWay(p2),
         IF Renewing(b) THEN Shorter(b, b2) ELSE b2 = b
  PROVE  LinkInv(n, m, p2, q, <<>>, b2) /\ LinkInv(m, n, q, p2, b2, <<>>)
<1>1. FramesOf(m, n, b) BY DEF LinkInv
<1>2. FramesOf(m, n, b2) /\ ~Renewing(b2)
  <2>1. Shorter(b, b2) => FramesOf(m, n, b2) /\ ~Renewing(b2)
    BY <1>1, RestOfFrames DEF Rest
  <2> QED BY <1>1, <2>1
<1>3. DOMAIN <<>> = {} /\ ~Renewing(<<>>) BY DEF Renewing
<1>4. b = <<>> => b2 = <<>> BY DEF Renewing
<1>5. Limited(m, p2) BY DEF NoWay, Limited, Unlimited
<1>6. EndOf(n, m, p2, q, <<>>, b2) BY <1>2, <1>3 DEF LinkInv, EndOf, NoWay
<1>7. EndOf(m, n, q, p2, b2, <<>>) BY <1>2, <1>3, <1>4, <1>5 DEF LinkInv, EndOf
<1>8. ~Open(p2, q, <<>>) /\ ~Open(q, p2, b2) BY <1>2 DEF Open
<1> QED BY <1>2, <1>3, <1>6, <1>7, <1>8 DEF LinkInv, FramesOf

(* n calls m, or resets the link, and waits for the answer.                *)
LEMMA LinkCalls ==
  ASSUME NEW n, NEW m, NEW p, NEW q, NEW c, NEW b, NEW p2,
         LinkInv(n, m, p, q, c, b), LinkInv(m, n, q, p, b, c),
         p.nbrl2l = "none" \/ (p.nbrl2l = "up" /\ q.nbrl2l = "up"),
         p2.nbrl2l = "setup", Limited(m, p2), m \in Neighbour(n)
  PROVE  LinkInv(n, m, p2, q, c, b) /\ LinkInv(m, n, q, p2, b, c)
<1>1. ~Renewing(b) /\ ~Renewing(c)
  <2>1. p.nbrl2l # "setup" OBVIOUS
  <2>2. ~Renewing(b) BY <2>1 DEF LinkInv, EndOf
  <2>3. CASE p.nbrl2l = "none" BY <2>2, <2>3 DEF LinkInv, EndOf, Renewing
  <2>4. CASE q.nbrl2l = "up" BY <2>2, <2>4 DEF LinkInv, EndOf
  <2> QED BY <2>2, <2>3, <2>4
<1>2. EndOf(n, m, p2, q, c, b) BY <1>1 DEF LinkInv, EndOf
<1>3. EndOf(m, n, q, p2, b, c) BY <1>1 DEF LinkInv, EndOf
<1>4. ~Open(p2, q, c) /\ ~Open(q, p2, b) BY <1>1 DEF Open
<1> QED BY <1>2, <1>3, <1>4 DEF LinkInv

(* Nothing has happened on the link yet.                                   *)
LEMMA LinkIdle ==
  ASSUME NEW n, NEW m, NEW p, NEW q, p.nbrl2l = "none", q.nbrl2l = "none",
         NoWay(p), NoWay(q)
  PROVE  LinkInv(n, m, p, q, <<>>, <<>>)
BY DEF LinkInv, FramesOf, EndOf, NoWay, Renewing, Open, Limited, Unlimited

(* m receives a datagram or a measurement.                                 *)
LEMMA LinkTakes ==
  ASSUME NEW n, NEW m, NEW p, NEW q, NEW c, NEW b, NEW c2, NEW q2,
         LinkInv(n, m, p, q, c, b), Shorter(c, c2),
         c[1].kind # "ua", \A d \in Dest \ {n} : ~RifOf(c[1], d),
         p.nbrl2l = "up", q.nbrl2l = "up", q2.nbrl2l = "up", Softer(n, q, q2),
         RttBy(c[1], n) \/ q2.typ = q.typ
  PROVE  LinkInv(n, m, p, q2, c2, b)
<1>0. FramesOf(n, m, c) BY DEF LinkInv
<1>1. Rest(c, c2) /\ FramesOf(n, m, c2) BY <1>0, RestOfFrames
<1>2. ~Renewing(c) BY DEF Renewing
<1>3. Deaf(q, c) /\ ~RttBy(c[1], n) => q2.typ # "INP" BY <1>2 DEF Deaf
<1>4. Limited(n, q) => Limited(n, q2) BY DEF Limited, Softer
<1>5. EndOf(n, m, p, q2, c2, b) BY DEF LinkInv, EndOf
<1>6. Open(p, q, c) BY DEF Open
<1>7. LastWord(n, p, q, c) => LastWord(n, p, q2, c2)
  <2> SUFFICES ASSUME LastWord(n, p, q, c), NEW d \in Dest \ {n}, Unlimited(q2.route[d])
      PROVE  \/ \E i \in DOMAIN c2 : RifOf(c2[i], d)
             \/ p.route[d].reported = q2.route[d].quality
    <3>1. LastWord(n, p, q, c) => LastReports(n, p, q2, c2) BY <1>0, <1>3, LaterReports
    <3> QED BY <3>1 DEF LastWord, LastReports
  <2>1. \/ \E i \in DOMAIN c : RifOf(c[i], d)
        \/ p.route[d].reported = q2.route[d].quality
    BY DEF LastWord, Softer
  <2>2. (\E i \in DOMAIN c : RifOf(c[i], d)) => \E i \in DOMAIN c2 : RifOf(c2[i], d)
    BY <1>1 DEF Rest
  <2> QED BY <2>1, <2>2
<1>8. AllHarmless(n, q, c) => AllHarmless(n, q2, c2)
  BY <1>0, <1>1, <1>2, <1>3, <1>4, HarmlessRest DEF AllHarmless, Rest
<1> QED BY <1>1, <1>5, <1>6, <1>7, <1>8 DEF LinkInv

(* m receives a report.  A route that it means to keep then is one that    *)
(* was reported.                                                           *)
LEMMA LinkHears ==
  ASSUME NEW n, NEW m, NEW p, NEW q, NEW c, NEW b, NEW c2, NEW q2,
         LinkInv(n, m, p, q, c, b), Shorter(c, c2), c[1].kind = "rif",
         p.nbrl2l = "up", q.nbrl2l = "up", q2.nbrl2l = "up", q2.typ = q.typ,
         \A d \in Dest \ {n} : Unlimited(q2.route[d]) =>
           IF d \in DOMAIN c[1].rep
           THEN /\ q.typ = "INP"
                /\ q2.route[d].quality = c[1].rep[d].q /\ c[1].rep[d].q < HORIZONT
           ELSE Unlimited(q.route[d]) /\ q2.route[d].quality = q.route[d].quality
  PROVE  LinkInv(n, m, p, q2, c2, b)
<1>0. FramesOf(n, m, c) BY DEF LinkInv
<1>1. Rest(c, c2) /\ FramesOf(n, m, c2) BY <1>0, RestOfFrames
<1>2. ~Renewing(c) BY DEF Renewing
<1>3. Deaf(q, c) /\ ~RttBy(c[1], n) => q2.typ # "INP" BY <1>2 DEF Deaf
<1>4. 1 \in DOMAIN c /\ \A d : RifOf(c[1], d) <=> d \in DOMAIN c[1].rep
  BY <1>1 DEF RifOf, Rest
<1>5. (\A d \in Dest \ {n} : RifOf(c[1], d) => q.typ # "INP") =>
        (Limited(n, q) => Limited(n, q2))
  BY <1>4 DEF Limited
<1>6. EndOf(n, m, p, q2, c2, b) BY DEF LinkInv, EndOf
<1>7. Open(p, q, c) BY DEF Open
<1>8. LastWord(n, p, q, c) => LastWord(n, p, q2, c2)
  <2> SUFFICES ASSUME LastWord(n, p, q, c), NEW d \in Dest \ {n}, Unlimited(q2.route[d])
      PROVE  \/ \E i \in DOMAIN c2 : RifOf(c2[i], d)
             \/ p.route[d].reported = q2.route[d].quality
    <3>1. LastWord(n, p, q, c) => LastReports(n, p, q2, c2) BY <1>0, <1>3, LaterReports
    <3> QED BY <3>1 DEF LastWord, LastReports
  <2>1. ASSUME NEW j \in DOMAIN c, j > 1, RifOf(c[j], d)
        PROVE  \E i \in DOMAIN c2 : RifOf(c2[i], d)
    BY <1>1, <2>1 DEF Rest
  <2>2. CASE d \in DOMAIN c[1].rep
    <3>1. \/ \E j \in DOMAIN c : j > 1 /\ RifOf(c[j], d)
          \/ Matches(c[1].rep[d].q, p.route[d].reported)
          \/ Harmless(n, q, c, 1)
      BY <1>4, <2>2 DEF LastWord
    <3>2. ~Harmless(n, q, c, 1) BY <1>2, <2>2 DEF Harmless, Deaf
    <3>3. c[1].rep[d].q \in Nat BY <1>0, <1>4, <2>2 DEF FramesOf
    <3> QED BY <2>1, <2>2, <3>1, <3>2, <3>3 DEF Matches, HORIZONT
  <2>3. CASE d \notin DOMAIN c[1].rep
    <3>1. \/ \E j \in DOMAIN c : RifOf(c[j], d)
          \/ p.route[d].reported = q2.route[d].quality
      BY <2>3 DEF LastWord
    <3>2. \A j \in DOMAIN c : RifOf(c[j], d) => j # 1 BY <1>4, <2>3
    <3>3. \A j \in DOMAIN c : j # 1 => j > 1 BY <1>1 DEF Rest
    <3> QED BY <2>1, <3>1, <3>2, <3>3
  <2> QED BY <2>2, <2>3
<1>9. AllHarmless(n, q, c) => AllHarmless(n, q2, c2)
  <2> SUFFICES ASSUME AllHarmless(n, q, c) PROVE AllHarmless(n, q2, c2) OBVIOUS
  <2>1. \A d \in Dest \ {n} : RifOf(c[1], d) => q.typ # "INP"
    BY <1>2, <1>4 DEF AllHarmless, Harmless, Deaf
  <2>2. Limited(n, q2) BY <1>2, <1>5, <2>1 DEF AllHarmless
  <2> QED BY <1>0, <1>1, <1>3, <2>2, HarmlessRest DEF AllHarmless, Rest
<1> QED BY <1>1, <1>6, <1>7, <1>8, <1>9 DEF LinkInv

(* m receives the UA and starts anew.                                      *)
LEMMA LinkRenewed ==
  ASSUME NEW n, NEW m, NEW p, NEW q, NEW c, NEW b, NEW c2, NEW q2,
         LinkInv(n, m, p, q, c, b), Shorter(c, c2), c[1].kind = "ua",
         p.nbrl2l = "up", q2.nbrl2l = "up", q2.typ # "INP", Limited(n, q2)
  PROVE  LinkInv(n, m, p, q2, c2, b)
<1>0. FramesOf(n, m, c) BY DEF LinkInv
<1>1. Rest(c, c2) /\ FramesOf(n, m, c2) BY <1>0, RestOfFrames
<1>2. Deaf(q, c) /\ ~RttBy(c[1], n) => q2.typ # "INP" OBVIOUS
<1>3. EndOf(n, m, p, q2, c2, b) BY DEF LinkInv, EndOf
<1>4. Open(p, q, c) BY <1>1 DEF Open, Renewing, Rest
<1>5. LastWord(n, p, q, c) => LastWord(n, p, q2, c2)
  <2>1. LastWord(n, p, q, c) => LastReports(n, p, q2, c2) BY <1>0, <1>2, LaterReports
  <2> QED BY <2>1 DEF LastWord, LastReports, Limited
<1>6. AllHarmless(n, q, c) => AllHarmless(n, q2, c2)
  BY <1>0, <1>1, <1>2, HarmlessRest DEF AllHarmless, Rest
<1> QED BY <1>1, <1>3, <1>4, <1>5, <1>6 DEF LinkInv

(* n receives a frame of m, which is not a UA: n may find out that m is an *)
(* INP neighbour, and then has to report everything.                       *)
LEMMA LinkAnswers ==
  ASSUME NEW n, NEW m, NEW p, NEW q, NEW c, NEW b, NEW b2, NEW p2,
         LinkInv(n, m, p, q, c, b), ~Renewing(b2),
         p.nbrl2l = "up", q.nbrl2l = "up", p2.nbrl2l = "up",
         \/ p2.typ = p.typ /\ SameReports(p, p2)
         \/ p.typ # "INP" /\ p2.typ = "INP"
  PROVE  LinkInv(n, m, p2, q, c, b2)
<1>1. Open(p, q, c) BY DEF Open
<1>2. EndOf(n, m, p2, q, c, b2) BY DEF LinkInv, EndOf
<1>3. LastWord(n, p, q, c) /\ SameReports(p, p2) => LastWord(n, p2, q, c)
  BY DEF LastWord, SameReports
<1>4. AllHarmless(n, q, c) => LastWord(n, p2, q, c) BY DEF AllHarmless, LastWord, Limited
<1> QED BY <1>1, <1>2, <1>3, <1>4 DEF LinkInv

(* n receives the UA of m and starts anew.                                 *)
LEMMA LinkStarts ==
  ASSUME NEW n, NEW m, NEW p, NEW q, NEW c, NEW b, NEW b2, NEW p2,
         LinkInv(n, m, p, q, c, b), Renewing(b), ~Renewing(b2),
         p2.nbrl2l = "up"
  PROVE  LinkInv(n, m, p2, q, c, b2)
<1>1. /\ p.nbrl2l = "setup" /\ q.nbrl2l = "up" /\ q.typ # "INP"
      /\ Limited(n, q) /\ Clean(n, c)
  BY DEF LinkInv, EndOf
<1>2. EndOf(n, m, p2, q, c, b2) BY <1>1 DEF LinkInv, EndOf
<1>3. AllHarmless(n, q, c) BY <1>1 DEF AllHarmless, Harmless, Deaf, Clean
<1>4. LastWord(n, p2, q, c) BY <1>3 DEF AllHarmless, LastWord, Limited
<1> QED BY <1>2, <1>3, <1>4 DEF LinkInv

(* m has been called by n, answers with a UA and starts anew.              *)
LEMMA LinkAnswered ==
  ASSUME NEW n, NEW m, NEW p, NEW q, NEW c, NEW b, NEW q2, NEW c2, NEW s, NEW b2,
         LinkInv(n, m, p, q, c, b), LinkInv(m, n, q, p, b, c),
         p.nbrl2l = "setup", ~Renewing(b), n \in Neighbour(m),
         q2.nbrl2l = "up", q2.typ # "INP", Limited(n, q2),
         LastPart(c, c2), LastPart(b, s), Answered(s, b2), Clean(n, c2), Clean(m, b2)
  PROVE  LinkInv(n, m, p, q2, c2, b2) /\ LinkInv(m, n, q2, p, b2, c2)
<1>1. ~Renewing(c) /\ FramesOf(n, m, c) /\ FramesOf(m, n, b) BY DEF LinkInv, EndOf
<1>2. \A i \in DOMAIN c : c[i].kind # "ua" BY <1>1 DEF FramesOf, Renewing
<1>3. \A i \in DOMAIN b : b[i].kind # "ua" BY <1>1 DEF FramesOf, Renewing
<1>4. FramesOf(n, m, c2) /\ ~Renewing(c2)
  <2>1. \A i \in DOMAIN c2 : \E k \in DOMAIN c : c2[i] = c[k] BY DEF LastPart
  <2>2. \A i \in DOMAIN c2 : c2[i].kind # "ua" BY <1>2, <2>1
  <2>3. FramesOf(n, m, c2) BY <1>1, <2>1, <2>2 DEF FramesOf
  <2>4. Renewing(c2) => 1 \in DOMAIN c2 BY DEF Renewing, LastPart
  <2> QED BY <2>2, <2>3, <2>4 DEF Renewing
<1>5. FramesOf(m, n, b2) /\ Renewing(b2)
  <2>1. \A i \in DOMAIN s : \E k \in DOMAIN b : s[i] = b[k] BY DEF LastPart
  <2>2. \A i \in DOMAIN b2 : i = 1 \/ \E k \in DOMAIN b : b2[i] = b[k]
    BY <2>1 DEF Answered
  <2>3. b2[1].kind = "ua" /\ b2 # <<>> BY DEF Answered, UA
  <2>4. \A i \in DOMAIN b2 : i # 1 => b2[i].kind # "ua" BY <1>3, <2>2
  <2> QED BY <1>1, <2>2, <2>3, <2>4 DEF FramesOf, Renewing
<1>6. EndOf(n, m, p, q2, c2, b2) BY <1>4, <1>5 DEF LinkInv, EndOf
<1>7. EndOf(m, n, q2, p, b2, c2) BY <1>4 DEF LinkInv, EndOf
<1>8. ~Open(p, q2, c2) BY DEF Open
<1>9. AllHarmless(m, p, b2)
  <2>1. Limited(m, p) BY DEF LinkInv, EndOf
  <2>2. Deaf(p, b2) BY <1>5 DEF Deaf
  <2> QED BY <2>1, <2>2 DEF AllHarmless, Harmless, Clean
<1>10. LastWord(m, q2, p, b2) BY <1>9 DEF AllHarmless, LastWord, Limited
<1> QED BY <1>4, <1>5, <1>6, <1>7, <1>8, <1>9, <1>10 DEF LinkInv

-----------------------------------------------------------------------------
(* The tables of a node.                                                   *)

Numbers(p) ==
  /\ p.my \in Nat /\ p.quality \in Nat
  /\ \A d \in Dest : p.route[d].quality \in Quality /\ p.route[d].timeout \in Nat

LEMMA QualityNat ==
  /\ 0 \in Quality
  /\ \A x \in Quality : x \in Nat /\ x < HORIZONT
  /\ \A x \in Nat : x < HORIZONT => x \in Quality
<1>1. HORIZONT \in Nat /\ HORIZONT # 0 BY DEF HORIZONT
<1> QED BY <1>1 DEF Quality

(* A registered LOCAL segment leads to its station and nowhere else, and   *)
(* there is no other way to the station.                                   *)
LocalRoute(r, s) ==
  /\ r.seg[s].typ = "LOCAL" /\ r.seg[s].quality # 0 /\ s \in r.known
  /\ \A d \in Dest : r.seg[s].route[d].quality # 0 <=> d = s
  /\ r.seg[s].route[s].timeout = 0 /\ r.seg[s].route[s].lt = 1
  /\ \A k \in Router : r.seg[k].route[s].quality = 0

Sound(n, r) ==
  /\ r.id = n
  /\ \A s \in Dest : Numbers(r.seg[s])
  /\ \A s \in Router :
       /\ r.seg[s].used <=> s \in Neighbour(n)
       /\ r.seg[s].typ # "LOCAL"
       /\ r.seg[s].route[n].quality = 0
  /\ \A s \in Local : r.seg[s].used => LocalRoute(r, s)
  /\ \A s \in Dest : r.seg[s].used => \A d \in Dest \ r.known :
       r.seg[s].route[d].quality = 0 /\ r.seg[s].route[d].reported = 0

LEMMA SoundWhole ==
  ASSUME NEW n \in Router, NEW r, Sound(n, r)
  PROVE  AllWhole(r)
BY QualityNat DEF AllWhole, Sound, Numbers, Whole

(* A step at segment s that brings no new way.                             *)
Fades(n, s, r, r2) ==
  /\ IsRouter(r2) /\ Sound(n, r2) /\ Changed(r, r2, s)
  /\ r2.seg[s].nbrl2l = r.seg[s].nbrl2l
  /\ \A d \in Dest :
       /\ r.seg[s].route[d].quality = 0 => r2.seg[s].route[d].quality = 0
       /\ Unlimited(r2.seg[s].route[d]) =>
            /\ Unlimited(r.seg[s].route[d])
            /\ r2.seg[s].route[d].quality = r.seg[s].route[d].quality

LEMMA FadesTwice ==
  ASSUME NEW n, NEW s \in Router, NEW r, NEW r2, NEW r3,
         Fades(n, s, r, r2), Fades(n, s, r2, r3)
  PROVE  Fades(n, s, r, r3)
BY DEF Fades, Changed, Dest

(* Other contents of segment s, and no new node.                           *)
NoNewNode(r, r2, s) ==
  /\ r2.known = r.known
  /\ \A d \in Dest :
       /\ r.seg[s].route[d].quality = 0 => r2.seg[s].route[d].quality = 0
       /\ \/ r2.seg[s].route[d].reported \in {r.seg[s].route[d].reported, 0}
          \/ d \in r.known

LEMMA SoundAt ==
  ASSUME NEW n \in Router, NEW s \in Router, NEW r, NEW r2,
         Sound(n, r), Changed(r, r2, s), NoNewNode(r, r2, s),
         r2.seg[s].used = r.seg[s].used, r2.seg[s].typ # "LOCAL", Numbers(r2.seg[s])
  PROVE  Sound(n, r2)
<1>1. \A x \in Local : x # s /\ x \in Dest BY NamesAssumption DEF Dest
<1>2. \A x \in Dest : x = s \/ r2.seg[x] = r.seg[x] BY DEF Changed
<1>3. \A x \in Dest : r2.seg[x].used = r.seg[x].used BY <1>2
<1>4. Router \subseteq Dest BY DEF Dest
<1>5. ASSUME NEW x \in Local, r2.seg[x].used PROVE LocalRoute(r2, x)
  <2>1. r2.seg[x] = r.seg[x] BY <1>1, <1>2
  <2>2. LocalRoute(r, x) BY <1>5, <2>1 DEF Sound
  <2>3. ASSUME NEW k \in Router PROVE r2.seg[k].route[x].quality = 0
    <3>1. r.seg[k].route[x].quality = 0 BY <2>2 DEF LocalRoute
    <3>2. CASE k = s BY <1>1, <3>1, <3>2 DEF NoNewNode
    <3>3. CASE k # s
      <4>1. r2.seg[k] = r.seg[k] BY <1>2, <1>4, <3>3
      <4> QED BY <3>1, <4>1
    <3> QED BY <3>2, <3>3
  <2> QED BY <2>1, <2>2, <2>3 DEF LocalRoute, NoNewNode
<1>6. \A x \in Dest : Numbers(r2.seg[x]) BY <1>2 DEF Sound
<1>7. \A x \in Router :
        /\ r2.seg[x].used <=> x \in Neighbour(n)
        /\ r2.seg[x].typ # "LOCAL"
        /\ r2.seg[x].route[n].quality = 0
  <2>1. /\ r.seg[s].used <=> s \in Neighbour(n)
        /\ r.seg[s].route[n].quality = 0 /\ n \in Dest /\ s \in Dest
    BY <1>4 DEF Sound
  <2>2. r2.seg[s].route[n].quality = 0 BY <2>1 DEF NoNewNode
  <2> TAKE x \in Router
  <2>3. CASE x = s BY <1>3, <2>1, <2>2, <2>3
  <2>4. CASE x # s
    <3>1. r2.seg[x] = r.seg[x] BY <1>2, <1>4, <2>4
    <3> QED BY <3>1 DEF Sound
  <2> QED BY <2>3, <2>4
<1>8. ASSUME NEW x \in Dest, r2.seg[x].used, NEW d \in Dest \ r2.known
      PROVE  r2.seg[x].route[d].quality = 0 /\ r2.seg[x].route[d].reported = 0
  <2>1. d \in Dest \ r.known BY DEF NoNewNode
  <2>2. r.seg[x].used BY <1>3, <1>8
  <2>3. r.seg[x].route[d].quality = 0 /\ r.seg[x].route[d].reported = 0
    BY <2>1, <2>2 DEF Sound
  <2>4. CASE x = s BY <2>1, <2>3, <2>4 DEF NoNewNode
  <2>5. CASE x # s
    <3>1. r2.seg[x] = r.seg[x] BY <1>2, <2>5
    <3> QED BY <2>3, <3>1
  <2> QED BY <2>4, <2>5
<1>9. r2.id = n BY DEF Sound, Changed
<1> QED BY <1>5, <1>6, <1>7, <1>8, <1>9 DEF Sound

(* Segment p becomes p2, which has no new way.                             *)
Faded(p, p2) ==
  /\ p2.used = p.used /\ p2.nbrl2l = p.nbrl2l /\ p2.typ # "LOCAL" /\ Numbers(p2)
  /\ \A d \in Dest :
       /\ p2.route[d].reported \in {p.route[d].reported, 0}
       /\ p.route[d].quality = 0 => p2.route[d].quality = 0
       /\ Unlimited(p2.route[d]) =>
            /\ Unlimited(p.route[d])
            /\ p2.route[d].quality = p.route[d].quality

LEMMA FadeTo ==
  ASSUME NEW n \in Router, NEW s \in Router, NEW r, NEW r2,
         IsRouter(r), Sound(n, r), IsRouter(r2), Changed(r, r2, s), r2.known = r.known,
         Faded(r.seg[s], r2.seg[s])
  PROVE  Fades(n, s, r, r2)
<1>1. NoNewNode(r, r2, s) BY DEF Faded, NoNewNode
<1>2. r2.seg[s].used = r.seg[s].used /\ r2.seg[s].typ # "LOCAL" /\ Numbers(r2.seg[s])
  BY DEF Faded
<1>3. Sound(n, r2) BY <1>1, <1>2, SoundAt
<1> QED BY <1>3 DEF Fades, Faded

LEMMA FadeDrop ==
  ASSUME NEW n \in Router, NEW s \in Router, NEW r, IsRouter(r), Sound(n, r)
  PROVE  Fades(n, s, r, DropUnreachable(r)) /\ DropUnreachable(r).seg = r.seg
<1> DEFINE r2 == DropUnreachable(r)
<1>1. /\ r2.seg = r.seg /\ r2.id = r.id /\ r2.known = r.known \ Unreachable(r)
      /\ IsRouter(r2)
  BY DropUnreachableRouter DEF DropUnreachable, IsRouter, IsRec, RouterFields
<1> HIDE DEF r2
<1>2. \A x \in Dest : r.seg[x].used => \A d \in Dest \ r2.known :
        r.seg[x].route[d].quality = 0 /\ r.seg[x].route[d].reported = 0
  BY <1>1 DEF Sound, Unreachable, Segments
<1>3. ASSUME NEW x \in Local, r.seg[x].used PROVE LocalRoute(r2, x)
  <2>1. LocalRoute(r, x) BY <1>3 DEF Sound
  <2>2. x \in Dest /\ r.seg[x].route[x].quality # 0 BY <2>1 DEF LocalRoute, Dest
  <2>3. x \in r2.known BY <1>2, <1>3, <2>2
  <2> QED BY <1>1, <2>1, <2>3 DEF LocalRoute
<1>4. Sound(n, r2) BY <1>1, <1>2, <1>3 DEF Sound
<1> QED BY <1>1, <1>4 DEF Fades, Changed, r2

LEMMA FadeNot ==
  ASSUME NEW n \in Router, NEW s \in Router, NEW r, IsRouter(r), Sound(n, r)
  PROVE  Fades(n, s, r, r)
BY DEF Fades, Changed

(* A field of the segment.                                                 *)
LEMMA FadeField ==
  ASSUME NEW n \in Router, NEW s \in Router, NEW r, IsRouter(r), Sound(n, r),
         NEW f \in {"typ", "rttstart"}, NEW v, f = "typ" => v # "LOCAL"
  PROVE  LET r2 == [r EXCEPT !.seg[s] = [r.seg[s] EXCEPT ![f] = v]]
         IN  Fades(n, s, r, r2) /\ r2.seg[s][f] = v /\ r2.seg[s].route = r.seg[s].route
<1> DEFINE r2 == [r EXCEPT !.seg[s] = [r.seg[s] EXCEPT ![f] = v]]
<1> DEFINE p == r.seg[s]
<1>1. s \in Dest BY DEF Dest
<1>2. IsRouter(r2) BY <1>1, SetSegmentField DEF SegmentFields
<1>3. Counted(p) BY <1>1 DEF IsRouter
<1>4. /\ Changed(r, r2, s) /\ r2.known = r.known
      /\ r2.seg[s] = [p EXCEPT ![f] = v]
  BY <1>1 DEF IsRouter, IsRec, RouterFields, Changed
<1> HIDE DEF r2, p
<1>5. /\ \A g \in SegmentFields \ {f} : r2.seg[s][g] = p[g]
      /\ r2.seg[s][f] = v
  BY <1>3, <1>4 DEF Counted, IsRec, SegmentFields
<1>6. /\ r2.seg[s].used = p.used /\ r2.seg[s].nbrl2l = p.nbrl2l /\ r2.seg[s].my = p.my
      /\ r2.seg[s].quality = p.quality /\ r2.seg[s].route = p.route
      /\ r2.seg[s].typ \in {p.typ, v}
      /\ f = "rttstart" => r2.seg[s].typ = p.typ
  BY <1>5 DEF SegmentFields
<1>7. Numbers(p) /\ p.typ # "LOCAL" BY <1>1 DEF Sound, p
<1>8. Numbers(r2.seg[s]) BY <1>6, <1>7 DEF Numbers
<1>9. r2.seg[s].typ # "LOCAL" BY <1>6, <1>7
<1>10. Faded(p, r2.seg[s]) BY <1>6, <1>8, <1>9 DEF Faded
<1>11. Fades(n, s, r, r2) BY <1>2, <1>4, <1>10, FadeTo DEF p
<1> QED BY <1>5, <1>6, <1>11 DEF r2, p

LEMMA FadeTyp ==
  ASSUME NEW n \in Router, NEW s \in Router, NEW r, IsRouter(r), Sound(n, r),
         NEW typ \in {"INP", "NETROM"}
  PROVE  LET r2 == SetPeerTyp(r, s, typ)
         IN  /\ Fades(n, s, r, r2) /\ r2.seg[s].typ = typ
             /\ typ # "INP" => r2.seg[s].route = r.seg[s].route
<1> DEFINE r2 == SetPeerTyp(r, s, typ)
<1> DEFINE p == r.seg[s]
<1>1. s \in Dest BY DEF Dest
<1>2. IsRouter(r2) BY <1>1, SetPeerTypRouter
<1>3. Counted(p) BY <1>1 DEF IsRouter
<1>4. Changed(r, r2, s) /\ r2.known = r.known
  BY <1>1 DEF SetPeerTyp, IsRouter, IsRec, RouterFields, Changed
<1>5. /\ r2.seg[s].used = p.used /\ r2.seg[s].nbrl2l = p.nbrl2l /\ r2.seg[s].my = p.my
      /\ r2.seg[s].quality = p.quality /\ r2.seg[s].typ = typ
      /\ typ # "INP" => r2.seg[s].route = p.route
  BY <1>1, <1>3 DEF SetPeerTyp, IsRouter, Counted, IsRec, RouterFields, SegmentFields
<1>6. \A d \in Dest : /\ r2.seg[s].route[d].quality = p.route[d].quality
                      /\ r2.seg[s].route[d].timeout = p.route[d].timeout
                      /\ r2.seg[s].route[d].reported \in {p.route[d].reported, 0}
  BY <1>1, <1>3 DEF SetPeerTyp, IsRouter, Counted, IsRec, RouterFields, SegmentFields,
                    IsRoute, EntryFields
<1> HIDE DEF r2, p
<1>7. Numbers(p) BY <1>1 DEF Sound, p
<1>8. Numbers(r2.seg[s]) BY <1>5, <1>6, <1>7 DEF Numbers
<1>9. r2.seg[s].typ # "LOCAL" BY <1>5
<1>10. Faded(p, r2.seg[s]) BY <1>5, <1>6, <1>8, <1>9 DEF Faded, Unlimited
<1>11. Fades(n, s, r, r2) BY <1>2, <1>4, <1>10, FadeTo DEF p
<1> QED BY <1>5, <1>11 DEF r2, p

(* update_peer_quality() on a segment.                                     *)
Measured(r, s, my, his) == [r EXCEPT !.seg[s] = UpdatePeerQuality(@, my, his)]

LEMMA FadeQuality ==
  ASSUME NEW n \in Router, NEW s \in Router, NEW r, IsRouter(r), Sound(n, r),
         NEW my \in Nat \cup {-1}, NEW his
  PROVE  LET r2 == Measured(r, s, my, his)
         IN  /\ Fades(n, s, r, r2) /\ r2.seg[s].route = r.seg[s].route
             /\ r2.seg[s].typ = r.seg[s].typ
             /\ my = -1 => r2.seg[s].my = r.seg[s].my
<1> DEFINE p == r.seg[s]
<1> DEFINE r2 == Measured(r, s, my, his)
<1> DEFINE m == IF my = -1 THEN p.my ELSE IF my = 0 THEN 0 ELSE Smooth(p.my, my)
<1>1. s \in Dest BY DEF Dest
<1>2. IsRouter(r2) BY <1>1, UpdatePeerQualityRouter DEF Measured
<1>3. Counted(p) BY <1>1 DEF IsRouter
<1>4. Changed(r, r2, s) /\ r2.known = r.known /\ r2.seg[s] = UpdatePeerQuality(p, my, his)
  BY <1>1 DEF Measured, IsRouter, IsRec, RouterFields, Changed
<1>5. Numbers(p) /\ p.typ # "LOCAL" BY <1>1 DEF Sound
<1>6. m \in Nat BY <1>5, SmoothNat DEF Numbers
<1> HIDE DEF r2, p
<1>7. /\ r2.seg[s].used = p.used /\ r2.seg[s].nbrl2l = p.nbrl2l /\ r2.seg[s].my = m
      /\ r2.seg[s].quality = m /\ r2.seg[s].typ = p.typ /\ r2.seg[s].route = p.route
  BY <1>3, <1>4 DEF UpdatePeerQuality, Counted, IsRec, SegmentFields
<1>8. my = -1 => m = p.my OBVIOUS
<1> HIDE DEF m
<1>9. Numbers(r2.seg[s]) BY <1>5, <1>6, <1>7 DEF Numbers
<1>10. Faded(p, r2.seg[s]) BY <1>5, <1>7, <1>9 DEF Faded
<1>11. Fades(n, s, r, r2) BY <1>2, <1>4, <1>10, FadeTo DEF p
<1> QED BY <1>7, <1>8, <1>11 DEF r2, p

LEMMA FadeClear ==
  ASSUME NEW n \in Router, NEW s \in Router, NEW r, IsRouter(r), Sound(n, r)
  PROVE  LET r2 == ClearPeer(r, s)
         IN  /\ Fades(n, s, r, r2)
             /\ \A d \in Dest : r2.seg[s].route[d].quality = 0
<1> DEFINE r1 == ClearRoutes(r, s)
<1> DEFINE p == r.seg[s]
<1>1. s \in Dest BY DEF Dest
<1>2. Counted(p) BY <1>1 DEF IsRouter
<1>3. /\ Changed(r, r1, s) /\ r1.known = r.known
      /\ r1.seg[s] = [p EXCEPT !.route = NoRoutes, !.num = 0]
  BY <1>1 DEF ClearRoutes, IsRouter, IsRec, RouterFields, Changed
<1>4. IsRouter(r1)
  <2>1. Counted(r1.seg[s])
    <3>1. r1.seg[s].route = NoRoutes /\ r1.seg[s].num = 0 /\ IsRec(r1.seg[s], SegmentFields)
      BY <1>2, <1>3 DEF Counted, IsRec, SegmentFields
    <3>2. IsRoute(NoRoutes) /\ Cardinality(Led(NoRoutes)) = 0
      BY EmptyCounted DEF Counted, EmptySegment
    <3> QED BY <3>1, <3>2 DEF Counted
  <2>2. r1 = [r EXCEPT !.seg[s] = r1.seg[s]]
    BY <1>1, <1>3 DEF ClearRoutes, IsRouter, IsRec, RouterFields
  <2> QED BY <1>1, <2>1, <2>2, SetSegment
<1> HIDE DEF r1, p
<1>5. /\ r1.seg[s].used = p.used /\ r1.seg[s].nbrl2l = p.nbrl2l /\ r1.seg[s].my = p.my
      /\ r1.seg[s].quality = p.quality /\ r1.seg[s].typ = p.typ
      /\ r1.seg[s].route = NoRoutes
  BY <1>2, <1>3 DEF Counted, IsRec, SegmentFields
<1>6. \A d \in Dest : /\ r1.seg[s].route[d].quality = 0
                      /\ r1.seg[s].route[d].timeout = 0 /\ r1.seg[s].route[d].reported = 0
  BY <1>5 DEF NoRoutes, NoRoute
<1>7. Numbers(p) /\ p.typ # "LOCAL" BY <1>1 DEF Sound, p
<1>8. Numbers(r1.seg[s])
  <2>1. 0 \in Quality BY QualityNat
  <2> QED BY <1>5, <1>6, <1>7, <2>1 DEF Numbers
<1>9. Fades(n, s, r, r1)
  <2>1. Faded(p, r1.seg[s]) BY <1>5, <1>6, <1>7, <1>8 DEF Faded, Unlimited
  <2> QED BY <1>3, <1>4, <2>1, FadeTo DEF p
<1>10. Fades(n, s, r1, DropUnreachable(r1)) /\ DropUnreachable(r1).seg = r1.seg
  BY <1>9, FadeDrop DEF Fades
<1> QED BY <1>6, <1>9, <1>10, FadesTwice DEF ClearPeer, r1

LEMMA FadeReset ==
  ASSUME NEW n \in Router, NEW s \in Neighbour(n), NEW r, IsRouter(r), Sound(n, r)
  PROVE  LET r2 == ResetPeer(r, s)
         IN  Fades(n, s, r, r2) /\ \A d \in Dest : ~Unlimited(r2.seg[s].route[d])
<1> DEFINE r1 == IF r.seg[s].typ = "INP" THEN SetPeerTyp(r, s, "NETROM") ELSE r
<1> DEFINE e == r1.seg[s].route
<1> DEFINE short(d) ==
      [e[d] EXCEPT !.reported = 0,
                   !.timeout = IF e[d].quality # 0 /\ (e[d].timeout = 0 \/ e[d].timeout > ResetTimeout)
                               THEN ResetTimeout ELSE e[d].timeout]
<1> DEFINE route == [d \in Dest |-> IF d \in r.known THEN short(d) ELSE e[d]]
<1> DEFINE r2 == [r1 EXCEPT !.seg[s].route = route]
<1> DEFINE r3 == Measured(r2, s, 0, -1)
<1>1. s \in Router /\ s \in Dest BY DEF Dest, Neighbour
<1>2. Fades(n, s, r, r1) /\ r1.known = r.known
  <2>1. r1.known = r.known BY DEF SetPeerTyp, IsRouter, IsRec, RouterFields
  <2>2. Fades(n, s, r, SetPeerTyp(r, s, "NETROM")) BY <1>1, FadeTyp
  <2> QED BY <1>1, <2>1, <2>2, FadeNot
<1>3. ResetPeer(r, s) = DropUnreachable(r3) BY DEF ResetPeer, Measured
<1> HIDE DEF r1
<1>4. IsRouter(r1) /\ Sound(n, r1) BY <1>2 DEF Fades
<1>5. Counted(r1.seg[s]) BY <1>1, <1>4 DEF IsRouter
<1>6. \A d \in Dest : IsRec(e[d], EntryFields) BY <1>5 DEF Counted, IsRoute
<1>7. \A d \in Dest : IsRec(route[d], EntryFields) BY <1>6 DEF IsRec, EntryFields
<1>8. \A d \in Dest :
        /\ route[d].quality = e[d].quality
        /\ route[d].reported \in {e[d].reported, 0}
        /\ d \notin r.known => route[d] = e[d]
        /\ d \in r.known /\ e[d].quality # 0 => route[d].timeout # 0
        /\ route[d].timeout \in {e[d].timeout, ResetTimeout}
  <2>1. ASSUME NEW d \in Dest
        PROVE  /\ short(d).quality = e[d].quality /\ short(d).reported = 0
               /\ e[d].quality # 0 => short(d).timeout # 0
               /\ short(d).timeout \in {e[d].timeout, ResetTimeout}
    BY <1>6 DEF IsRec, EntryFields, ResetTimeout
  <2>2. \A d \in Dest : route[d] = IF d \in r.known THEN short(d) ELSE e[d] OBVIOUS
  <2> HIDE DEF short, route, e
  <2> QED BY <2>1, <2>2
<1>9. IsRoute(route) BY <1>7 DEF IsRoute
<1> HIDE DEF short, route
<1>10. IsRouter(r2) BY <1>1, <1>4, <1>8, <1>9, SetRoutes
<1>11. Changed(r1, r2, s) /\ r2.known = r1.known
  BY <1>1, <1>4 DEF IsRouter, IsRec, RouterFields, Changed
<1>12. /\ r2.seg[s].used = r1.seg[s].used /\ r2.seg[s].nbrl2l = r1.seg[s].nbrl2l
       /\ r2.seg[s].my = r1.seg[s].my /\ r2.seg[s].quality = r1.seg[s].quality
       /\ r2.seg[s].typ = r1.seg[s].typ /\ r2.seg[s].route = route
  BY <1>1, <1>4, <1>5 DEF IsRouter, Counted, IsRec, RouterFields, SegmentFields
<1> HIDE DEF r2
<1>13. Numbers(r1.seg[s]) /\ r1.seg[s].typ # "LOCAL" BY <1>1, <1>4 DEF Sound
<1>14. \A d \in Dest : route[d].timeout \in Nat
  BY <1>8, <1>13 DEF Numbers, ResetTimeout
<1>15. Numbers(r2.seg[s]) BY <1>8, <1>12, <1>13, <1>14 DEF Numbers
<1>16. \A d \in Dest : e[d].quality # 0 => d \in r.known
  <2>1. r1.seg[s].used BY <1>1, <1>4 DEF Sound
  <2> QED BY <1>1, <1>2, <1>4, <2>1 DEF Sound
<1>17. \A d \in Dest : ~Unlimited(r2.seg[s].route[d]) BY <1>8, <1>12, <1>16 DEF Unlimited
<1>18. Fades(n, s, r1, r2)
  <2>1. Faded(r1.seg[s], r2.seg[s]) BY <1>8, <1>12, <1>13, <1>15, <1>17 DEF Faded
  <2> QED BY <1>1, <1>4, <1>10, <1>11, <2>1, FadeTo
<1>19. IsRouter(r2) /\ Sound(n, r2) BY <1>18 DEF Fades
<1>20. Fades(n, s, r2, r3) BY <1>1, <1>19, FadeQuality
<1> HIDE DEF r3
<1>21. Fades(n, s, r3, DropUnreachable(r3)) BY <1>1, <1>20, FadeDrop DEF Fades
<1> HIDE DEF e
<1>22. Fades(n, s, r2, ResetPeer(r, s)) BY <1>1, <1>3, <1>20, <1>21, FadesTwice
<1>23. Fades(n, s, r, ResetPeer(r, s)) BY <1>1, <1>2, <1>18, <1>22, FadesTwice
<1> QED BY <1>17, <1>22, <1>23 DEF Fades

(* What each change of the state of a link does.                           *)
LEMMA FadeMeasurement ==
  ASSUME NEW n \in Router, NEW s \in Router, NEW r, IsRouter(r), Sound(n, r)
  PROVE  LET r2 == NoMeasurement(r, s) IN Fades(n, s, r, r2) /\ r2.seg[s].typ # "INP"
<1> DEFINE r1 == [r EXCEPT !.seg[s] = [r.seg[s] EXCEPT !["rttstart"] = FALSE]]
<1>1. Fades(n, s, r, r1) BY FadeField
<1>2. NoMeasurement(r, s) = IF r1.seg[s].typ = "INP" THEN SetPeerTyp(r1, s, "NETROM") ELSE r1
  BY DEF NoMeasurement
<1> HIDE DEF r1
<1>3. IsRouter(r1) /\ Sound(n, r1) BY <1>1 DEF Fades
<1>4. Fades(n, s, r1, SetPeerTyp(r1, s, "NETROM")) /\ SetPeerTyp(r1, s, "NETROM").seg[s].typ = "NETROM"
  BY <1>3, FadeTyp
<1>5. Fades(n, s, r, SetPeerTyp(r1, s, "NETROM")) BY <1>1, <1>4, FadesTwice
<1> QED BY <1>1, <1>2, <1>4, <1>5

Renewed(n, s, r, r2) ==
  /\ Fades(n, s, r, r2) /\ r2.seg[s].typ # "INP"
  /\ \A d \in Dest : ~Unlimited(r2.seg[s].route[d])

LEMMA LinkRenews ==
  ASSUME NEW n \in Router, NEW s \in Neighbour(n), NEW r, IsRouter(r), Sound(n, r)
  PROVE  /\ Renewed(n, s, r, LinkConnected(r, s))
         /\ Renewed(n, s, r, LinkReset(r, s))
         /\ Renewed(n, s, r, LinkReset(LinkReset(r, s), s))
         /\ Renewed(n, s, r, LinkGone(r, s))
         /\ \A d \in Dest : LinkGone(r, s).seg[s].route[d].quality = 0
<1>1. s \in Router /\ s \in Dest BY DEF Neighbour, Dest
<1>2. ASSUME NEW r1, Fades(n, s, r, r1), \A d \in Dest : ~Unlimited(r1.seg[s].route[d])
      PROVE  Renewed(n, s, r, NoMeasurement(r1, s))
  <2>1. Fades(n, s, r1, NoMeasurement(r1, s)) /\ NoMeasurement(r1, s).seg[s].typ # "INP"
    BY <1>1, <1>2, FadeMeasurement DEF Fades
  <2>2. Fades(n, s, r, NoMeasurement(r1, s)) BY <1>1, <1>2, <2>1, FadesTwice
  <2> QED BY <1>2, <2>1, <2>2 DEF Fades, Renewed
<1>3. ASSUME NEW r1, Fades(n, s, r, r1) PROVE Renewed(n, s, r, LinkReset(r1, s))
  <2>1. Fades(n, s, r1, ResetPeer(r1, s)) /\ \A d \in Dest : ~Unlimited(ResetPeer(r1, s).seg[s].route[d])
    BY <1>3, FadeReset DEF Fades
  <2>2. Fades(n, s, r, ResetPeer(r1, s)) BY <1>1, <1>3, <2>1, FadesTwice
  <2> QED BY <1>2, <2>1, <2>2 DEF LinkReset
<1>4. Renewed(n, s, r, LinkReset(r, s)) BY <1>1, <1>3, FadeNot
<1>5. Renewed(n, s, r, LinkReset(LinkReset(r, s), s)) BY <1>3, <1>4 DEF Renewed
<1>6. ASSUME NEW r1, Fades(n, s, r, r1)
      PROVE  /\ Renewed(n, s, r, NoMeasurement(ClearPeer(r1, s), s))
             /\ \A d \in Dest : NoMeasurement(ClearPeer(r1, s), s).seg[s].route[d].quality = 0
  <2>1. Fades(n, s, r1, ClearPeer(r1, s)) /\ \A d \in Dest : ClearPeer(r1, s).seg[s].route[d].quality = 0
    BY <1>1, <1>6, FadeClear DEF Fades
  <2>2. Fades(n, s, r, ClearPeer(r1, s)) BY <1>1, <1>6, <2>1, FadesTwice
  <2>3. Renewed(n, s, r, NoMeasurement(ClearPeer(r1, s), s))
    BY <1>2, <2>1, <2>2 DEF Unlimited
  <2>4. Fades(n, s, ClearPeer(r1, s), NoMeasurement(ClearPeer(r1, s), s))
    BY <1>1, <2>1, FadeMeasurement DEF Fades
  <2> QED BY <2>1, <2>3, <2>4 DEF Fades
<1>7. Renewed(n, s, r, LinkConnected(r, s)) BY <1>1, <1>6, FadeNot DEF LinkConnected
<1>8. Fades(n, s, r, Measured(r, s, 0, -1)) BY <1>1, FadeQuality
<1>9. /\ Renewed(n, s, r, LinkGone(r, s))
      /\ \A d \in Dest : LinkGone(r, s).seg[s].route[d].quality = 0
  BY <1>6, <1>8 DEF LinkGone, Measured
<1> QED BY <1>4, <1>5, <1>7, <1>9

-----------------------------------------------------------------------------
(* The best way.                                                           *)

LEMMA WayNat ==
  ASSUME NEW n \in Router, NEW r, Sound(n, r), NEW s \in Dest, NEW d \in Dest
  PROVE  /\ Way(r, s, d) \in Nat
         /\ Way(r, s, d) # 0 <=> r.seg[s].route[d].quality # 0 /\ r.seg[s].quality # 0
BY WholeWay, SoundWhole

LEMMA BestWay ==
  ASSUME NEW n \in Router, NEW r, Sound(n, r), NEW segs \in SUBSET Dest, NEW d \in Dest
  PROVE  /\ Best(r, d, segs).q \in Nat
         /\ Best(r, d, segs).q # 0 <=> \E s \in segs : Way(r, s, d) # 0
         /\ BestQuality(r, d, segs) # 0 <=> \E s \in segs : Way(r, s, d) # 0
BY WholeBest, SoundWhole

(* A virtual segment leads to its own station only.                        *)
LEMMA VirtualCall ==
  ASSUME NEW n \in Router, NEW r, Sound(n, r), NEW d \in Dest
  PROVE  IsCall(r, d, Virtual(r)) <=> d \in Local /\ r.seg[d].used
<1>1. Virtual(r) \in SUBSET Dest BY DEF Virtual, Segments
<1>2. ASSUME IsCall(r, d, Virtual(r)) PROVE d \in Local /\ r.seg[d].used
  <2>1. PICK s \in Virtual(r) : Way(r, s, d) # 0 BY <1>1, <1>2, BestWay DEF IsCall
  <2>2. s \in Dest /\ r.seg[s].used /\ r.seg[s].typ = "LOCAL"
    BY DEF Virtual, Datagram, Segments, DG
  <2>3. s \in Local /\ LocalRoute(r, s) BY <2>2 DEF Sound, Dest
  <2>4. r.seg[s].route[d].quality # 0 BY <2>1, <2>2, WayNat
  <2> QED BY <2>2, <2>3, <2>4 DEF LocalRoute
<1>3. ASSUME d \in Local, r.seg[d].used PROVE IsCall(r, d, Virtual(r))
  <2>1. LocalRoute(r, d) BY <1>3 DEF Sound
  <2>2. d \in Virtual(r) BY <1>3, <2>1 DEF LocalRoute, Virtual, Datagram, Segments, DG
  <2>3. Way(r, d, d) # 0 BY <2>1, WayNat DEF LocalRoute
  <2> QED BY <1>1, <2>1, <2>2, <2>3, BestWay DEF IsCall, LocalRoute
<1> QED BY <1>2, <1>3

-----------------------------------------------------------------------------
(* New routes.                                                             *)

(* A step at segment s that keeps what was reported.                       *)
Learns(n, s, r, r2) ==
  /\ IsRouter(r2) /\ Sound(n, r2) /\ Changed(r, r2, s)
  /\ r2.seg[s].nbrl2l = r.seg[s].nbrl2l /\ r2.seg[s].typ = r.seg[s].typ
  /\ r2.seg[s].my = r.seg[s].my
  /\ SameReports(r.seg[s], r2.seg[s])

LEMMA Others ==
  ASSUME NEW n \in Router, NEW s \in Neighbour(n)
  PROVE  s \in Router /\ s \in Dest /\ s # n
<1>1. s \in Router /\ (<<n, s>> \in Line \/ <<s, n>> \in Line) BY DEF Neighbour
<1>2. \A l \in Line : l[1] # l[2] BY LineAssumption
<1>3. /\ <<n, s>>[1] = n /\ <<n, s>>[2] = s
      /\ <<s, n>>[1] = s /\ <<s, n>>[2] = n
  OBVIOUS
<1>4. s # n BY <1>1, <1>2, <1>3
<1> QED BY <1>1, <1>4 DEF Dest

LEMMA AddRoutesLearns ==
  ASSUME NEW n \in Router, NEW s \in Neighbour(n), NEW r, IsRouter(r), Sound(n, r),
         NEW q, DOMAIN q \subseteq Dest \ {n}, NEW lt,
         \A d \in DOMAIN q : q[d] \in Nat /\ ~(d \in Local /\ r.seg[d].used),
         NEW r2, r2 = AddRoutes(r, s, q, lt)
  PROVE  /\ Learns(n, s, r, r2)
         /\ \A d \in Dest :
              /\ d \notin DOMAIN q => r2.seg[s].route[d] = r.seg[s].route[d]
              /\ d \in DOMAIN q /\ Unlimited(r2.seg[s].route[d]) =>
                   /\ r.seg[s].typ = "INP"
                   /\ r2.seg[s].route[d].quality = q[d] /\ q[d] < HORIZONT
<1> DEFINE p == r.seg[s]
<1> DEFINE p2 == r2.seg[s]
<1> DEFINE ds == {d \in DOMAIN q : d \in r.known \/ q[d] # 0}
<1>1. s \in Router /\ s \in Dest /\ DOMAIN q \subseteq Dest /\ Router \subseteq Dest
  BY DEF Neighbour, Dest
<1>2. /\ IsRouter(r2) /\ Changed(r, r2, s) /\ r2.known = r.known \cup ds
      /\ p2.used = p.used /\ p2.typ = p.typ /\ p2.nbrl2l = p.nbrl2l
      /\ p2.my = p.my /\ p2.quality = p.quality
      /\ \A d \in Dest :
           /\ p2.route[d].reported = p.route[d].reported
           /\ d \notin ds => p2.route[d] = p.route[d]
           /\ d \in ds =>
                /\ p2.route[d].quality = IF q[d] >= HORIZONT THEN 0 ELSE q[d]
                /\ p2.route[d].timeout = IF Secured(p) THEN 0 ELSE ObcIni
  <2>1. RoutesAdded(r, s, q, lt, r2) BY <1>1, AddRoutesFields
  <2> QED BY <2>1 DEF RoutesAdded
<1>3. Numbers(p) /\ p.typ # "LOCAL" /\ p.used /\ p.route[n].quality = 0
  BY <1>1 DEF Sound
<1>4. ds \subseteq DOMAIN q OBVIOUS
<1>5. \A x \in Dest : x = s \/ r2.seg[x] = r.seg[x] BY <1>2 DEF Changed
<1>6. ASSUME NEW x \in Nat PROVE (IF x >= HORIZONT THEN 0 ELSE x) \in Quality
  <2>1. 0 \in Quality BY QualityNat
  <2>2. x >= HORIZONT \/ x < HORIZONT BY DEF HORIZONT
  <2>3. x < HORIZONT => x \in Quality BY QualityNat
  <2> QED BY <2>1, <2>2, <2>3
<1>7. ObcIni \in Nat /\ ObcIni # 0 BY TimesAssumption
<1>8. \A d \in Dest \ r.known : p.route[d].quality = 0 /\ p.route[d].reported = 0
  BY <1>1, <1>3 DEF Sound
<1>9. \A d \in Dest : d \in DOMAIN q /\ d \notin ds => p.route[d].quality = 0 BY <1>8
<1>10. r2.id = n BY <1>2 DEF Changed, Sound
<1> HIDE DEF p, p2, ds
<1>11. \A d \in Dest : p2.route[d].quality \in Quality /\ p2.route[d].timeout \in Nat
  <2> TAKE d \in Dest
  <2>1. CASE d \in ds BY <1>2, <1>4, <1>6, <1>7, <2>1
  <2>2. CASE d \notin ds BY <1>2, <1>3, <2>2 DEF Numbers
  <2> QED BY <2>1, <2>2
<1>12. Numbers(p2) BY <1>2, <1>3, <1>11 DEF Numbers
<1>13. ASSUME NEW x \in Local, r2.seg[x].used PROVE LocalRoute(r2, x)
  <2>1. x # s /\ x \in Dest BY <1>1, NamesAssumption DEF Dest
  <2>2. r2.seg[x] = r.seg[x] BY <1>5, <2>1
  <2>3. LocalRoute(r, x) BY <1>13, <2>2 DEF Sound
  <2>4. x \notin ds BY <1>4, <1>13, <2>2
  <2>5. p2.route[x].quality = 0 BY <1>1, <1>2, <2>1, <2>3, <2>4 DEF LocalRoute, p
  <2>6. \A k \in Router : r2.seg[k].route[x].quality = 0
    BY <1>1, <1>5, <2>3, <2>5 DEF LocalRoute, p2
  <2>7. x \in r2.known BY <1>2, <2>3 DEF LocalRoute
  <2> QED BY <2>2, <2>3, <2>6, <2>7 DEF LocalRoute
<1>14. \A x \in Dest : Numbers(r2.seg[x]) BY <1>5, <1>12 DEF Sound, p2
<1>15. p2.route[n].quality = 0 BY <1>1, <1>2, <1>3, <1>4
<1>16. \A x \in Router :
        /\ r2.seg[x].used <=> x \in Neighbour(n)
        /\ r2.seg[x].typ # "LOCAL"
        /\ r2.seg[x].route[n].quality = 0
  <2>1. p2.used <=> s \in Neighbour(n) BY <1>2, <1>3
  <2>2. p2.typ # "LOCAL" BY <1>2, <1>3
  <2> QED BY <1>1, <1>5, <1>15, <2>1, <2>2 DEF Sound, p2
<1>17. \A d \in Dest \ r2.known : p2.route[d].quality = 0 /\ p2.route[d].reported = 0
  BY <1>2, <1>8
<1>18. \A x \in Dest : r2.seg[x].used => \A d \in Dest \ r2.known :
        r2.seg[x].route[d].quality = 0 /\ r2.seg[x].route[d].reported = 0
  BY <1>2, <1>5, <1>17 DEF Sound, p2
<1>19. Sound(n, r2) BY <1>10, <1>13, <1>14, <1>16, <1>18 DEF Sound
<1>20. Learns(n, s, r, r2) BY <1>2, <1>19 DEF Learns, SameReports, p, p2
<1>21. ASSUME NEW d \in Dest, d \in DOMAIN q, Unlimited(p2.route[d])
       PROVE  p.typ = "INP" /\ p2.route[d].quality = q[d] /\ q[d] < HORIZONT
  <2>1. d \in ds BY <1>2, <1>9, <1>21 DEF Unlimited
  <2>2. q[d] \in Nat BY <1>4, <2>1
  <2>3. p2.route[d].quality = q[d] /\ q[d] < HORIZONT
    BY <1>2, <1>21, <2>1, <2>2 DEF Unlimited, HORIZONT
  <2>4. Secured(p) BY <1>2, <1>7, <1>21, <2>1 DEF Unlimited
  <2> QED BY <1>3, <2>3, <2>4 DEF Secured
<1> QED BY <1>2, <1>4, <1>20, <1>21 DEF p, p2

(* A step that brings no route that is meant to stay, except to the        *)
(* neighbour itself.                                                       *)
LearnsLittle(n, s, r, r2) == Learns(n, s, r, r2) /\ Softer(s, r.seg[s], r2.seg[s])

LEMMA NeighbourLearnt ==
  ASSUME NEW n \in Router, NEW s \in Neighbour(n), NEW r, IsRouter(r), Sound(n, r)
  PROVE  LearnsLittle(n, s, r, AddRoute(r, s, s, 1, 1))
<1>1. s \in Router /\ s # n /\ s \in Dest BY Others
<1>2. s \notin Local BY <1>1, NamesAssumption
<1> DEFINE q == [x \in {s} |-> 1]
<1>3. DOMAIN q = {s} /\ q[s] = 1 OBVIOUS
<1>4. AddRoute(r, s, s, 1, 1) = AddRoutes(r, s, q, [x \in {s} |-> 1]) BY DEF AddRoute
<1> HIDE DEF q
<1>5. /\ Learns(n, s, r, AddRoute(r, s, s, 1, 1))
      /\ \A d \in Dest : d \notin DOMAIN q =>
           AddRoute(r, s, s, 1, 1).seg[s].route[d] = r.seg[s].route[d]
  BY <1>1, <1>2, <1>3, <1>4, AddRoutesLearns
<1> QED BY <1>3, <1>5 DEF LearnsLittle, Softer

LEMMA SenderLearnt ==
  ASSUME NEW n \in Router, NEW s \in Neighbour(n), NEW r, IsRouter(r), Sound(n, r),
         NEW org \in Router \ {n}
  PROVE  LearnsLittle(n, s, r, FastLearn(r, s, org))
<1> DEFINE q == [x \in {org} |-> LEARN]
<1> DEFINE r1 == AddRoute(r, s, org, LEARN, DEFAULT_LT)
<1> DEFINE e == r1.seg[s].route
<1> DEFINE route == [e EXCEPT ![org] = [e[org] EXCEPT !.timeout = ObcIni]]
<1> DEFINE r2 == [r1 EXCEPT !.seg[s].route = route]
<1>1. s \in Router /\ s \in Dest /\ org \in Dest /\ org \notin Local
  BY NamesAssumption DEF Neighbour, Dest
<1>2. DOMAIN q = {org} /\ q[org] = LEARN /\ LEARN \in Nat BY DEF LEARN
<1>3. r1 = AddRoutes(r, s, q, [x \in {org} |-> DEFAULT_LT]) BY DEF AddRoute
<1>4. FastLearn(r, s, org) \in {r, r2} /\ IsRouter(FastLearn(r, s, org))
  BY <1>1, FastLearnRouter DEF FastLearn
<1> HIDE DEF q, r1
<1>5. /\ Learns(n, s, r, r1)
      /\ \A d \in Dest : d \notin DOMAIN q => e[d] = r.seg[s].route[d]
  BY <1>1, <1>2, <1>3, AddRoutesLearns
<1>6. LearnsLittle(n, s, r, r) BY DEF LearnsLittle, Learns, Changed, Softer, SameReports
<1>7. IsRouter(r1) /\ Sound(n, r1) BY <1>5 DEF Learns
<1>8. Counted(r1.seg[s]) /\ IsRec(e[org], EntryFields) /\ IsRoute(e)
  BY <1>1, <1>7 DEF IsRouter, Counted, IsRoute
<1>9. Numbers(r1.seg[s]) /\ r1.seg[s].typ # "LOCAL" BY <1>1, <1>7 DEF Sound
<1>10. /\ Changed(r1, r2, s) /\ r2.known = r1.known
       /\ r2.seg[s].used = r1.seg[s].used /\ r2.seg[s].nbrl2l = r1.seg[s].nbrl2l
       /\ r2.seg[s].my = r1.seg[s].my /\ r2.seg[s].quality = r1.seg[s].quality
       /\ r2.seg[s].typ = r1.seg[s].typ
       /\ r2.seg[s].route = route
  BY <1>1, <1>7, <1>8
     DEF IsRouter, IsRec, RouterFields, Changed, Counted, SegmentFields
<1>11. \A d \in Dest :
         /\ route[d].quality = e[d].quality
         /\ route[d].reported = e[d].reported
         /\ d = org => route[d].timeout = ObcIni
         /\ d # org => route[d] = e[d]
  BY <1>8 DEF IsRoute, IsRec, EntryFields
<1>12. IsRouter(r2)
  <2>1. IsRoute(route) BY <1>8 DEF IsRoute, IsRec, EntryFields
  <2> HIDE DEF route
  <2> QED BY <1>1, <1>7, <1>11, <2>1, SetRoutes
<1> HIDE DEF r2, route
<1>13. ObcIni \in Nat /\ ObcIni # 0 BY TimesAssumption
<1>14. Numbers(r2.seg[s]) BY <1>9, <1>10, <1>11, <1>13 DEF Numbers
<1>15. ~Unlimited(r2.seg[s].route[org]) BY <1>1, <1>10, <1>11, <1>13 DEF Unlimited
<1>16. Faded(r1.seg[s], r2.seg[s]) BY <1>9, <1>10, <1>11, <1>14, <1>15 DEF Faded
<1>17. Fades(n, s, r1, r2) BY <1>1, <1>7, <1>10, <1>12, <1>16, FadeTo
<1>18. Learns(n, s, r, r2)
  BY <1>5, <1>10, <1>11, <1>17 DEF Learns, Fades, Changed, SameReports
<1>19. Softer(s, r.seg[s], r2.seg[s]) BY <1>2, <1>5, <1>10, <1>11, <1>15 DEF Softer
<1> QED BY <1>4, <1>6, <1>18, <1>19 DEF LearnsLittle

LEMMA ReportLearnt ==
  ASSUME NEW n \in Router, NEW s \in Neighbour(n), NEW r, IsRouter(r), Sound(n, r),
         NEW rep, DOMAIN rep \subseteq Dest, \A d \in DOMAIN rep : rep[d].q \in Nat,
         NEW r2, r2 = RxReport(r, s, rep)
  PROVE  /\ Learns(n, s, r, r2)
         /\ \A d \in Dest \ {s} : Unlimited(r2.seg[s].route[d]) =>
              IF d \in DOMAIN rep
              THEN /\ r.seg[s].typ = "INP"
                   /\ r2.seg[s].route[d].quality = rep[d].q /\ rep[d].q < HORIZONT
              ELSE /\ Unlimited(r.seg[s].route[d])
                   /\ r2.seg[s].route[d].quality = r.seg[s].route[d].quality
<1> DEFINE ds == {d \in DOMAIN rep : d # r.id /\ ~IsCall(r, d, Virtual(r))}
<1> DEFINE hops(d) == IF rep[d].lt = 0 THEN DEFAULT_LT ELSE rep[d].lt + 1
<1> DEFINE qq(d) == IF d = s THEN 1 ELSE IF hops(d) > MaxLt THEN 0 ELSE rep[d].q
<1> DEFINE lt(d) == IF qq(d) \in {0, HORIZONT} THEN 0 ELSE IF d = s THEN 1 ELSE hops(d)
<1> DEFINE q == [d \in ds |-> qq(d)]
<1>1. r2 = AddRoutes(r, s, q, [d \in ds |-> lt(d)]) BY DEF RxReport
<1>2. s \in Router /\ s # n BY Others
<1>3. r.id = n BY DEF Sound
<1>4. ds = {d \in DOMAIN rep : d # n /\ ~(d \in Local /\ r.seg[d].used)}
  BY <1>3, VirtualCall
<1> HIDE DEF ds, hops, lt
<1>5. \A d \in DOMAIN rep : qq(d) \in Nat /\ (d # s => qq(d) \in {0, rep[d].q}) OBVIOUS
<1>6. DOMAIN q = ds /\ \A d \in ds : q[d] = qq(d) OBVIOUS
<1> HIDE DEF q, qq
<1>7. ds \subseteq Dest \ {n} BY <1>4
<1>8. \A d \in DOMAIN q : q[d] \in Nat /\ ~(d \in Local /\ r.seg[d].used)
  BY <1>4, <1>5, <1>6
<1>9. /\ Learns(n, s, r, r2)
      /\ \A d \in Dest :
           /\ d \notin DOMAIN q => r2.seg[s].route[d] = r.seg[s].route[d]
           /\ d \in DOMAIN q /\ Unlimited(r2.seg[s].route[d]) =>
                /\ r.seg[s].typ = "INP"
                /\ r2.seg[s].route[d].quality = q[d] /\ q[d] < HORIZONT
  BY <1>1, <1>6, <1>7, <1>8, AddRoutesLearns
<1>10. ASSUME NEW d \in Dest \ {s}, Unlimited(r2.seg[s].route[d]), d \in DOMAIN rep
       PROVE  /\ r.seg[s].typ = "INP"
              /\ r2.seg[s].route[d].quality = rep[d].q /\ rep[d].q < HORIZONT
  <2>1. CASE d \in ds
    <3>1. q[d] \in {0, rep[d].q} /\ q[d] # 0
      BY <1>5, <1>6, <1>9, <1>10, <2>1 DEF Unlimited
    <3> QED BY <1>6, <1>9, <1>10, <2>1, <3>1
  <2>2. CASE d \notin ds
    <3>1. r2.seg[s].route[d] = r.seg[s].route[d] BY <1>6, <1>9, <2>2
    <3>2. d = n \/ (d \in Local /\ r.seg[d].used) BY <1>4, <1>10, <2>2
    <3>3. r.seg[s].route[d].quality = 0 BY <1>2, <3>2 DEF Sound, LocalRoute
    <3> QED BY <1>10, <3>1, <3>3 DEF Unlimited
  <2> QED BY <2>1, <2>2
<1>11. \A d \in Dest : d \notin DOMAIN rep => r2.seg[s].route[d] = r.seg[s].route[d]
  BY <1>4, <1>6, <1>9
<1> QED BY <1>9, <1>10, <1>11

-----------------------------------------------------------------------------
(* What the clock and the operator do to the tables.                       *)

(* The state of a link, or of a measurement.                               *)
WithField(r, s, f, v) == [r EXCEPT !.seg[s] = [r.seg[s] EXCEPT ![f] = v]]

LEMMA LinkSet ==
  ASSUME NEW n \in Router, NEW s \in Router, NEW r, IsRouter(r), Sound(n, r),
         NEW f \in {"nbrl2l", "rttstart"}, NEW v
  PROVE  LET r2 == WithField(r, s, f, v) p == r.seg[s] p2 == r2.seg[s]
         IN  /\ IsRouter(r2) /\ Sound(n, r2) /\ Changed(r, r2, s) /\ r2.known = r.known
             /\ p2[f] = v /\ p2.typ = p.typ /\ p2.my = p.my /\ p2.route = p.route
             /\ f = "rttstart" => p2.nbrl2l = p.nbrl2l
<1> DEFINE r2 == WithField(r, s, f, v)
<1> DEFINE p == r.seg[s]
<1> DEFINE p2 == r2.seg[s]
<1>1. s \in Dest BY DEF Dest
<1>2. IsRouter(r2) BY <1>1, SetSegmentField DEF SegmentFields, WithField
<1>3. Counted(p) BY <1>1 DEF IsRouter
<1>4. Changed(r, r2, s) /\ r2.known = r.known /\ p2 = [p EXCEPT ![f] = v]
  BY <1>1 DEF IsRouter, IsRec, RouterFields, Changed, WithField
<1> HIDE DEF p, p2, r2
<1>5. (\A g \in SegmentFields \ {f} : p2[g] = p[g]) /\ p2[f] = v
  BY <1>3, <1>4 DEF Counted, IsRec, SegmentFields
<1>6. /\ p2.used = p.used /\ p2.typ = p.typ /\ p2.my = p.my
      /\ p2.quality = p.quality /\ p2.route = p.route
      /\ f = "rttstart" => p2.nbrl2l = p.nbrl2l
  BY <1>5 DEF SegmentFields
<1>7. Numbers(p) /\ p.typ # "LOCAL" BY <1>1 DEF Sound, p
<1>8. Numbers(p2) BY <1>6, <1>7 DEF Numbers
<1>9. NoNewNode(r, r2, s) BY <1>4, <1>6 DEF NoNewNode, p, p2
<1>10. /\ r2.seg[s].used = r.seg[s].used /\ r2.seg[s].typ # "LOCAL"
       /\ Numbers(r2.seg[s])
  BY <1>6, <1>7, <1>8 DEF p, p2
<1>11. Sound(n, r2) BY <1>4, <1>9, <1>10, SoundAt
<1> QED BY <1>2, <1>4, <1>5, <1>6, <1>11 DEF p, p2, r2

LEMMA AnnounceNat ==
  ASSUME NEW n \in Router, NEW r, Sound(n, r), NEW s \in Dest, NEW d \in Dest,
         NEW hidden, NEW jam, ToAnnounce(r, s, d, hidden, jam) # Skip
  PROVE  ToAnnounce(r, s, d, hidden, jam) \in Nat
BY WholeAnnounce, SoundWhole

(* inform_peer(): what is sent is what is remembered.                      *)
LEMMA Informed ==
  ASSUME NEW n \in Router, NEW s \in Router, NEW r, IsRouter(r), Sound(n, r),
         NEW hidden, NEW jam, NEW r2, r2 = InformPeer(r, s, hidden, jam),
         NEW rep, rep = Report(r, s, hidden, jam)
  PROVE  LET p == r.seg[s] p2 == r2.seg[s]
         IN  /\ IsRouter(r2) /\ Sound(n, r2) /\ Changed(r, r2, s) /\ SameEnd(p, p2)
             /\ \A d \in Dest : /\ p2.route[d].quality = p.route[d].quality
                                /\ p2.route[d].timeout = p.route[d].timeout
             /\ \A d \in Dest \ DOMAIN rep : p2.route[d].reported = p.route[d].reported
             /\ \A d \in DOMAIN rep :
                  rep[d].q \in Nat /\ Matches(rep[d].q, p2.route[d].reported)
<1> DEFINE ds == Announced(r, s, hidden, jam)
<1> DEFINE p == r.seg[s]
<1> DEFINE p2 == r2.seg[s]
<1> DEFINE say(d) == ToAnnounce(r, s, d, hidden, jam)
<1> DEFINE said(e, q) == [e EXCEPT !.reported = q,
                                   !.lt = IF q = 0 /\ e.quality = 0 THEN 0 ELSE e.lt]
<1> DEFINE route == [d \in Dest |-> IF d \in ds THEN said(p.route[d], say(d)) ELSE p.route[d]]
<1>1. s \in Dest BY DEF Dest
<1>2. Counted(p) BY <1>1 DEF IsRouter
<1>3. IsRouter(r2) /\ r2.known = r.known BY <1>1, InformPeerRouter
<1>4. r2 = [r EXCEPT !.seg[s].route = route] BY DEF InformPeer
<1>5. ds \subseteq r.known /\ \A d \in ds : say(d) \in Nat
  BY <1>1, AnnounceNat DEF Announced, IsRouter
<1>6. /\ DOMAIN rep = ds
      /\ \A d \in ds : rep[d].q = IF say(d) = 0 THEN HORIZONT ELSE say(d)
  BY DEF Report
<1>7. \A d \in Dest : IsRec(p.route[d], EntryFields) BY <1>2 DEF Counted, IsRoute
<1> HIDE DEF ds, say
<1>8. \A d \in Dest :
        /\ route[d].quality = p.route[d].quality
        /\ route[d].timeout = p.route[d].timeout
        /\ route[d].reported = IF d \in ds THEN say(d) ELSE p.route[d].reported
  BY <1>7 DEF IsRec, EntryFields
<1> HIDE DEF route
<1>9. /\ Changed(r, r2, s)
      /\ p2.used = p.used /\ p2.typ = p.typ /\ p2.my = p.my /\ p2.nbrl2l = p.nbrl2l
      /\ p2.quality = p.quality /\ p2.route = route
  BY <1>1, <1>2, <1>4 DEF IsRouter, Counted, IsRec, RouterFields, SegmentFields, Changed
<1> HIDE DEF p, p2
<1>10. Numbers(p) /\ p.typ # "LOCAL" BY <1>1 DEF Sound, p
<1>11. Numbers(p2) BY <1>8, <1>9, <1>10 DEF Numbers
<1>12. NoNewNode(r, r2, s) BY <1>3, <1>5, <1>8, <1>9 DEF NoNewNode, p, p2
<1>13. /\ r2.seg[s].used = r.seg[s].used /\ r2.seg[s].typ # "LOCAL"
       /\ Numbers(r2.seg[s])
  BY <1>9, <1>10, <1>11 DEF p, p2
<1>14. Sound(n, r2)
  <2>1. Changed(r, r2, s) BY <1>9
  <2> QED BY <1>12, <1>13, <2>1, SoundAt
<1>15. \A d \in DOMAIN rep : rep[d].q \in Nat /\ Matches(rep[d].q, p2.route[d].reported)
  <2> TAKE d \in DOMAIN rep
  <2>1. d \in Dest /\ d \in ds BY <1>3, <1>5, <1>6 DEF IsRouter
  <2>2. say(d) \in Nat /\ rep[d].q = IF say(d) = 0 THEN HORIZONT ELSE say(d)
    BY <1>5, <1>6, <2>1
  <2>3. p2.route[d].reported = say(d) BY <1>8, <1>9, <2>1
  <2> QED BY <2>2, <2>3 DEF Matches, HORIZONT
<1> QED BY <1>3, <1>6, <1>8, <1>9, <1>14, <1>15 DEF SameEnd, p, p2

(* brosrv60(): routes are lost, and those without a limit stay as they are.*)
LEMMA Aged ==
  ASSUME NEW p, Counted(p), Numbers(p), NEW known \in SUBSET Dest,
         NEW p2, p2 = AgeSegment(p, known)
  PROVE  /\ Counted(p2) /\ Numbers(p2)
         /\ p2.used = p.used /\ p2.typ = p.typ /\ p2.nbrl2l = p.nbrl2l /\ p2.my = p.my
         /\ p2.quality = p.quality
         /\ \A d \in Dest :
              /\ p2.route[d].reported = p.route[d].reported
              /\ p2.route[d].quality \in {p.route[d].quality, 0}
              /\ Unlimited(p2.route[d]) => p2.route[d] = p.route[d]
              /\ Secured(p) /\ p.route[d].timeout = 0 /\ p.route[d].lt = 1 =>
                   p2.route[d] = p.route[d]
<1> DEFINE far == {d \in known : p.route[d].lt > MaxLt}
<1> DEFINE time == IF Secured(p) THEN 0 ELSE ObcIni
<1> DEFINE zero(e) == [e EXCEPT !.quality = 0, !.timeout = time]
<1> DEFINE route1 == [d \in Dest |-> IF d \in far THEN zero(p.route[d]) ELSE p.route[d]]
<1> DEFINE p1 == UpdateRoutes(p, far, [d \in far |-> 0])
<1> DEFINE over == {d \in known : p1.route[d].timeout = 1}
<1> DEFINE route2 == [d \in Dest |-> IF d \in over THEN zero(p1.route[d]) ELSE p1.route[d]]
<1> DEFINE pp == UpdateRoutes(p1, over, [d \in over |-> 0])
<1> DEFINE older(e) == IF e.timeout > 0 THEN [e EXCEPT !.timeout = e.timeout - 1]
                       ELSE IF Secured(p) THEN e ELSE [e EXCEPT !.timeout = ObcIni]
<1> DEFINE route == [d \in Dest |-> IF d \in known \ over THEN older(pp.route[d]) ELSE pp.route[d]]
<1>1. ObcIni \in Nat /\ ObcIni # 0 /\ MaxLt \in Nat /\ MaxLt >= 5 BY TimesAssumption
<1>2. \A d \in Dest : IsRec(p.route[d], EntryFields) BY DEF Counted, IsRoute
<1>3. Counted(p1) /\ Counted(pp) BY UpdateRoutesCounted
<1>4. p2 = [pp EXCEPT !.route = route] BY DEF AgeSegment
<1>5. Counted(p2) BY AgeSegmentCounted
<1>6. ~(0 >= HORIZONT) BY DEF HORIZONT
<1>7. /\ p1.used = p.used /\ p1.typ = p.typ /\ p1.nbrl2l = p.nbrl2l /\ p1.my = p.my
      /\ p1.quality = p.quality /\ p1.route = route1
  <2> HIDE DEF far
  <2> QED BY DEF UpdateRoutes, Counted, IsRec, SegmentFields
<1>8. Secured(p1) <=> Secured(p) BY <1>7 DEF Secured
<1> HIDE DEF p1
<1>9. /\ pp.used = p.used /\ pp.typ = p.typ /\ pp.nbrl2l = p.nbrl2l /\ pp.my = p.my
      /\ pp.quality = p.quality /\ pp.route = route2
  <2> HIDE DEF over, far, route1
  <2> QED BY <1>3, <1>7, <1>8 DEF UpdateRoutes, Counted, IsRec, SegmentFields
<1> HIDE DEF pp
<1>10. /\ p2.used = p.used /\ p2.typ = p.typ /\ p2.nbrl2l = p.nbrl2l /\ p2.my = p.my
       /\ p2.quality = p.quality /\ p2.route = route
  <2> HIDE DEF route, route2
  <2> QED BY <1>3, <1>4, <1>9 DEF Counted, IsRec, SegmentFields
<1>11. ASSUME NEW d \in Dest
       PROVE  /\ p2.route[d].reported = p.route[d].reported
              /\ p2.route[d].quality \in {p.route[d].quality, 0}
              /\ p2.route[d].timeout \in Nat
              /\ Unlimited(p2.route[d]) => p2.route[d] = p.route[d]
              /\ Secured(p) /\ p.route[d].timeout = 0 /\ p.route[d].lt = 1 =>
                   p2.route[d] = p.route[d]
  <2> DEFINE e == p.route[d]
  <2> DEFINE e1 == p1.route[d]
  <2> DEFINE e2 == pp.route[d]
  <2>1. e1 = IF d \in far THEN zero(e) ELSE e BY <1>7
  <2>2. e2 = IF d \in over THEN zero(e1) ELSE e1 BY <1>9
  <2>3. p2.route[d] = IF d \in known \ over THEN older(e2) ELSE e2 BY <1>10
  <2>4. IsRec(e, EntryFields) BY <1>2
  <2>5. e.timeout \in Nat BY DEF Numbers
  <2>6. e.lt = 1 => d \notin far BY <1>1
  <2>7. d \in over <=> d \in known /\ e1.timeout = 1 OBVIOUS
  <2> HIDE DEF far, over, e, e1, e2
  <2>8. /\ IsRec(e1, EntryFields) /\ e1.reported = e.reported
        /\ e1.quality \in {e.quality, 0} /\ e1.timeout \in {e.timeout, time}
        /\ d \in far => e1.quality = 0
    BY <2>1, <2>4 DEF IsRec, EntryFields
  <2>9. /\ IsRec(e2, EntryFields) /\ e2.reported = e.reported
        /\ e2.quality \in {e.quality, 0} /\ e2.timeout \in {e.timeout, time}
        /\ d \in far \/ d \in over => e2.quality = 0
    BY <2>2, <2>8 DEF IsRec, EntryFields
  <2>10. time \in Nat BY <1>1
  <2>11. e2.timeout \in Nat BY <2>5, <2>9, <2>10
  <2>12. /\ p2.route[d].reported = e.reported
         /\ p2.route[d].quality = e2.quality
         /\ p2.route[d].timeout \in Nat
    BY <1>1, <2>3, <2>9, <2>11 DEF IsRec, EntryFields
  <2>13. ASSUME Unlimited(p2.route[d]) PROVE p2.route[d] = e
    <3>1. p2.route[d].quality # 0 /\ p2.route[d].timeout = 0 BY <2>13 DEF Unlimited
    <3>2. d \notin far /\ d \notin over BY <2>9, <2>12, <3>1
    <3>3. e2 = e /\ e1 = e BY <2>1, <2>2, <3>2
    <3>4. CASE d \notin known BY <2>3, <3>3, <3>4
    <3>5. CASE d \in known
      <4>1. p2.route[d] = older(e) /\ e.timeout # 1 BY <2>3, <2>7, <3>2, <3>3, <3>5
      <4>2. CASE e.timeout > 0
        <5>1. p2.route[d] = [e EXCEPT !.timeout = e.timeout - 1] BY <4>1, <4>2
        <5>2. p2.route[d].timeout = e.timeout - 1 BY <2>4, <5>1 DEF IsRec, EntryFields
        <5> QED BY <2>5, <3>1, <4>1, <4>2, <5>2
      <4>3. CASE ~(e.timeout > 0)
        <5>1. p2.route[d] = IF Secured(p) THEN e ELSE [e EXCEPT !.timeout = ObcIni]
          BY <4>1, <4>3
        <5>2. [e EXCEPT !.timeout = ObcIni].timeout = ObcIni BY <2>4 DEF IsRec, EntryFields
        <5> QED BY <1>1, <3>1, <5>1, <5>2
      <4> QED BY <4>2, <4>3
    <3> QED BY <3>4, <3>5
  <2>14. ASSUME Secured(p), e.timeout = 0, e.lt = 1 PROVE p2.route[d] = e
    <3>1. e1 = e BY <2>1, <2>6, <2>14
    <3>2. d \notin over BY <2>7, <2>14, <3>1
    <3>3. e2 = e BY <2>2, <3>1, <3>2
    <3>4. older(e) = e BY <2>14
    <3> QED BY <2>3, <3>3, <3>4
  <2> QED BY <2>9, <2>12, <2>13, <2>14 DEF e
<1>12. Numbers(p2)
  <2>1. 0 \in Quality BY QualityNat
  <2> QED BY <1>10, <1>11, <2>1 DEF Numbers
<1> QED BY <1>5, <1>10, <1>11, <1>12

(* The same for all segments of a node.                                    *)
AgeRouter(r) ==
  [r EXCEPT !.seg = [s \in Dest |->
     IF r.seg[s].used THEN AgeSegment(r.seg[s], r.known) ELSE r.seg[s]]]

Older(r, r2) ==
  \A s \in Dest :
    /\ r2.seg[s].nbrl2l = r.seg[s].nbrl2l /\ r2.seg[s].typ = r.seg[s].typ
    /\ r2.seg[s].my = r.seg[s].my
    /\ \A d \in Dest :
         /\ r2.seg[s].route[d].reported = r.seg[s].route[d].reported
         /\ r2.seg[s].route[d].quality \in {r.seg[s].route[d].quality, 0}
         /\ Unlimited(r2.seg[s].route[d]) => r2.seg[s].route[d] = r.seg[s].route[d]

(* A segment one minute later.                                             *)
AgedAs(p, p2) ==
  /\ p2.used = p.used /\ p2.typ = p.typ /\ p2.nbrl2l = p.nbrl2l
  /\ p2.my = p.my /\ p2.quality = p.quality
  /\ \A d \in Dest :
       /\ p2.route[d].reported = p.route[d].reported
       /\ p2.route[d].quality \in {p.route[d].quality, 0}
       /\ Unlimited(p2.route[d]) => p2.route[d] = p.route[d]
       /\ Secured(p) /\ p.route[d].timeout = 0 /\ p.route[d].lt = 1 =>
            p2.route[d] = p.route[d]

LEMMA MinuteSound ==
  ASSUME NEW n \in Router, NEW r, IsRouter(r), Sound(n, r), NEW r2, r2 = AgeRouter(r)
  PROVE  Sound(n, r2) /\ Older(r, r2)
<1>1. r2.id = r.id /\ r2.known = r.known /\ r.known \in SUBSET Dest
  BY DEF AgeRouter, IsRouter, IsRec, RouterFields
<1>2. \A s \in Dest :
        r2.seg[s] = IF r.seg[s].used THEN AgeSegment(r.seg[s], r.known) ELSE r.seg[s]
  BY DEF AgeRouter, IsRouter, IsRec, RouterFields
<1>3. ASSUME NEW s \in Dest
      PROVE  Numbers(r2.seg[s]) /\ AgedAs(r.seg[s], r2.seg[s])
  <2> DEFINE p == r.seg[s]
  <2>1. Counted(p) /\ Numbers(p) BY DEF IsRouter, Sound
  <2>2. CASE r2.seg[s] = p BY <2>1, <2>2 DEF AgedAs
  <2>3. CASE r2.seg[s] = AgeSegment(p, r.known)
    <3> HIDE DEF p
    <3> QED BY <1>1, <2>1, <2>3, Aged DEF p, AgedAs
  <2> QED BY <1>2, <2>2, <2>3
<1> HIDE DEF IsRouter
<1>4. ASSUME NEW x \in Local, r2.seg[x].used PROVE LocalRoute(r2, x)
  <2>1. x \in Dest /\ Router \subseteq Dest BY DEF Dest
  <2>2. AgedAs(r.seg[x], r2.seg[x]) BY <1>3, <2>1
  <2>3. r2.seg[x].used = r.seg[x].used BY <2>2 DEF AgedAs
  <2>4. LocalRoute(r, x) BY <1>4, <2>3 DEF Sound
  <2>5. Secured(r.seg[x]) BY <2>4 DEF LocalRoute, Secured
  <2>6. r.seg[x].route[x].timeout = 0 /\ r.seg[x].route[x].lt = 1
    BY <2>4 DEF LocalRoute
  <2>7. r2.seg[x].route[x] = r.seg[x].route[x] BY <2>1, <2>2, <2>5, <2>6 DEF AgedAs
  <2>8. \A d \in Dest \ {x} : r2.seg[x].route[d].quality = 0
    <3>1. \A d \in Dest \ {x} : r.seg[x].route[d].quality = 0 BY <2>4 DEF LocalRoute
    <3> QED BY <2>2, <3>1 DEF AgedAs
  <2>9. ASSUME NEW k \in Router PROVE r2.seg[k].route[x].quality = 0
    <3>1. r.seg[k].route[x].quality = 0 BY <2>4 DEF LocalRoute
    <3>2. AgedAs(r.seg[k], r2.seg[k]) BY <1>3, <2>1
    <3> QED BY <2>1, <3>1, <3>2 DEF AgedAs
  <2>10. r2.seg[x].typ = r.seg[x].typ /\ r2.seg[x].quality = r.seg[x].quality
    BY <2>2 DEF AgedAs
  <2> QED BY <1>1, <2>4, <2>7, <2>8, <2>9, <2>10 DEF LocalRoute
<1>5. ASSUME NEW s \in Router
      PROVE  /\ r2.seg[s].used <=> s \in Neighbour(n)
             /\ r2.seg[s].typ # "LOCAL"
             /\ r2.seg[s].route[n].quality = 0
  <2>1. s \in Dest /\ n \in Dest BY DEF Dest
  <2>2. AgedAs(r.seg[s], r2.seg[s]) BY <1>3, <2>1
  <2>3. /\ r.seg[s].used <=> s \in Neighbour(n)
        /\ r.seg[s].typ # "LOCAL"
        /\ r.seg[s].route[n].quality = 0
    BY DEF Sound
  <2> QED BY <2>1, <2>2, <2>3 DEF AgedAs
<1>6. ASSUME NEW s \in Dest, r2.seg[s].used, NEW d \in Dest \ r2.known
      PROVE  r2.seg[s].route[d].quality = 0 /\ r2.seg[s].route[d].reported = 0
  <2>1. AgedAs(r.seg[s], r2.seg[s]) BY <1>3
  <2>2. r.seg[s].used BY <1>6, <2>1 DEF AgedAs
  <2>3. r.seg[s].route[d].quality = 0 /\ r.seg[s].route[d].reported = 0
    BY <1>1, <2>2 DEF Sound
  <2> QED BY <2>1, <2>3 DEF AgedAs
<1>7. \A s \in Dest : Numbers(r2.seg[s]) BY <1>3
<1>8. Sound(n, r2) BY <1>1, <1>4, <1>5, <1>6, <1>7 DEF Sound
<1>9. Older(r, r2) BY <1>3 DEF AgedAs, Older
<1> QED BY <1>8, <1>9

(* A segment that is not used.                                             *)
LEMMA EmptyNumbers == Numbers(EmptySegment)
<1>1. /\ EmptySegment.my = 0 /\ EmptySegment.quality = 0
      /\ EmptySegment.route = NoRoutes
  BY DEF EmptySegment
<1>2. \A d \in Dest : NoRoutes[d].quality = 0 /\ NoRoutes[d].timeout = 0
  BY DEF NoRoutes, NoRoute
<1>3. 0 \in Quality BY QualityNat
<1> QED BY <1>1, <1>2, <1>3 DEF Numbers

LEMMA EmptySound ==
  ASSUME NEW n \in Router
  PROVE  /\ IsRouter(EmptyRouter(n)) /\ Sound(n, EmptyRouter(n))
         /\ \A s \in Dest : /\ EmptyRouter(n).seg[s].nbrl2l = "none"
                            /\ \A d \in Dest : EmptyRouter(n).seg[s].route[d].quality = 0
<1> DEFINE r == EmptyRouter(n)
<1>1. IsRouter(r)
  <2>1. \A s \in Dest : Counted([EmptySegment EXCEPT !.used = s \in Neighbour(n)])
    BY EmptyCounted, SetField DEF SegmentFields
  <2> QED BY <2>1 DEF EmptyRouter, IsRouter, IsRec, RouterFields
<1>2. r.id = n /\ r.known = {} BY DEF EmptyRouter
<1>3. \A s \in Dest :
        /\ r.seg[s].used <=> s \in Neighbour(n)
        /\ r.seg[s].typ = "NETROM" /\ r.seg[s].nbrl2l = "none"
        /\ r.seg[s].my = 0 /\ r.seg[s].quality = 0 /\ r.seg[s].route = NoRoutes
  BY DEF EmptyRouter, EmptySegment
<1>4. \A d \in Dest : /\ NoRoutes[d].quality = 0 /\ NoRoutes[d].reported = 0
                      /\ NoRoutes[d].timeout = 0
  BY DEF NoRoutes, NoRoute
<1> HIDE DEF r
<1>5. 0 \in Quality BY QualityNat
<1>6. \A s \in Dest : Numbers(r.seg[s]) BY <1>3, <1>4, <1>5 DEF Numbers
<1>7. \A s \in Local : ~r.seg[s].used
  BY <1>3, NamesAssumption DEF Dest, Neighbour
<1>8. \A s \in Router : s \in Dest /\ n \in Dest BY DEF Dest
<1>9. Sound(n, r) BY <1>2, <1>3, <1>4, <1>6, <1>7, <1>8 DEF Sound
<1> QED BY <1>1, <1>3, <1>4, <1>9 DEF r

(* The operator registers a station that no other node leads to, or        *)
(* removes it.                                                             *)
(* No neighbour has a route to d.                                          *)
NoOtherWay(r, d) == \A s \in Router : r.seg[s].route[d].quality = 0

LEMMA RegisteredSound ==
  ASSUME NEW n \in Router, NEW r, IsRouter(r), Sound(n, r), NEW x \in Local,
         NoOtherWay(r, x), NEW r2, r2 = RegisterLocal(r, x)
  PROVE  Sound(n, r2) /\ \A s \in Router : r2.seg[s] = r.seg[s]
<1> DEFINE p == [EmptySegment EXCEPT !.used = TRUE, !.typ = "LOCAL"]
<1> DEFINE r1 == [r EXCEPT !.seg[x] = p]
<1> DEFINE q == [d \in {x} |-> LocalRtt]
<1> DEFINE lt == [d \in {x} |-> 1]
<1> DEFINE r3 == AddRoutes(r1, x, q, lt)
<1>1. x \in Dest /\ x \notin Router /\ Router \subseteq Dest BY NamesAssumption DEF Dest
<1>2. r2 = [r3 EXCEPT !.seg[x].quality = 1] BY DEF RegisterLocal, AddRoute
<1>3. /\ p.used /\ p.typ = "LOCAL" /\ p.my = 0 /\ p.route = NoRoutes
      /\ Counted(p)
  <2>1. Counted([EmptySegment EXCEPT !.used = TRUE])
    BY EmptyCounted, SetField DEF SegmentFields
  <2>2. Counted([[EmptySegment EXCEPT !.used = TRUE] EXCEPT !.typ = "LOCAL"])
    BY <2>1, SetField DEF SegmentFields
  <2> QED BY <2>2 DEF EmptySegment
<1> HIDE DEF p
<1>4. IsRouter(r1) BY <1>1, <1>3, SetSegment
<1>5. Changed(r, r1, x) /\ r1.known = r.known /\ r1.seg[x] = p
  BY <1>1 DEF IsRouter, IsRec, RouterFields, Changed
<1>6. DOMAIN q = {x} /\ q[x] = LocalRtt /\ lt[x] = 1 OBVIOUS
<1> HIDE DEF r1, q, lt
<1>7. {d \in DOMAIN q : d \in r1.known \/ q[d] # 0} = {x} BY <1>6 DEF LocalRtt
<1>8. LET p3 == r3.seg[x]
      IN  /\ IsRouter(r3) /\ Changed(r1, r3, x) /\ r3.known = r1.known \cup {x}
          /\ p3.used = p.used /\ p3.typ = p.typ /\ p3.my = p.my
          /\ \A d \in Dest :
               /\ p3.route[d].reported = p.route[d].reported
               /\ d # x => p3.route[d] = p.route[d]
               /\ d = x => /\ p3.route[d].quality = IF q[d] >= HORIZONT THEN 0 ELSE q[d]
                           /\ p3.route[d].timeout = IF Secured(p) THEN 0 ELSE ObcIni
                           /\ p3.route[d].lt = lt[d]
  <2>1. DOMAIN q \subseteq Dest BY <1>1, <1>6
  <2>2. RoutesAdded(r1, x, q, lt, r3) BY <1>1, <1>4, <2>1, AddRoutesFields DEF r3
  <2> QED BY <1>5, <1>7, <2>2 DEF RoutesAdded
<1> HIDE DEF r3
<1>9. Counted(r3.seg[x]) BY <1>1, <1>8 DEF IsRouter
<1>10. /\ r2.id = r3.id /\ r2.known = r3.known
       /\ \A s \in Dest \ {x} : r2.seg[s] = r3.seg[s]
       /\ r2.seg[x].used = r3.seg[x].used /\ r2.seg[x].typ = r3.seg[x].typ
       /\ r2.seg[x].my = r3.seg[x].my /\ r2.seg[x].quality = 1
       /\ r2.seg[x].route = r3.seg[x].route
  <2>1. /\ r2.id = r3.id /\ r2.known = r3.known
        /\ \A s \in Dest \ {x} : r2.seg[s] = r3.seg[s]
        /\ r2.seg[x] = [r3.seg[x] EXCEPT !.quality = 1]
    BY <1>1, <1>2, <1>8 DEF IsRouter, IsRec, RouterFields
  <2> QED BY <1>9, <2>1 DEF Counted, IsRec, SegmentFields
<1>11. Secured(p) BY <1>3 DEF Secured
<1>12. \A d \in Dest : p.route[d].quality = 0 /\ p.route[d].timeout = 0 /\ p.route[d].reported = 0
  BY <1>3 DEF NoRoutes, NoRoute
<1>13. /\ r2.seg[x].used /\ r2.seg[x].typ = "LOCAL" /\ r2.seg[x].my = 0
       /\ r2.seg[x].quality = 1 /\ r2.known = r.known \cup {x}
       /\ r2.seg[x].route[x].quality = LocalRtt /\ r2.seg[x].route[x].timeout = 0
       /\ r2.seg[x].route[x].lt = 1 /\ r2.seg[x].route[x].reported = 0
       /\ \A d \in Dest : d # x =>
            /\ r2.seg[x].route[d].quality = 0 /\ r2.seg[x].route[d].timeout = 0
            /\ r2.seg[x].route[d].reported = 0
  <2>1. ~(LocalRtt >= HORIZONT) BY DEF LocalRtt, HORIZONT
  <2> QED BY <1>1, <1>3, <1>5, <1>6, <1>8, <1>10, <1>11, <1>12, <2>1
<1>14. \A s \in Dest : s # x => r2.seg[s] = r.seg[s] BY <1>5, <1>8, <1>10 DEF Changed
<1>15. Numbers(r2.seg[x])
  <2>1. 0 \in Quality /\ LocalRtt \in Quality
    <3>1. LocalRtt \in Nat /\ LocalRtt < HORIZONT BY DEF LocalRtt, HORIZONT
    <3> QED BY <3>1, QualityNat
  <2> QED BY <1>13, <2>1 DEF Numbers
<1>16. \A s \in Dest : Numbers(r2.seg[s]) BY <1>14, <1>15 DEF Sound
<1>17. r2.id = n BY <1>5, <1>8, <1>10 DEF Changed, Sound
<1>18. \A s \in Router : r2.seg[s] = r.seg[s] BY <1>1, <1>14
<1>19. LocalRoute(r2, x)
  <2>1. \A k \in Router : r2.seg[k].route[x].quality = 0 BY <1>18 DEF NoOtherWay
  <2> QED BY <1>1, <1>13, <2>1 DEF LocalRoute, LocalRtt
<1>20. \A s \in Local : s # x /\ r2.seg[s].used => LocalRoute(r2, s)
  <2> SUFFICES ASSUME NEW s \in Local, s # x, r2.seg[s].used PROVE LocalRoute(r2, s)
    OBVIOUS
  <2>1. r2.seg[s] = r.seg[s] BY <1>14 DEF Dest
  <2>2. LocalRoute(r, s) BY <2>1 DEF Sound
  <2> QED BY <1>13, <1>18, <2>1, <2>2 DEF LocalRoute
<1>21. \A s \in Dest : r2.seg[s].used => \A d \in Dest \ r2.known :
         r2.seg[s].route[d].quality = 0 /\ r2.seg[s].route[d].reported = 0
  BY <1>13, <1>14 DEF Sound
<1>22. Sound(n, r2) BY <1>16, <1>17, <1>18, <1>19, <1>20, <1>21 DEF Sound
<1> QED BY <1>18, <1>22

LEMMA UnregisteredSound ==
  ASSUME NEW n \in Router, NEW r, IsRouter(r), Sound(n, r), NEW x \in Local,
         r.seg[x].used, NEW r2, r2 = UnregisterLocal(r, x)
  PROVE  Sound(n, r2) /\ \A s \in Router : r2.seg[s] = r.seg[s]
<1> DEFINE r1 == ClearRoutes(r, x)
<1>1. x \in Dest /\ x \notin Router /\ Router \subseteq Dest BY NamesAssumption DEF Dest
<1>2. Counted(r.seg[x]) BY <1>1 DEF IsRouter
<1>3. Changed(r, r1, x) /\ r1.known = r.known
  BY <1>1 DEF ClearRoutes, IsRouter, IsRec, RouterFields, Changed
<1>4. r1.seg[x].used = r.seg[x].used /\ r1.seg[x].route = NoRoutes
  BY <1>1, <1>2 DEF ClearRoutes, IsRouter, Counted, IsRec, RouterFields, SegmentFields
<1>5. r2 = [DropUnreachable(r1) EXCEPT !.seg[x] = EmptySegment]
  BY DEF UnregisterLocal, ClearPeer
<1>6. r1.seg = [s \in Dest |-> r1.seg[s]] /\ IsRec(r1, RouterFields)
  BY <1>1 DEF ClearRoutes, IsRouter, IsRec, RouterFields
<1> HIDE DEF r1
<1>7. /\ r2.id = r.id /\ r2.known = r.known \ Unreachable(r1)
      /\ r2.seg[x] = EmptySegment
      /\ \A s \in Dest : s # x => r2.seg[s] = r.seg[s]
  BY <1>1, <1>3, <1>5, <1>6 DEF DropUnreachable, IsRec, RouterFields, Changed
<1>8. ASSUME NEW s \in Dest, r2.seg[s].used, NEW d \in Dest \ r2.known
      PROVE  r2.seg[s].route[d].quality = 0 /\ r2.seg[s].route[d].reported = 0
  <2>1. s # x BY <1>7, <1>8 DEF EmptySegment
  <2>2. r2.seg[s] = r.seg[s] /\ r1.seg[s] = r.seg[s] BY <1>3, <1>7, <2>1 DEF Changed
  <2>3. CASE d \notin r.known BY <1>8, <2>2, <2>3 DEF Sound
  <2>4. CASE d \in Unreachable(r1)
    BY <1>8, <2>2, <2>4 DEF Unreachable, Segments
  <2> QED BY <1>7, <2>3, <2>4
<1>9. \A s \in Router : r2.seg[s] = r.seg[s] BY <1>1, <1>7
<1>10. \A s \in Dest : Numbers(r2.seg[s]) BY <1>7, EmptyNumbers DEF Sound
<1>11. ASSUME NEW s \in Local, r2.seg[s].used PROVE LocalRoute(r2, s)
  <2>1. s # x /\ s \in Dest BY <1>7, <1>11 DEF EmptySegment, Dest
  <2>2. r2.seg[s] = r.seg[s] BY <1>7, <2>1
  <2>3. LocalRoute(r, s) BY <1>11, <2>2 DEF Sound
  <2>4. s \in r2.known BY <1>8, <1>11, <2>1, <2>2, <2>3 DEF LocalRoute
  <2> QED BY <1>9, <2>2, <2>3, <2>4 DEF LocalRoute
<1>12. Sound(n, r2) BY <1>7, <1>8, <1>9, <1>10, <1>11 DEF Sound
<1> QED BY <1>9, <1>12

-----------------------------------------------------------------------------
(* The network: all tables and all links.                                  *)

AllLinks(R, ch) == \A n, m \in Router :
  LinkInv(n, m, R[n].seg[m], R[m].seg[n], ch[n][m], ch[m][n])

Web(R, ch) ==
  /\ R = [n \in Router |-> R[n]]
  /\ \A n \in Router : Sound(n, R[n])
  /\ AllLinks(R, ch)

(* The frames from n to m and back, and nothing else.                      *)
Between(n, m, ch, ch2) ==
  \A a, b \in Router : ~({a, b} = {n, m}) => ch2[a][b] = ch[a][b]

LEMMA OnePair ==
  ASSUME NEW R, NEW ch, Web(R, ch), NEW n \in Router, NEW m \in Router, n # m,
         NEW r, Sound(n, r), Changed(R[n], r, m), NEW ch2, Between(n, m, ch, ch2),
         LinkInv(n, m, r.seg[m], R[m].seg[n], ch2[n][m], ch2[m][n]),
         LinkInv(m, n, R[m].seg[n], r.seg[m], ch2[m][n], ch2[n][m]),
         NEW R2, R2 = [R EXCEPT ![n] = r]
  PROVE  Web(R2, ch2)
<1>1. R2 = [k \in Router |-> R2[k]] /\ R2[n] = r /\ \A k \in Router : k # n => R2[k] = R[k]
  BY DEF Web
<1>2. \A k \in Router : Sound(k, R2[k]) BY <1>1 DEF Web
<1>3. ASSUME NEW a \in Router, NEW b \in Router
      PROVE  LinkInv(a, b, R2[a].seg[b], R2[b].seg[a], ch2[a][b], ch2[b][a])
  <2>1. CASE a = n /\ b = m BY <1>1, <2>1
  <2>2. CASE a = m /\ b = n BY <1>1, <2>2
  <2>3. CASE ~({a, b} = {n, m})
    <3>1. ch2[a][b] = ch[a][b] /\ ch2[b][a] = ch[b][a] BY <2>3 DEF Between
    <3>2. LinkInv(a, b, R[a].seg[b], R[b].seg[a], ch[a][b], ch[b][a])
      BY DEF Web, AllLinks
    <3>3. \A x \in Router : x # m => r.seg[x] = R[n].seg[x] BY DEF Changed, Dest
    <3>4. R2[a].seg[b] = R[a].seg[b] BY <1>1, <2>3, <3>3
    <3>5. R2[b].seg[a] = R[b].seg[a] BY <1>1, <2>3, <3>3
    <3> QED BY <3>1, <3>2, <3>4, <3>5
  <2> QED BY <2>1, <2>2, <2>3
<1> QED BY <1>1, <1>2, <1>3 DEF Web, AllLinks

(* Nothing that a neighbour should know.                                   *)
Unnoticed(m, p, p2) ==
  SameEnd(p, p2) /\ SameReports(p, p2) /\ NoWay(p2) /\ Softer(m, p, p2)

LEMMA StillKeeps ==
  ASSUME NEW R, NEW ch, Web(R, ch), NEW n \in Router, NEW r, Sound(n, r),
         \A m \in Router : Unnoticed(m, R[n].seg[m], r.seg[m]),
         NEW R2, R2 = [R EXCEPT ![n] = r]
  PROVE  Web(R2, ch)
<1>1. R2 = [k \in Router |-> R2[k]] /\ R2[n] = r /\ \A k \in Router : k # n => R2[k] = R[k]
  BY DEF Web
<1>2. \A k \in Router : Sound(k, R2[k]) BY <1>1 DEF Web
<1>3. ASSUME NEW a \in Router, NEW b \in Router PROVE Unnoticed(b, R[a].seg[b], R2[a].seg[b])
  <2>1. CASE a = n BY <1>1, <2>1
  <2>2. CASE a # n
    <3>1. R2[a].seg[b] = R[a].seg[b] BY <1>1, <2>2
    <3>2. LinkInv(a, b, R[a].seg[b], R[b].seg[a], ch[a][b], ch[b][a])
      BY DEF Web, AllLinks
    <3>3. NoWay(R[a].seg[b]) BY <3>2 DEF LinkInv, EndOf, NoWay
    <3> QED BY <3>1, <3>3 DEF Unnoticed, SameEnd, SameReports, Softer
  <2> QED BY <2>1, <2>2
<1>4. ASSUME NEW a \in Router, NEW b \in Router
      PROVE  LinkInv(a, b, R2[a].seg[b], R2[b].seg[a], ch[a][b], ch[b][a])
  <2>1. LinkInv(a, b, R[a].seg[b], R[b].seg[a], ch[a][b], ch[b][a])
    BY DEF Web, AllLinks
  <2>2. Unnoticed(b, R[a].seg[b], R2[a].seg[b]) /\ Unnoticed(a, R[b].seg[a], R2[b].seg[a])
    BY <1>3
  <2>3. /\ SameEnd(R[a].seg[b], R2[a].seg[b]) /\ SameReports(R[a].seg[b], R2[a].seg[b])
        /\ NoWay(R2[a].seg[b]) /\ Softer(a, R[b].seg[a], R2[b].seg[a])
        /\ R2[b].seg[a].nbrl2l = R[b].seg[a].nbrl2l /\ R2[b].seg[a].typ = R[b].seg[a].typ
    BY <2>2 DEF Unnoticed, SameEnd
  <2> QED BY <2>1, <2>3, LinkStill
<1> QED BY <1>1, <1>2, <1>4 DEF Web, AllLinks

(* No node has itself as neighbour.                                        *)
LEMMA OtherEnd ==
  ASSUME NEW R, NEW ch, Web(R, ch), NEW n \in Router, NEW m \in Router
  PROVE  /\ LinkInv(n, m, R[n].seg[m], R[m].seg[n], ch[n][m], ch[m][n])
         /\ LinkInv(m, n, R[m].seg[n], R[n].seg[m], ch[m][n], ch[n][m])
         /\ NoWay(R[n].seg[m]) /\ NoWay(R[m].seg[n])
         /\ R[n].seg[m].nbrl2l \in {"none", "setup", "up"}
         /\ R[n].seg[m].nbrl2l # "none" => m \in Neighbour(n)
         /\ R[n].seg[m].nbrl2l = "none" => ch[n][m] = <<>>
         /\ m \in Neighbour(n) => n # m /\ n \in Neighbour(m)
<1>1. /\ LinkInv(n, m, R[n].seg[m], R[m].seg[n], ch[n][m], ch[m][n])
      /\ LinkInv(m, n, R[m].seg[n], R[n].seg[m], ch[m][n], ch[n][m])
  BY DEF Web, AllLinks
<1>2. m \in Neighbour(n) => n # m /\ n \in Neighbour(m)
  <2>1. \A l \in Line : l[1] # l[2] BY LineAssumption
  <2>2. <<n, m>> \in Line \/ <<m, n>> \in Line => n # m
    <3>1. <<n, m>>[1] = n /\ <<n, m>>[2] = m /\ <<m, n>>[1] = m /\ <<m, n>>[2] = n
      OBVIOUS
    <3> QED BY <2>1, <3>1
  <2> QED BY <2>2 DEF Neighbour
<1> QED BY <1>1, <1>2 DEF LinkInv, EndOf, NoWay

(* n sends something that is no report of other nodes.                     *)
LEMMA SendKeeps ==
  ASSUME NEW R, NEW ch, Web(R, ch), Channels(ch),
         \A a, b \in Router : R[a].seg[b].nbrl2l = LinkState(a, b),
         NEW n \in Router, NEW m, NEW f,
         f.kind # "ua", f.kind = "rtt" => f.org \in {n, m},
         f.kind = "rif" => \A d \in DOMAIN f.rep : d = n /\ f.rep[d].q \in Nat
  PROVE  Web(R, Send(ch, n, m, f))
<1> DEFINE ch2 == [ch EXCEPT ![n][m] = Append(ch[n][m], f)]
<1>1. CASE Send(ch, n, m, f) = ch BY <1>1
<1>2. CASE m \notin Router
  <2>1. ch2 = ch BY <1>2 DEF Channels
  <2> QED BY <2>1 DEF Send
<1>3. CASE m \in Router /\ Send(ch, n, m, f) # ch
  <2> DEFINE p == R[n].seg[m]
  <2> DEFINE q == R[m].seg[n]
  <2> DEFINE c == ch[n][m]
  <2> DEFINE b == ch[m][n]
  <2> DEFINE c2 == Append(c, f)
  <2>1. m \in Router BY <1>3
  <2>2. Send(ch, n, m, f) = ch2 /\ p.nbrl2l # "none" BY <1>3 DEF Send
  <2>3. Longer(c, f, c2)
    <3>1. FineSeq(c) BY <2>1 DEF Channels
    <3> QED BY <3>1, AppendIsLonger
  <2>4. /\ LinkInv(n, m, p, q, c, b) /\ LinkInv(m, n, q, p, b, c)
        /\ n # m
    BY <2>1, <2>2, OtherEnd
  <2>5. ch2[n][m] = c2 /\ ch2[m][n] = b /\ Between(n, m, ch, ch2)
    BY <2>1, <2>4 DEF Channels, Between
  <2> HIDE DEF ch2
  <2>6. /\ Sound(n, R[n]) /\ Changed(R[n], R[n], m) /\ R = [R EXCEPT ![n] = R[n]]
    BY DEF Web, Changed
  <2> HIDE DEF p, q, c, b, c2
  <2>7. LinkInv(n, m, p, q, c2, b) BY <2>2, <2>3, <2>4, LinkSends
  <2>8. LinkInv(m, n, q, p, b, c2) BY <2>3, <2>4, LinkSendsBack
  <2>9. /\ LinkInv(n, m, R[n].seg[m], R[m].seg[n], ch2[n][m], ch2[m][n])
        /\ LinkInv(m, n, R[m].seg[n], R[n].seg[m], ch2[m][n], ch2[n][m])
    BY <2>5, <2>7, <2>8 DEF p, q
  <2>10. Web(R, ch2)
    <3> HIDE DEF Web, Changed
    <3> QED BY <2>1, <2>4, <2>5, <2>6, <2>9, OnePair
  <2> QED BY <2>2, <2>10
<1> QED BY <1>1, <1>2, <1>3

-----------------------------------------------------------------------------
(* The actions.                                                            *)

Linked == Kept /\ Web(router, chan)

LEMMA LinkedRouter ==
  ASSUME Linked, NEW n \in Router
  PROVE  IsRouter(router[n]) /\ Sound(n, router[n])
BY KeptRouter DEF Linked, Web

(* A node that has set the state of a link.                                *)
SetEnd(n, m, v) == [router[n] EXCEPT !.seg[m].nbrl2l = v]

LEMMA EndSet ==
  ASSUME Linked, NEW n \in Router, NEW m \in Router, NEW v
  PROVE  /\ IsRouter(SetEnd(n, m, v)) /\ Sound(n, SetEnd(n, m, v))
         /\ Changed(router[n], SetEnd(n, m, v), m)
         /\ SetEnd(n, m, v).seg[m].nbrl2l = v
         /\ SetEnd(n, m, v).seg[m].route = router[n].seg[m].route
<1>1. SetEnd(n, m, v) = WithField(router[n], m, "nbrl2l", v)
  BY DEF SetEnd, WithField
<1>2. IsRouter(router[n]) /\ Sound(n, router[n]) BY LinkedRouter
<1>3. "nbrl2l" \in {"nbrl2l", "rttstart"} OBVIOUS
<1> QED BY <1>1, <1>2, <1>3, LinkSet

LEMMA ConnectLinks ==
  ASSUME Linked, NEW n \in Router, NEW m \in Router, Connect(n, m)
  PROVE  Web(router', chan')
<1> DEFINE r == SetEnd(n, m, "setup")
<1>1. /\ <<n, m>> \in Line /\ router[n].seg[m].nbrl2l = "none"
      /\ router' = [router EXCEPT ![n] = r] /\ chan' = chan
  BY DEF Connect, LinkState, SetEnd
<1>2. /\ Sound(n, r) /\ Changed(router[n], r, m)
      /\ r.seg[m].nbrl2l = "setup" /\ r.seg[m].route = router[n].seg[m].route
  BY EndSet
<1> HIDE DEF r
<1>3. Web(router, chan) BY DEF Linked
<1>4. m \in Neighbour(n) BY <1>1 DEF Neighbour
<1>5. n # m /\ n \in Neighbour(m) BY <1>3, <1>4, OtherEnd
<1>6. /\ NoWay(router[n].seg[m])
      /\ LinkInv(n, m, router[n].seg[m], router[m].seg[n], chan[n][m], chan[m][n])
      /\ LinkInv(m, n, router[m].seg[n], router[n].seg[m], chan[m][n], chan[n][m])
  BY <1>3, OtherEnd
<1>7. Limited(m, r.seg[m]) BY <1>1, <1>2, <1>6 DEF NoWay, Limited, Unlimited
<1>8. Between(n, m, chan, chan') BY <1>1 DEF Between
<1>9. /\ LinkInv(n, m, r.seg[m], router[m].seg[n], chan'[n][m], chan'[m][n])
      /\ LinkInv(m, n, router[m].seg[n], r.seg[m], chan'[m][n], chan'[n][m])
  BY <1>1, <1>2, <1>4, <1>6, <1>7, LinkCalls
<1> QED BY <1>1, <1>2, <1>3, <1>5, <1>8, <1>9, OnePair

(* n loses its link to m, and what it had for m.                           *)
LEMMA GoneLinks ==
  ASSUME Linked, NEW n \in Router, NEW m \in Router, LinkState(n, m) # "none",
         NEW r, r = LinkGone([router[n] EXCEPT !.seg[m].nbrl2l = "none"], m)
  PROVE  Web([router EXCEPT ![n] = r], Lost(chan, n, m))
<1> DEFINE r1 == SetEnd(n, m, "none")
<1> DEFINE ch2 == Lost(chan, n, m)
<1> DEFINE b == chan[m][n]
<1>1. Web(router, chan) /\ Channels(chan) BY DEF Linked, Kept
<1>2. m \in Neighbour(n) BY <1>1, OtherEnd DEF LinkState
<1>3. n # m /\ n \in Neighbour(m) BY <1>1, <1>2, OtherEnd
<1>4. /\ IsRouter(r1) /\ Sound(n, r1) /\ Changed(router[n], r1, m)
      /\ r1.seg[m].nbrl2l = "none"
  BY EndSet
<1>5. r = LinkGone(r1, m) BY DEF SetEnd
<1> HIDE DEF r1
<1>6. Fades(n, m, r1, r) /\ \A d \in Dest : r.seg[m].route[d].quality = 0
  <2>1. /\ Renewed(n, m, r1, LinkGone(r1, m))
        /\ \A d \in Dest : LinkGone(r1, m).seg[m].route[d].quality = 0
    BY <1>2, <1>4, LinkRenews
  <2> QED BY <1>5, <2>1 DEF Renewed
<1>7. Sound(n, r) /\ Changed(router[n], r, m) /\ r.seg[m].nbrl2l = "none"
  BY <1>4, <1>6 DEF Fades, Changed
<1>8. NoWay(r.seg[m]) BY <1>6 DEF NoWay
<1>9. /\ LinkInv(n, m, router[n].seg[m], router[m].seg[n], chan[n][m], b)
      /\ LinkInv(m, n, router[m].seg[n], router[n].seg[m], b, chan[n][m])
  BY <1>1, OtherEnd
<1>10. ch2[n][m] = <<>> /\ ch2[m][n] = Unanswered(b) /\ Between(n, m, chan, ch2)
  BY <1>1, <1>3 DEF Lost, Channels, Between
<1>11. IF Renewing(b) THEN Shorter(b, Unanswered(b)) ELSE Unanswered(b) = b
  <2>1. FineSeq(b) BY <1>1 DEF Channels
  <2> HIDE DEF b
  <2>2. b # <<>> => Shorter(b, Tail(b)) BY <2>1, TailIsShorter
  <2> QED BY <2>2 DEF Unanswered, Renewing
<1> HIDE DEF ch2, b
<1>12. /\ LinkInv(n, m, r.seg[m], router[m].seg[n], <<>>, Unanswered(b))
       /\ LinkInv(m, n, router[m].seg[n], r.seg[m], Unanswered(b), <<>>)
  BY <1>7, <1>8, <1>9, <1>11, LinkLost
<1>13. /\ LinkInv(n, m, r.seg[m], router[m].seg[n], ch2[n][m], ch2[m][n])
       /\ LinkInv(m, n, router[m].seg[n], r.seg[m], ch2[m][n], ch2[n][m])
  BY <1>10, <1>12
<1>14. Web([router EXCEPT ![n] = r], ch2) BY <1>1, <1>3, <1>7, <1>10, <1>13, OnePair
<1> QED BY <1>14 DEF ch2

(* n resets its link to m, and forgets what it has reported.               *)
LEMMA ResetLinks ==
  ASSUME Linked, NEW n \in Router, NEW m \in Router, Reset(n, m)
  PROVE  Web(router', chan')
<1> DEFINE r1 == SetEnd(n, m, "setup")
<1> DEFINE r == LinkReset(r1, m)
<1>1. /\ LinkState(n, m) = "up" /\ LinkState(m, n) = "up"
      /\ router' = [router EXCEPT ![n] = r] /\ chan' = chan
  BY DEF Reset, Become, Up, SetEnd
<1>2. Web(router, chan) BY DEF Linked
<1>3. m \in Neighbour(n) BY <1>1, <1>2, OtherEnd DEF LinkState
<1>4. n # m BY <1>2, <1>3, OtherEnd
<1>5. /\ IsRouter(r1) /\ Sound(n, r1) /\ Changed(router[n], r1, m)
      /\ r1.seg[m].nbrl2l = "setup"
  BY EndSet
<1> HIDE DEF r1
<1>6. Renewed(n, m, r1, r) BY <1>3, <1>5, LinkRenews
<1> HIDE DEF r
<1>7. /\ Sound(n, r) /\ Changed(router[n], r, m) /\ r.seg[m].nbrl2l = "setup"
      /\ Limited(m, r.seg[m])
  BY <1>5, <1>6 DEF Renewed, Fades, Changed, Limited
<1>8. /\ LinkInv(n, m, router[n].seg[m], router[m].seg[n], chan[n][m], chan[m][n])
      /\ LinkInv(m, n, router[m].seg[n], router[n].seg[m], chan[m][n], chan[n][m])
  BY <1>2, OtherEnd
<1>9. /\ LinkInv(n, m, r.seg[m], router[m].seg[n], chan[n][m], chan[m][n])
      /\ LinkInv(m, n, router[m].seg[n], r.seg[m], chan[m][n], chan[n][m])
  BY <1>1, <1>3, <1>7, <1>8, LinkCalls DEF LinkState
<1>10. Between(n, m, chan, chan) BY DEF Between
<1>11. Web([router EXCEPT ![n] = r], chan)
  BY <1>2, <1>4, <1>7, <1>9, <1>10, OnePair
<1> QED BY <1>1, <1>11

(* m is called by n and starts anew.  Nothing that waits makes it an INP   *)
(* neighbour before an old report is read.                                 *)
LEMMA Untroubled ==
  ASSUME NEW n, NEW c, Tidy(c, n)
  PROVE  Clean(n, c)
BY DEF Tidy, Clean, RttBy, RifOf

LEMMA AnsweredLinks ==
  ASSUME Linked, NEW n \in Router, NEW m \in Router, Accept(n, m),
         Tidy(chan'[n][m], n), Tidy(chan'[m][n], m)
  PROVE  Web(router', chan')
<1> DEFINE r1 == SetEnd(m, n, "up")
<1> DEFINE r == IF Up(m, n) THEN LinkReset(LinkReset(r1, n), n) ELSE LinkConnected(r1, n)
<1>1. /\ LinkState(n, m) = "setup" /\ ~Renewing(chan[m][n])
      /\ router' = [router EXCEPT ![m] = r]
  BY DEF Accept, Become, SetEnd
<1>2. PICK i \in 1 .. Len(chan[n][m]) + 1, j \in 1 .. Len(chan[m][n]) + 1 :
        chan' = [chan EXCEPT ![n][m] = From(chan[n][m], i),
                             ![m][n] = <<UA>> \o From(chan[m][n], j)]
  BY DEF Accept
<1> DEFINE c2 == From(chan[n][m], i)
<1> DEFINE s == From(chan[m][n], j)
<1> DEFINE b2 == <<UA>> \o s
<1>3. Web(router, chan) /\ Channels(chan) BY DEF Linked, Kept
<1>4. m \in Neighbour(n) BY <1>1, <1>3, OtherEnd DEF LinkState
<1>5. n # m /\ n \in Neighbour(m) BY <1>3, <1>4, OtherEnd
<1>6. /\ IsRouter(r1) /\ Sound(m, r1) /\ Changed(router[m], r1, n)
      /\ r1.seg[n].nbrl2l = "up"
  BY EndSet
<1> HIDE DEF r1
<1>7. Renewed(m, n, r1, r)
  <2>1. /\ Renewed(m, n, r1, LinkConnected(r1, n))
        /\ Renewed(m, n, r1, LinkReset(LinkReset(r1, n), n))
    BY <1>5, <1>6, LinkRenews
  <2> QED BY <2>1
<1> HIDE DEF r
<1>8. /\ Sound(m, r) /\ Changed(router[m], r, n) /\ r.seg[n].nbrl2l = "up"
      /\ r.seg[n].typ # "INP" /\ Limited(n, r.seg[n])
  BY <1>6, <1>7 DEF Renewed, Fades, Changed, Limited
<1>9. /\ LinkInv(n, m, router[n].seg[m], router[m].seg[n], chan[n][m], chan[m][n])
      /\ LinkInv(m, n, router[m].seg[n], router[n].seg[m], chan[m][n], chan[n][m])
  BY <1>3, OtherEnd
<1>10. FineSeq(chan[n][m]) /\ FineSeq(chan[m][n]) BY <1>3 DEF Channels
<1>11. LastPart(chan[n][m], c2) BY <1>10, FromIsLastPart
<1>12. LastPart(chan[m][n], s) /\ Answered(s, b2) BY <1>10, FromIsLastPart
<1> HIDE DEF s, b2, c2
<1>13. chan'[n][m] = c2 /\ chan'[m][n] = b2 /\ Between(m, n, chan, chan')
  <2>1. chan' = [chan EXCEPT ![n][m] = c2, ![m][n] = b2] BY <1>2 DEF c2, b2, s
  <2> QED BY <1>3, <1>5, <2>1 DEF Channels, Between
<1>14. Clean(n, c2) /\ Clean(m, b2) BY <1>13, Untroubled
<1>15. /\ LinkInv(n, m, router[n].seg[m], r.seg[n], c2, b2)
       /\ LinkInv(m, n, r.seg[n], router[n].seg[m], b2, c2)
  BY <1>1, <1>5, <1>8, <1>9, <1>11, <1>12, <1>14, LinkAnswered DEF LinkState
<1>16. /\ LinkInv(n, m, router[n].seg[m], r.seg[n], chan'[n][m], chan'[m][n])
       /\ LinkInv(m, n, r.seg[n], router[n].seg[m], chan'[m][n], chan'[n][m])
  BY <1>13, <1>15
<1> QED BY <1>1, <1>3, <1>5, <1>8, <1>13, <1>16, OnePair

LEMMA LinksKeepWeb ==
  ASSUME Linked, NEW n \in Router, NEW m \in Router,
         Fail(n, m) \/ Busy(n, m) \/ Notice(n, m)
  PROVE  Web(router', chan')
<1> DEFINE gone == LinkGone([router[n] EXCEPT !.seg[m].nbrl2l = "none"], m)
<1>1. /\ LinkState(n, m) # "none"
      /\ router' = [router EXCEPT ![n] = gone] /\ chan' = Lost(chan, n, m)
  BY DEF Fail, Busy, Notice, Become, Up
<1>2. Web([router EXCEPT ![n] = gone], Lost(chan, n, m)) BY <1>1, GoneLinks
<1> QED BY <1>1, <1>2

LEMMA RestartKeepsWeb ==
  ASSUME Linked, NEW n \in Router, Restart(n)
  PROVE  Web(router', chan')
<1> DEFINE r == EmptyRouter(n)
<1>1. /\ router' = [router EXCEPT ![n] = r]
      /\ chan' = [a \in Router |-> [b \in Router |->
                    IF a = n THEN <<>>
                    ELSE IF b = n THEN Unanswered(chan[a][b]) ELSE chan[a][b]]]
  BY DEF Restart
<1>2. /\ Sound(n, r)
      /\ \A x \in Router : r.seg[x].nbrl2l = "none" /\ NoWay(r.seg[x])
  BY EmptySound DEF Dest, NoWay
<1> HIDE DEF r
<1>3. Web(router, chan) /\ Channels(chan) BY DEF Linked, Kept
<1>4. /\ router' = [k \in Router |-> router'[k]] /\ router'[n] = r
      /\ \A k \in Router : k # n => router'[k] = router[k]
  BY <1>1, <1>3 DEF Web
<1>5. \A k \in Router : Sound(k, router'[k]) BY <1>2, <1>3, <1>4 DEF Web
<1>6. ASSUME NEW x \in Router, x # n
      PROVE  /\ LinkInv(n, x, r.seg[x], router[x].seg[n], chan'[n][x], chan'[x][n])
             /\ LinkInv(x, n, router[x].seg[n], r.seg[x], chan'[x][n], chan'[n][x])
  <2> DEFINE b == chan[x][n]
  <2>1. chan'[n][x] = <<>> /\ chan'[x][n] = Unanswered(b) BY <1>1, <1>6
  <2>2. /\ LinkInv(n, x, router[n].seg[x], router[x].seg[n], chan[n][x], b)
        /\ LinkInv(x, n, router[x].seg[n], router[n].seg[x], b, chan[n][x])
    BY <1>3, OtherEnd
  <2>3. IF Renewing(b) THEN Shorter(b, Unanswered(b)) ELSE Unanswered(b) = b
    <3>1. FineSeq(b) BY <1>3 DEF Channels
    <3> HIDE DEF b
    <3>2. b # <<>> => Shorter(b, Tail(b)) BY <3>1, TailIsShorter
    <3> QED BY <3>2 DEF Unanswered, Renewing
  <2> HIDE DEF b
  <2>4. r.seg[x].nbrl2l = "none" /\ NoWay(r.seg[x]) BY <1>2
  <2>5. /\ LinkInv(n, x, r.seg[x], router[x].seg[n], <<>>, Unanswered(b))
        /\ LinkInv(x, n, router[x].seg[n], r.seg[x], Unanswered(b), <<>>)
    BY <2>2, <2>3, <2>4, LinkLost
  <2> QED BY <2>1, <2>5
<1>7. LinkInv(n, n, r.seg[n], r.seg[n], chan'[n][n], chan'[n][n])
  <2>1. chan'[n][n] = <<>> BY <1>1
  <2> QED BY <1>2, <2>1, LinkIdle
<1>8. ASSUME NEW a \in Router, NEW b \in Router
      PROVE  LinkInv(a, b, router'[a].seg[b], router'[b].seg[a], chan'[a][b], chan'[b][a])
  <2>1. CASE a = n /\ b = n BY <1>4, <1>7, <2>1
  <2>2. CASE a = n /\ b # n BY <1>4, <1>6, <2>2
  <2>3. CASE a # n /\ b = n BY <1>4, <1>6, <2>3
  <2>4. CASE a # n /\ b # n
    <3>1. chan'[a][b] = chan[a][b] /\ chan'[b][a] = chan[b][a] BY <1>1, <2>4
    <3>2. router'[a] = router[a] /\ router'[b] = router[b] BY <1>4, <2>4
    <3>3. LinkInv(a, b, router[a].seg[b], router[b].seg[a], chan[a][b], chan[b][a])
      BY <1>3, OtherEnd
    <3> QED BY <3>1, <3>2, <3>3
  <2> QED BY <2>1, <2>2, <2>3, <2>4
<1> QED BY <1>4, <1>5, <1>8 DEF Web, AllLinks

-----------------------------------------------------------------------------
(* The clock, the operator and level 4.                                    *)

SameLinks(R) == \A a, b \in Router : R[a].seg[b].nbrl2l = LinkState(a, b)

LEMMA LinksSame ==
  ASSUME Linked, NEW n \in Router, NEW r,
         \A m \in Router : r.seg[m].nbrl2l = router[n].seg[m].nbrl2l
  PROVE  SameLinks([router EXCEPT ![n] = r])
BY DEF Linked, Kept, Tables, SameLinks, LinkState

LEMMA UnnoticedSame ==
  ASSUME Linked, NEW n \in Router, NEW m \in Router
  PROVE  Unnoticed(m, router[n].seg[m], router[n].seg[m])
<1>1. NoWay(router[n].seg[m]) BY OtherEnd DEF Linked
<1> QED BY <1>1 DEF Unnoticed, SameEnd, SameReports, Softer

(* n changes its segment to m, and m need not know.                        *)
LEMMA StillAt ==
  ASSUME Linked, NEW n \in Router, NEW m \in Router, NEW r, Sound(n, r),
         Changed(router[n], r, m), Unnoticed(m, router[n].seg[m], r.seg[m])
  PROVE  Web([router EXCEPT ![n] = r], chan) /\ SameLinks([router EXCEPT ![n] = r])
<1>1. \A x \in Router : x = m \/ r.seg[x] = router[n].seg[x] BY DEF Changed, Dest
<1>2. \A x \in Router : Unnoticed(x, router[n].seg[x], r.seg[x])
  BY <1>1, UnnoticedSame
<1>3. \A x \in Router : r.seg[x].nbrl2l = router[n].seg[x].nbrl2l
  BY <1>2 DEF Unnoticed, SameEnd
<1>4. Web(router, chan) BY DEF Linked
<1>5. Web([router EXCEPT ![n] = r], chan) BY <1>2, <1>4, StillKeeps
<1> QED BY <1>3, <1>5, LinksSame

LEMMA MeasureLinks ==
  ASSUME Linked, NEW n \in Router, NEW m \in Router, StartMeasurement(n, m)
  PROVE  Web(router', chan')
<1> DEFINE r == WithField(router[n], m, "rttstart", TRUE)
<1> DEFINE f == RttFrame(router[n].seg[m], n)
<1>1. /\ router' = [router EXCEPT ![n] = r] /\ chan' = Send(chan, n, m, f)
      /\ router[n].seg[m].nbrl2l = "up"
  BY DEF StartMeasurement, WithField, Up, LinkState
<1>2. IsRouter(router[n]) /\ Sound(n, router[n]) BY LinkedRouter
<1>3. LET p == router[n].seg[m] p2 == r.seg[m]
      IN  /\ Sound(n, r) /\ Changed(router[n], r, m)
          /\ p2.typ = p.typ /\ p2.my = p.my /\ p2.route = p.route
          /\ p2.nbrl2l = p.nbrl2l
  <2>1. "rttstart" \in {"nbrl2l", "rttstart"} OBVIOUS
  <2>2. \A v : LET p == router[n].seg[m] r2 == WithField(router[n], m, "rttstart", v)
                 p2 == r2.seg[m]
             IN  /\ Sound(n, r2) /\ Changed(router[n], r2, m)
                 /\ p2.typ = p.typ /\ p2.my = p.my /\ p2.route = p.route
                 /\ p2.nbrl2l = p.nbrl2l
    BY <1>2, <2>1, LinkSet
  <2> QED BY <2>2
<1> HIDE DEF r
<1>4. Unnoticed(m, router[n].seg[m], r.seg[m])
  BY <1>1, <1>3 DEF Unnoticed, SameEnd, SameReports, NoWay, Softer
<1>5. Web(router', chan) /\ SameLinks(router') BY <1>1, <1>3, <1>4, StillAt
<1>6. Channels(chan) BY DEF Linked, Kept
<1>7. f.kind = "rtt" /\ f.org = n BY DEF RttFrame
<1> HIDE DEF f
<1>8. Web(router', Send(chan, n, m, f))
  BY <1>5, <1>6, <1>7, SendKeeps DEF SameLinks
<1> QED BY <1>1, <1>8

LEMMA BroadcastLinks ==
  ASSUME Linked, NEW n \in Router, NEW m \in Router, NEW jam, Broadcast(n, m, jam)
  PROVE  Web(router', chan')
<1> DEFINE r == InformPeer(router[n], m, Hidden, jam)
<1> DEFINE rep == Report(router[n], m, Hidden, jam)
<1> DEFINE p == router[n].seg[m]
<1> DEFINE p2 == r.seg[m]
<1> DEFINE q == router[m].seg[n]
<1> DEFINE c == chan[n][m]
<1> DEFINE b == chan[m][n]
<1> DEFINE f == ReportFrame(rep)
<1> DEFINE c2 == chan'[n][m]
<1>1. /\ router' = [router EXCEPT ![n] = r] /\ chan' = Send(chan, n, m, f)
      /\ p.nbrl2l = "up" /\ p.typ = "INP"
  BY DEF Broadcast, MayReport, Up, LinkState
<1>2. IsRouter(router[n]) /\ Sound(n, router[n]) BY LinkedRouter
<1>3. /\ Sound(n, r) /\ Changed(router[n], r, m) /\ SameEnd(p, p2)
      /\ \A d \in Dest : /\ p2.route[d].quality = p.route[d].quality
                         /\ p2.route[d].timeout = p.route[d].timeout
      /\ \A d \in Dest \ DOMAIN rep : p2.route[d].reported = p.route[d].reported
      /\ \A d \in DOMAIN rep :
           rep[d].q \in Nat /\ Matches(rep[d].q, p2.route[d].reported)
  BY <1>2, Informed
<1>4. Web(router, chan) /\ Channels(chan) BY DEF Linked, Kept
<1>5. /\ LinkInv(n, m, p, q, c, b) /\ LinkInv(m, n, q, p, b, c) /\ n # m /\ NoWay(q)
  BY <1>1, <1>4, OtherEnd
<1>6. Longer(c, f, Append(c, f))
  <2>1. FineSeq(c) BY <1>4 DEF Channels
  <2> QED BY <2>1, AppendIsLonger
<1>7. Longer(c, f, c2) /\ chan'[m][n] = b /\ Between(n, m, chan, chan')
  <2> HIDE DEF f
  <2>1. chan' = [chan EXCEPT ![n][m] = Append(c, f)]
    BY <1>1 DEF Send, LinkState
  <2> QED BY <1>4, <1>5, <1>6, <2>1 DEF Channels, Between
<1>8. NoWay(p2) BY <1>1, <1>3 DEF SameEnd, NoWay
<1>9. f.kind = "rif" BY DEF ReportFrame
<1> HIDE DEF r, rep, p, p2, q, c, b, c2
<1>10. LinkInv(n, m, p2, q, c2, b)
  BY <1>1, <1>3, <1>5, <1>7, <1>8, LinkReports
<1> HIDE DEF f
<1>11. LinkInv(m, n, q, p2, b, c)
  <2>1. /\ p2.nbrl2l = p.nbrl2l /\ p2.typ = p.typ /\ Softer(m, p, p2)
        /\ SameEnd(q, q) /\ SameReports(q, q)
    BY <1>3 DEF SameEnd, SameReports, Softer, Unlimited
  <2> QED BY <1>5, <2>1, LinkStill
<1>12. LinkInv(m, n, q, p2, b, c2) BY <1>7, <1>9, <1>11, LinkSendsBack
<1>13. /\ LinkInv(n, m, r.seg[m], router[m].seg[n], chan'[n][m], chan'[m][n])
       /\ LinkInv(m, n, router[m].seg[n], r.seg[m], chan'[m][n], chan'[n][m])
  BY <1>7, <1>10, <1>12 DEF p2, q, c2
<1> QED BY <1>1, <1>3, <1>4, <1>5, <1>7, <1>13, OnePair

LEMMA ClockLinks ==
  ASSUME Linked, NEW n \in Router, Minute(n) \/ Drop(n)
  PROVE  Web(router', chan')
<1>1. IsRouter(router[n]) /\ Sound(n, router[n]) BY LinkedRouter
<1>2. Web(router, chan) BY DEF Linked
<1>3. \A m \in Router : NoWay(router[n].seg[m]) BY <1>2, OtherEnd
<1>4. Router \subseteq Dest BY DEF Dest
<1>5. CASE Minute(n)
  <2> DEFINE r == AgeRouter(router[n])
  <2>1. router' = [router EXCEPT ![n] = r] /\ chan' = chan BY <1>5 DEF Minute, AgeRouter
  <2>2. Sound(n, r) /\ Older(router[n], r) BY <1>1, MinuteSound
  <2> HIDE DEF r
  <2>3. /\ Sound(n, r)
        /\ \A s \in Dest :
             /\ r.seg[s].nbrl2l = router[n].seg[s].nbrl2l /\ r.seg[s].typ = router[n].seg[s].typ
             /\ r.seg[s].my = router[n].seg[s].my
             /\ \A d \in Dest :
                  /\ r.seg[s].route[d].reported = router[n].seg[s].route[d].reported
                  /\ r.seg[s].route[d].quality \in {router[n].seg[s].route[d].quality, 0}
                  /\ Unlimited(r.seg[s].route[d]) =>
                       r.seg[s].route[d] = router[n].seg[s].route[d]
    BY <2>2 DEF Older
  <2>4. ASSUME NEW m \in Router PROVE Unnoticed(m, router[n].seg[m], r.seg[m])
    <3>1. m \in Dest BY <1>4
    <3>2. NoWay(r.seg[m])
      <4>1. /\ r.seg[m].nbrl2l = router[n].seg[m].nbrl2l
            /\ \A d \in Dest : r.seg[m].route[d].quality \in {router[n].seg[m].route[d].quality, 0}
        BY <2>3, <3>1
      <4>2. NoWay(router[n].seg[m]) BY <1>3
      <4> QED BY <4>1, <4>2 DEF NoWay
    <3> QED BY <2>3, <3>1, <3>2 DEF Unnoticed, SameEnd, SameReports, Softer
  <2>5. Web([router EXCEPT ![n] = r], chan) BY <1>2, <2>3, <2>4, StillKeeps
  <2> QED BY <2>1, <2>5
<1>6. CASE Drop(n)
  <2> DEFINE r == DropUnreachable(router[n])
  <2>1. router' = [router EXCEPT ![n] = r] /\ chan' = chan BY <1>6 DEF Drop, Become
  <2>2. Sound(n, r) /\ r.seg = router[n].seg BY <1>1, FadeDrop DEF Fades
  <2> HIDE DEF r
  <2>3. \A m \in Router : Unnoticed(m, router[n].seg[m], r.seg[m]) BY <2>2, UnnoticedSame
  <2>4. Web([router EXCEPT ![n] = r], chan) BY <1>2, <2>2, <2>3, StillKeeps
  <2> QED BY <2>1, <2>4
<1> QED BY <1>5, <1>6

LEMMA LocalLinks ==
  ASSUME Linked, NEW d \in Local, ToggleLocal(d),
         router[Home[d]].seg[d].used \/ NoOtherWay(router[Home[d]], d)
  PROVE  Web(router', chan')
<1> DEFINE n == Home[d]
<1> DEFINE old == router[n]
<1> DEFINE r == IF old.seg[d].used THEN UnregisterLocal(old, d) ELSE RegisterLocal(old, d)
<1>1. n \in Router BY LineAssumption
<1>2. router' = [router EXCEPT ![n] = r] /\ chan' = chan BY DEF ToggleLocal, Become
<1>3. IsRouter(old) /\ Sound(n, old) BY <1>1, LinkedRouter
<1> HIDE DEF n
<1>4. Sound(n, r) /\ \A s \in Router : r.seg[s] = old.seg[s]
  <2> HIDE DEF old
  <2>1. CASE old.seg[d].used BY <1>1, <1>3, <2>1, UnregisteredSound
  <2>2. CASE ~old.seg[d].used
    <3>1. NoOtherWay(old, d) BY <2>2 DEF old, n
    <3>2. r = RegisterLocal(old, d) BY <2>2
    <3> HIDE DEF r
    <3> QED BY <1>1, <1>3, <3>1, <3>2, RegisteredSound
  <2> QED BY <2>1, <2>2
<1> HIDE DEF r
<1>5. \A m \in Router : Unnoticed(m, router[n].seg[m], r.seg[m])
  BY <1>1, <1>4, UnnoticedSame
<1>6. Web(router, chan) BY DEF Linked
<1>7. Web([router EXCEPT ![n] = r], chan) BY <1>1, <1>4, <1>5, <1>6, StillKeeps
<1> QED BY <1>2, <1>7

LEMMA L3txLinks ==
  ASSUME Linked, NEW n \in Router, L3tx(n)
  PROVE  Web(router', chan')
<1> DEFINE d == Head(txl[n])
<1> DEFINE next == BestSegment(router[n], d, Datagram(router[n]))
<1> DEFINE f == DatagramFrame(n, d, TimLiv)
<1>1. router' = router /\ chan' \in {Send(chan, n, next, f), chan} BY DEF L3tx
<1>2. f.kind = "data" BY DEF DatagramFrame
<1> HIDE DEF next, f
<1>3. Web(router, chan) /\ Channels(chan) BY DEF Linked, Kept
<1>4. \A a, b \in Router : router[a].seg[b].nbrl2l = LinkState(a, b) BY DEF LinkState
<1>5. Web(router, Send(chan, n, next, f)) BY <1>2, <1>3, <1>4, SendKeeps DEF RttBy
<1> QED BY <1>1, <1>3, <1>5

-----------------------------------------------------------------------------
(* Received frames.                                                        *)

(* A frame of m that n may read.                                           *)
Arrived(n, m) ==
  chan[m][n] # <<>> /\ Up(m, n) /\ (Renewing(chan[m][n]) \/ Up(n, m))

LEMMA Heard ==
  ASSUME Linked, NEW n \in Router, NEW m \in Router, Arrived(n, m)
  PROVE  LET c == chan[m][n] IN
         /\ m \in Neighbour(n) /\ n \in Neighbour(m) /\ n # m
         /\ LinkInv(n, m, router[n].seg[m], router[m].seg[n], chan[n][m], c)
         /\ LinkInv(m, n, router[m].seg[n], router[n].seg[m], c, chan[n][m])
         /\ c # <<>> /\ Shorter(c, Tail(c)) /\ Head(c) = c[1] /\ ~Renewing(Tail(c))
         /\ 1 \in DOMAIN c
         /\ router[m].seg[n].nbrl2l = "up"
         /\ c[1].kind # "ua" => router[n].seg[m].nbrl2l = "up"
<1> DEFINE c == chan[m][n]
<1>1. Web(router, chan) /\ Channels(chan) BY DEF Linked, Kept
<1>2. /\ LinkInv(n, m, router[n].seg[m], router[m].seg[n], chan[n][m], c)
      /\ LinkInv(m, n, router[m].seg[n], router[n].seg[m], c, chan[n][m])
  BY <1>1, OtherEnd
<1>3. c # <<>> /\ router[m].seg[n].nbrl2l = "up" BY DEF Arrived, Up, LinkState
<1>4. n \in Neighbour(m) BY <1>1, <1>3, OtherEnd
<1>5. m \in Neighbour(n) /\ n # m BY <1>1, <1>4, OtherEnd
<1>6. Shorter(c, Tail(c)) /\ Head(c) = c[1]
  <2>1. FineSeq(c) BY <1>1 DEF Channels
  <2> QED BY <1>3, <2>1, TailIsShorter
<1>7. FramesOf(m, n, c) BY <1>2 DEF LinkInv
<1>8. Rest(c, Tail(c)) BY <1>6, <1>7, RestOfFrames
<1>9. c[1].kind # "ua" => router[n].seg[m].nbrl2l = "up"
  BY DEF Arrived, Renewing, Up, LinkState
<1> QED BY <1>2, <1>3, <1>4, <1>5, <1>6, <1>8, <1>9 DEF Rest

(* n has read the first frame of m.                                        *)
Read(n, m) == [chan EXCEPT ![m][n] = Tail(chan[m][n])]

LEMMA ReadChannels ==
  ASSUME Linked, NEW n \in Router, NEW m \in Router, Arrived(n, m)
  PROVE  /\ Channels(Read(n, m))
         /\ Read(n, m)[m][n] = Tail(chan[m][n]) /\ Read(n, m)[n][m] = chan[n][m]
         /\ Between(n, m, chan, Read(n, m))
<1>1. Channels(chan) BY DEF Linked, Kept
<1>2. FineSeq(Tail(chan[m][n]))
  <2>1. FineSeq(chan[m][n]) BY <1>1 DEF Channels
  <2> QED BY <2>1, FineHeadTail DEF Arrived
<1>3. Channels(Read(n, m)) BY <1>1, <1>2, SetChannel DEF Read
<1>4. n # m BY Heard
<1>5. Read(n, m)[m][n] = Tail(chan[m][n]) BY <1>1 DEF Channels, Read
<1>6. \A a, b \in Router : ~(a = m /\ b = n) => Read(n, m)[a][b] = chan[a][b]
  BY <1>1 DEF Channels, Read
<1>7. Between(n, m, chan, Read(n, m)) BY <1>6 DEF Between
<1> QED BY <1>3, <1>4, <1>5, <1>6, <1>7

(* What it does then to its segment to m:                                  *)
Gentle(n, s, r, r2) ==
  /\ IsRouter(r2) /\ Sound(n, r2) /\ Changed(r, r2, s)
  /\ r2.seg[s].nbrl2l = r.seg[s].nbrl2l

Kindred(p, p2) == p2.typ = p.typ /\ SameReports(p, p2)

LEMMA ReadLinks ==
  ASSUME Linked, NEW n \in Router, NEW m \in Router, Arrived(n, m),
         NEW f, f = chan[m][n][1], f.kind # "ua", NEW r, Gentle(n, m, router[n], r),
         \/ Kindred(router[n].seg[m], r.seg[m])
         \/ router[n].seg[m].typ # "INP" /\ r.seg[m].typ = "INP" /\ RttBy(f, m),
         IF f.kind = "rif"
         THEN /\ r.seg[m].typ = router[n].seg[m].typ
              /\ \A d \in Dest \ {m} : Unlimited(r.seg[m].route[d]) =>
                   IF d \in DOMAIN f.rep
                   THEN /\ router[n].seg[m].typ = "INP"
                        /\ r.seg[m].route[d].quality = f.rep[d].q /\ f.rep[d].q < HORIZONT
                   ELSE /\ Unlimited(router[n].seg[m].route[d])
                        /\ r.seg[m].route[d].quality = router[n].seg[m].route[d].quality
         ELSE Softer(m, router[n].seg[m], r.seg[m])
  PROVE  /\ Web([router EXCEPT ![n] = r], Read(n, m))
         /\ SameLinks([router EXCEPT ![n] = r])
<1> DEFINE p == router[n].seg[m]
<1> DEFINE p2 == r.seg[m]
<1> DEFINE q == router[m].seg[n]
<1> DEFINE c == chan[m][n]
<1> DEFINE b == chan[n][m]
<1> DEFINE c2 == Tail(c)
<1>1. /\ m \in Neighbour(n) /\ n \in Neighbour(m) /\ n # m
      /\ LinkInv(n, m, p, q, b, c) /\ LinkInv(m, n, q, p, c, b)
      /\ Shorter(c, c2) /\ ~Renewing(c2) /\ p.nbrl2l = "up" /\ q.nbrl2l = "up"
  BY Heard
<1>2. p2.nbrl2l = "up" /\ Sound(n, r) /\ Changed(router[n], r, m)
  BY <1>1 DEF Gentle
<1>3. Web(router, chan) BY DEF Linked
<1>4. Kindred(p, p2) => p2.typ = p.typ /\ SameReports(p, p2) BY DEF Kindred
<1>5. /\ Read(n, m)[m][n] = c2 /\ Read(n, m)[n][m] = b
      /\ Between(n, m, chan, Read(n, m))
  BY ReadChannels
<1>6. f = c[1] OBVIOUS
<1> HIDE DEF p, p2, q, c, b, c2
<1>7. LinkInv(n, m, p2, q, b, c2)
  BY <1>1, <1>2, <1>4, LinkAnswers DEF p, p2
<1>8. LinkInv(m, n, q, p2, c2, b)
  <2>1. CASE f.kind = "rif"
    <3>1. c[1].kind = "rif" /\ p2.typ = p.typ BY <1>6, <2>1 DEF p, p2
    <3>2. \A d \in Dest \ {m} : Unlimited(p2.route[d]) =>
            IF d \in DOMAIN c[1].rep
            THEN /\ p.typ = "INP"
                 /\ p2.route[d].quality = c[1].rep[d].q /\ c[1].rep[d].q < HORIZONT
            ELSE Unlimited(p.route[d]) /\ p2.route[d].quality = p.route[d].quality
      BY <1>6, <2>1 DEF p, p2
    <3> QED BY <1>1, <1>2, <3>1, <3>2, LinkHears
  <2>2. CASE f.kind # "rif"
    <3>1. Softer(m, p, p2) BY <2>2 DEF p, p2
    <3>2. RttBy(c[1], m) \/ p2.typ = p.typ BY <1>4, <1>6 DEF p, p2
    <3>3. c[1].kind # "ua" /\ \A d \in Dest \ {m} : ~RifOf(c[1], d)
      BY <1>6, <2>2 DEF RifOf
    <3> QED BY <1>1, <1>2, <3>1, <3>2, <3>3, LinkTakes
  <2> QED BY <2>1, <2>2
<1>9. /\ LinkInv(n, m, r.seg[m], router[m].seg[n], Read(n, m)[n][m], Read(n, m)[m][n])
      /\ LinkInv(m, n, router[m].seg[n], r.seg[m], Read(n, m)[m][n], Read(n, m)[n][m])
  BY <1>5, <1>7, <1>8 DEF p2, q
<1>10. Web([router EXCEPT ![n] = r], Read(n, m))
  BY <1>1, <1>2, <1>3, <1>5, <1>9, OnePair
<1>11. \A x \in Router : r.seg[x].nbrl2l = router[n].seg[x].nbrl2l
  BY <1>1, <1>2 DEF Changed, Dest, p, p2
<1> QED BY <1>10, <1>11, LinksSame

(* The UA.                                                                 *)
LEMMA StartsLinks ==
  ASSUME Linked, NEW n \in Router, NEW m \in Router, Arrived(n, m),
         chan[m][n][1].kind = "ua", NEW r,
         r = LinkConnected([router[n] EXCEPT !.seg[m].nbrl2l = "up"], m)
  PROVE  Web([router EXCEPT ![n] = r], Read(n, m))
<1> DEFINE r1 == SetEnd(n, m, "up")
<1> DEFINE p == router[n].seg[m]
<1> DEFINE p2 == r.seg[m]
<1> DEFINE q == router[m].seg[n]
<1> DEFINE c == chan[m][n]
<1> DEFINE b == chan[n][m]
<1> DEFINE c2 == Tail(c)
<1>1. /\ m \in Neighbour(n) /\ n \in Neighbour(m) /\ n # m
      /\ LinkInv(n, m, p, q, b, c) /\ LinkInv(m, n, q, p, c, b)
      /\ c # <<>> /\ Shorter(c, c2) /\ ~Renewing(c2) /\ q.nbrl2l = "up"
  BY Heard
<1>2. /\ IsRouter(r1) /\ Sound(n, r1) /\ Changed(router[n], r1, m)
      /\ r1.seg[m].nbrl2l = "up"
  BY EndSet
<1>3. r = LinkConnected(r1, m) BY DEF SetEnd
<1> HIDE DEF r1
<1>4. Renewed(n, m, r1, r) BY <1>1, <1>2, <1>3, LinkRenews
<1>5. /\ Sound(n, r) /\ Changed(router[n], r, m) /\ p2.nbrl2l = "up"
      /\ p2.typ # "INP" /\ Limited(m, p2)
  BY <1>2, <1>4 DEF Renewed, Fades, Changed, Limited
<1>6. Renewing(c) /\ c[1].kind = "ua" BY <1>1 DEF Renewing
<1>7. Web(router, chan) BY DEF Linked
<1>8. /\ Read(n, m)[m][n] = c2 /\ Read(n, m)[n][m] = b
      /\ Between(n, m, chan, Read(n, m))
  BY ReadChannels
<1> HIDE DEF p, p2, q, c, b, c2
<1>9. LinkInv(n, m, p2, q, b, c2) BY <1>1, <1>5, <1>6, LinkStarts
<1>10. LinkInv(m, n, q, p2, c2, b) BY <1>1, <1>5, <1>6, LinkRenewed
<1>11. /\ LinkInv(n, m, r.seg[m], router[m].seg[n], Read(n, m)[n][m], Read(n, m)[m][n])
       /\ LinkInv(m, n, router[m].seg[n], r.seg[m], Read(n, m)[m][n], Read(n, m)[n][m])
  BY <1>8, <1>9, <1>10 DEF p2, q
<1> QED BY <1>1, <1>5, <1>7, <1>8, <1>11, OnePair

LEMMA GentleTwice ==
  ASSUME NEW n, NEW s, NEW r, NEW r2, NEW r3,
         Gentle(n, s, r, r2), Gentle(n, s, r2, r3),
         Softer(s, r.seg[s], r2.seg[s]), Softer(s, r2.seg[s], r3.seg[s])
  PROVE  Gentle(n, s, r, r3) /\ Softer(s, r.seg[s], r3.seg[s])
BY DEF Gentle, Changed, Softer

LEMMA MarkGentle ==
  ASSUME NEW n \in Router, NEW s \in Router, NEW r, IsRouter(r), Sound(n, r), NEW v,
         NEW r2, r2 = WithField(r, s, "rttstart", v)
  PROVE  /\ Gentle(n, s, r, r2) /\ Softer(s, r.seg[s], r2.seg[s])
         /\ r2.seg[s].typ = r.seg[s].typ /\ r2.seg[s].route = r.seg[s].route
<1>1. "rttstart" \in {"nbrl2l", "rttstart"} OBVIOUS
<1>2. LET p == r.seg[s] p2 == r2.seg[s]
      IN  /\ IsRouter(r2) /\ Sound(n, r2) /\ Changed(r, r2, s)
          /\ p2.typ = p.typ /\ p2.route = p.route /\ p2.nbrl2l = p.nbrl2l
  BY <1>1, LinkSet
<1> QED BY <1>2 DEF Gentle, Softer

LEMMA FadesGentle ==
  ASSUME NEW n \in Router, NEW s \in Router, NEW r, NEW r2, Fades(n, s, r, r2)
  PROVE  Gentle(n, s, r, r2) /\ Softer(s, r.seg[s], r2.seg[s])
BY DEF Fades, Gentle, Softer

LEMMA LearnsGentle ==
  ASSUME NEW n \in Router, NEW s \in Router, NEW r, NEW r2, LearnsLittle(n, s, r, r2)
  PROVE  /\ Gentle(n, s, r, r2) /\ Softer(s, r.seg[s], r2.seg[s])
         /\ Kindred(r.seg[s], r2.seg[s])
BY DEF LearnsLittle, Learns, Gentle, Kindred

LEMMA MeasuredGentle ==
  ASSUME NEW n \in Router, NEW s \in Router, NEW r, IsRouter(r), Sound(n, r),
         NEW my \in Nat \cup {-1}, NEW his, NEW r2, r2 = Measured(r, s, my, his)
  PROVE  /\ Gentle(n, s, r, r2) /\ Softer(s, r.seg[s], r2.seg[s])
         /\ r2.seg[s].typ = r.seg[s].typ /\ r2.seg[s].route = r.seg[s].route
<1>1. LET r3 == Measured(r, s, my, his)
      IN  /\ Fades(n, s, r, r3) /\ r3.seg[s].route = r.seg[s].route
          /\ r3.seg[s].typ = r.seg[s].typ
          /\ my = -1 => r3.seg[s].my = r.seg[s].my
  BY FadeQuality
<1>2. Fades(n, s, r, r2) BY <1>1
<1>3. Gentle(n, s, r, r2) /\ Softer(s, r.seg[s], r2.seg[s]) BY <1>2, FadesGentle
<1> QED BY <1>1, <1>3

LEMMA RttNat == \A n, m \in Router : \A x \in Rtt[n][m] : x \in Nat
BY RttAssumption

LEMMA OwnRttLinks ==
  ASSUME Linked, NEW n \in Router, NEW m \in Router, Arrived(n, m),
         NEW f, f = chan[m][n][1], f.kind = "rtt", RxOwnRtt(n, m, f, Read(n, m))
  PROVE  Web(router', chan')
<1> DEFINE old == router[n]
<1> DEFINE ch == Read(n, m)
<1>1. PICK rtt \in Rtt[n][m] :
        LET p == [UpdatePeerQuality(router[n].seg[m], rtt, -1) EXCEPT !.rttstart = FALSE]
            r == AddRoute([router[n] EXCEPT !.seg[m] = p], m, m, 1, 1)
        IN IF ~router[n].seg[m].rttstart \/ Overtaken(ch, n, m)
           THEN Become(n, router[n]) /\ chan' = ch
           ELSE /\ Become(n, [r EXCEPT !.seg[m].rttstart = f.first])
                /\ chan' = IF f.first THEN Send(ch, n, m, RttFrame(r.seg[m], n)) ELSE ch
  BY DEF RxOwnRtt
<1> DEFINE r1 == Measured(old, m, rtt, -1)
<1> DEFINE r2 == WithField(r1, m, "rttstart", FALSE)
<1> DEFINE r3 == AddRoute(r2, m, m, 1, 1)
<1> DEFINE r4 == WithField(r3, m, "rttstart", f.first)
<1> DEFINE g == RttFrame(r3.seg[m], n)
<1>2. IsRouter(old) /\ Sound(n, old) BY LinkedRouter
<1>3. m \in Neighbour(n) /\ n # m BY Heard
<1>4. m \in Dest BY DEF Dest
<1>5. r2 = [old EXCEPT !.seg[m]
              = [UpdatePeerQuality(old.seg[m], rtt, -1) EXCEPT !.rttstart = FALSE]]
  BY <1>2, <1>4 DEF WithField, Measured, IsRouter, IsRec, RouterFields
<1>6. \/ router' = [router EXCEPT ![n] = old] /\ chan' = ch
      \/ router' = [router EXCEPT ![n] = r4] /\ chan' \in {Send(ch, n, m, g), ch}
  BY <1>1, <1>5 DEF Become, WithField
<1>7. rtt \in Nat /\ rtt \in Nat \cup {-1}
  <2>1. rtt \in Rtt[n][m] BY <1>1
  <2> QED BY <2>1, RttNat
<1>8. /\ Gentle(n, m, old, r1) /\ Softer(m, old.seg[m], r1.seg[m])
      /\ r1.seg[m].typ = old.seg[m].typ /\ r1.seg[m].route = old.seg[m].route
  BY <1>2, <1>7, MeasuredGentle
<1> HIDE DEF r1
<1>9. /\ Gentle(n, m, r1, r2) /\ Softer(m, r1.seg[m], r2.seg[m])
      /\ r2.seg[m].typ = r1.seg[m].typ /\ r2.seg[m].route = r1.seg[m].route
  <2>1. \A v : LET rr == WithField(r1, m, "rttstart", v)
               IN  /\ Gentle(n, m, r1, rr) /\ Softer(m, r1.seg[m], rr.seg[m])
                   /\ rr.seg[m].typ = r1.seg[m].typ /\ rr.seg[m].route = r1.seg[m].route
    BY <1>8, MarkGentle DEF Gentle
  <2> QED BY <2>1
<1> HIDE DEF r2
<1>10. /\ Gentle(n, m, r2, r3) /\ Softer(m, r2.seg[m], r3.seg[m])
       /\ Kindred(r2.seg[m], r3.seg[m])
  <2>1. IsRouter(r2) /\ Sound(n, r2) BY <1>9 DEF Gentle
  <2>2. LearnsLittle(n, m, r2, r3) BY <1>3, <2>1, NeighbourLearnt
  <2> HIDE DEF r3
  <2> QED BY <2>2, LearnsGentle
<1> HIDE DEF r3
<1>11. /\ Gentle(n, m, r3, r4) /\ Softer(m, r3.seg[m], r4.seg[m])
       /\ r4.seg[m].typ = r3.seg[m].typ /\ r4.seg[m].route = r3.seg[m].route
  BY <1>10, MarkGentle DEF Gentle
<1> HIDE DEF r4
<1>12. Gentle(n, m, old, r2) /\ Softer(m, old.seg[m], r2.seg[m])
  BY <1>8, <1>9, GentleTwice
<1>13. Gentle(n, m, old, r3) /\ Softer(m, old.seg[m], r3.seg[m])
  BY <1>10, <1>12, GentleTwice
<1>14. Gentle(n, m, old, r4) /\ Softer(m, old.seg[m], r4.seg[m])
  BY <1>11, <1>13, GentleTwice
<1>15. Kindred(old.seg[m], r4.seg[m])
  BY <1>8, <1>9, <1>10, <1>11 DEF Kindred, SameReports
<1>16. Gentle(n, m, old, old) /\ Softer(m, old.seg[m], old.seg[m]) /\ Kindred(old.seg[m], old.seg[m])
  BY <1>2 DEF Gentle, Changed, Softer, Kindred, SameReports
<1>17. PICK r \in {old, r4} :
         router' = [router EXCEPT ![n] = r] /\ chan' \in {Send(ch, n, m, g), ch}
  BY <1>6
<1>18. Gentle(n, m, old, r) /\ Softer(m, old.seg[m], r.seg[m]) /\ Kindred(old.seg[m], r.seg[m])
  BY <1>14, <1>15, <1>16
<1>19. g.kind = "rtt" /\ g.org = n BY DEF RttFrame
<1> HIDE DEF g, ch, old
<1>20. Web(router', ch) /\ SameLinks(router') BY <1>17, <1>18, ReadLinks DEF old, ch
<1>21. Channels(ch) BY ReadChannels DEF ch
<1>22. Web(router', Send(ch, n, m, g))
  BY <1>19, <1>20, <1>21, SendKeeps DEF SameLinks
<1> QED BY <1>17, <1>20, <1>22

LEMMA RttLinks ==
  ASSUME Linked, NEW n \in Router, NEW m \in Router, Arrived(n, m),
         NEW f, f = chan[m][n][1], f.kind = "rtt", f.org # n, RxRtt(n, m, f, Read(n, m))
  PROVE  Web(router', chan')
<1> DEFINE old == router[n]
<1> DEFINE ch == Read(n, m)
<1> DEFINE inp == old.seg[m].typ = "INP"
<1> DEFINE r1 == IF inp THEN old ELSE SetPeerTyp(old, m, "INP")
<1> DEFINE r2 == IF f.srtt >= 5 THEN Measured(r1, m, -1, f.srtt) ELSE r1
<1> DEFINE r3 == AddRoute(r2, m, m, 1, 1)
<1> DEFINE back == Send(ch, n, m, f)
<1> DEFINE own == ReportFrame([d \in {n} |-> [q |-> 1, lt |-> 1]])
<1>1. /\ router' = [router EXCEPT ![n] = r3]
      /\ chan' \in {back, Send(back, n, m, own)}
  BY DEF RxRtt, Become, Measured
<1>2. IsRouter(old) /\ Sound(n, old) BY LinkedRouter
<1>3. /\ m \in Neighbour(n) /\ n # m
      /\ LinkInv(m, n, router[m].seg[n], old.seg[m], chan[m][n], chan[n][m])
      /\ 1 \in DOMAIN chan[m][n]
  BY Heard
<1>4. f.org = m BY <1>3 DEF LinkInv, FramesOf
<1>5. /\ Gentle(n, m, old, r1) /\ Softer(m, old.seg[m], r1.seg[m]) /\ r1.seg[m].typ = "INP"
      /\ inp => r1 = old
  <2>1. CASE inp BY <1>2, <2>1 DEF Gentle, Changed, Softer
  <2>2. CASE ~inp
    <3>1. Fades(n, m, old, SetPeerTyp(old, m, "INP")) /\ SetPeerTyp(old, m, "INP").seg[m].typ = "INP"
      BY <1>2, FadeTyp
    <3> QED BY <2>2, <3>1, FadesGentle
  <2> QED BY <2>1, <2>2
<1> HIDE DEF r1
<1>6. /\ Gentle(n, m, r1, r2) /\ Softer(m, r1.seg[m], r2.seg[m])
      /\ r2.seg[m].typ = r1.seg[m].typ /\ r2.seg[m].route = r1.seg[m].route
  <2>1. IsRouter(r1) /\ Sound(n, r1) BY <1>5 DEF Gentle
  <2>2. CASE r2 = r1 BY <2>1, <2>2 DEF Gentle, Changed, Softer
  <2>3. CASE r2 = Measured(r1, m, -1, f.srtt)
    <3>1. -1 \in Nat \cup {-1} OBVIOUS
    <3> HIDE DEF r2
    <3> QED BY <2>1, <2>3, <3>1, MeasuredGentle
  <2> QED BY <2>2, <2>3
<1> HIDE DEF r2
<1>7. /\ Gentle(n, m, r2, r3) /\ Softer(m, r2.seg[m], r3.seg[m])
      /\ Kindred(r2.seg[m], r3.seg[m])
  <2>1. IsRouter(r2) /\ Sound(n, r2) BY <1>6 DEF Gentle
  <2>2. LearnsLittle(n, m, r2, r3) BY <1>3, <2>1, NeighbourLearnt
  <2> HIDE DEF r3
  <2> QED BY <2>2, LearnsGentle
<1> HIDE DEF r3
<1>8. Gentle(n, m, old, r2) /\ Softer(m, old.seg[m], r2.seg[m]) BY <1>5, <1>6, GentleTwice
<1>9. Gentle(n, m, old, r3) /\ Softer(m, old.seg[m], r3.seg[m]) BY <1>7, <1>8, GentleTwice
<1>10. \/ Kindred(old.seg[m], r3.seg[m])
       \/ old.seg[m].typ # "INP" /\ r3.seg[m].typ = "INP" /\ RttBy(f, m)
  BY <1>4, <1>5, <1>6, <1>7 DEF Kindred, SameReports, RttBy
<1>11. Fine(f)
  <2>1. Channels(chan) BY DEF Linked, Kept
  <2>2. FineSeq(chan[m][n]) BY <2>1 DEF Channels
  <2> QED BY <1>3, <2>2 DEF FineSeq
<1>12. /\ own.kind = "rif" /\ \A d \in DOMAIN own.rep : d = n /\ own.rep[d].q = 1
       /\ ~RttBy(own, n) /\ Fine(own)
  BY DEF ReportFrame, RttBy, Fine, Dest
<1> HIDE DEF own, ch, old
<1>13. Web(router', ch) /\ SameLinks(router') BY <1>1, <1>9, <1>10, ReadLinks DEF old, ch
<1>14. Channels(ch) BY ReadChannels DEF ch
<1>15. Web(router', back) /\ Channels(back)
  <2>1. ~RttBy(f, n) /\ f.org \in {n, m} BY <1>4 DEF RttBy
  <2>2. Web(router', back) BY <1>13, <1>14, <2>1, SendKeeps DEF SameLinks
  <2> QED BY <1>11, <1>14, <2>2, SendChannels
<1> HIDE DEF back
<1>16. Web(router', Send(back, n, m, own))
  <2>1. \A d \in DOMAIN own.rep : d = n /\ own.rep[d].q \in Nat BY <1>12
  <2> QED BY <1>12, <1>13, <1>15, <2>1, SendKeeps DEF SameLinks
<1> QED BY <1>1, <1>15, <1>16

LEMMA ReportLinks ==
  ASSUME Linked, NEW n \in Router, NEW m \in Router, Arrived(n, m),
         NEW f, f = chan[m][n][1], f.kind = "rif"
  PROVE  Web([router EXCEPT ![n] = RxReport(router[n], m, f.rep)], Read(n, m))
<1> DEFINE old == router[n]
<1> DEFINE r == RxReport(old, m, f.rep)
<1>1. IsRouter(old) /\ Sound(n, old) BY LinkedRouter
<1>2. /\ m \in Neighbour(n) /\ 1 \in DOMAIN chan[m][n]
      /\ LinkInv(m, n, router[m].seg[n], old.seg[m], chan[m][n], chan[n][m])
  BY Heard
<1> DEFINE rep == f.rep
<1>3. \A d \in DOMAIN rep : rep[d].q \in Nat BY <1>2 DEF LinkInv, FramesOf
<1>4. DOMAIN rep \subseteq Dest
  <2>1. Channels(chan) BY DEF Linked, Kept
  <2>2. FineSeq(chan[m][n]) BY <2>1 DEF Channels
  <2> QED BY <1>2, <2>2 DEF FineSeq, Fine
<1>9. r = RxReport(old, m, rep) OBVIOUS
<1> HIDE DEF r, rep, old
<1>5. /\ Learns(n, m, old, r)
      /\ \A d \in Dest \ {m} : Unlimited(r.seg[m].route[d]) =>
           IF d \in DOMAIN rep
           THEN /\ old.seg[m].typ = "INP"
                /\ r.seg[m].route[d].quality = rep[d].q /\ rep[d].q < HORIZONT
           ELSE /\ Unlimited(old.seg[m].route[d])
                /\ r.seg[m].route[d].quality = old.seg[m].route[d].quality
  BY <1>1, <1>2, <1>3, <1>4, <1>9, ReportLearnt
<1>6. Gentle(n, m, old, r) /\ Kindred(old.seg[m], r.seg[m]) /\ r.seg[m].typ = old.seg[m].typ
  BY <1>5 DEF Learns, Gentle, Kindred
<1>7. Web([router EXCEPT ![n] = r], Read(n, m)) BY <1>5, <1>6, ReadLinks DEF old, rep
<1> QED BY <1>7, <1>9 DEF old, rep

LEMMA DatagramLinks ==
  ASSUME Linked, NEW n \in Router, NEW m \in Router, Arrived(n, m),
         NEW f, f = chan[m][n][1], f.kind = "data", RxDatagram(n, m, f, Read(n, m))
  PROVE  Web(router', chan')
<1> DEFINE old == router[n]
<1> DEFINE ch == Read(n, m)
<1> DEFINE r == IF f.org = n THEN old ELSE FastLearn(old, m, f.org)
<1> DEFINE next == BestSegment(r, f.dst, Datagram(r))
<1> DEFINE g == DatagramFrame(f.org, f.dst, f.ttl - 1)
<1>1. router' = [router EXCEPT ![n] = r] /\ chan' \in {Send(ch, n, next, g), ch}
  BY DEF RxDatagram
<1>2. IsRouter(old) /\ Sound(n, old) BY LinkedRouter
<1>3. m \in Neighbour(n) /\ 1 \in DOMAIN chan[m][n] BY Heard
<1>4. f.org \in Router
  <2>1. Channels(chan) BY DEF Linked, Kept
  <2>2. FineSeq(chan[m][n]) BY <2>1 DEF Channels
  <2> QED BY <1>3, <2>2 DEF FineSeq, Fine
<1>5. /\ Gentle(n, m, old, r) /\ Softer(m, old.seg[m], r.seg[m])
      /\ Kindred(old.seg[m], r.seg[m])
  <2>1. CASE f.org = n BY <1>2, <2>1 DEF Gentle, Changed, Softer, Kindred, SameReports
  <2>2. CASE f.org # n
    <3>1. LearnsLittle(n, m, old, FastLearn(old, m, f.org)) BY <1>2, <1>3, <1>4, <2>2, SenderLearnt
    <3> QED BY <2>2, <3>1, LearnsGentle
  <2> QED BY <2>1, <2>2
<1>6. g.kind = "data" /\ ~RttBy(g, n) BY DEF DatagramFrame, RttBy
<1> HIDE DEF r, next, g, ch
<1>7. Web(router', ch) /\ SameLinks(router') BY <1>1, <1>5, ReadLinks DEF ch
<1>8. Channels(ch) BY ReadChannels DEF ch
<1>9. Web(router', Send(ch, n, next, g)) BY <1>6, <1>7, <1>8, SendKeeps DEF SameLinks
<1> QED BY <1>1, <1>7, <1>9

LEMMA ReceiveLinks ==
  ASSUME Linked, NEW n \in Router, NEW m \in Router, Receive(n, m)
  PROVE  Web(router', chan')
<1> DEFINE f == chan[m][n][1]
<1> DEFINE r == LinkConnected([router[n] EXCEPT !.seg[m].nbrl2l = "up"], m)
<1>1. Arrived(n, m) BY DEF Receive, Arrived
<1>2. Head(chan[m][n]) = f BY <1>1, Heard
<1> HIDE DEF f
<1>3. \/ f.kind = "ua" /\ Become(n, r) /\ chan' = Read(n, m)
      \/ f.kind = "rtt" /\ f.org = n /\ RxOwnRtt(n, m, f, Read(n, m))
      \/ f.kind = "rtt" /\ f.org # n /\ RxRtt(n, m, f, Read(n, m))
      \/ f.kind = "rif" /\ Become(n, RxReport(router[n], m, f.rep)) /\ chan' = Read(n, m)
      \/ f.kind = "data" /\ RxDatagram(n, m, f, Read(n, m))
  BY <1>2 DEF Receive, Read
<1>4. CASE f.kind = "ua" /\ Become(n, r) /\ chan' = Read(n, m)
  <2>1. r = LinkConnected([router[n] EXCEPT !.seg[m].nbrl2l = "up"], m) OBVIOUS
  <2> HIDE DEF r
  <2>2. Web([router EXCEPT ![n] = r], Read(n, m)) BY <1>1, <1>4, <2>1, StartsLinks DEF f
  <2> QED BY <1>4, <2>2 DEF Become
<1>5. CASE f.kind = "rtt" /\ f.org = n /\ RxOwnRtt(n, m, f, Read(n, m))
  BY <1>1, <1>5, OwnRttLinks DEF f
<1>6. CASE f.kind = "rtt" /\ f.org # n /\ RxRtt(n, m, f, Read(n, m))
  BY <1>1, <1>6, RttLinks DEF f
<1>7. CASE f.kind = "rif" /\ Become(n, RxReport(router[n], m, f.rep)) /\ chan' = Read(n, m)
  BY <1>1, <1>7, ReportLinks DEF f, Become
<1>8. CASE f.kind = "data" /\ RxDatagram(n, m, f, Read(n, m))
  BY <1>1, <1>8, DatagramLinks DEF f
<1> QED BY <1>3, <1>4, <1>5, <1>6, <1>7, <1>8

LEMMA InitWeb == Init => Web(router, chan)
<1> SUFFICES ASSUME Init PROVE Web(router, chan) OBVIOUS
<1>1. /\ router = [n \in Router |-> EmptyRouter(n)]
      /\ chan = [n \in Router |-> [m \in Router |-> <<>>]]
  BY DEF Init, Quiet
<1>2. \A n \in Router : /\ router[n] = EmptyRouter(n)
                        /\ \A m \in Router : chan[n][m] = <<>>
  BY <1>1
<1>3. Router \subseteq Dest BY DEF Dest
<1>4. ASSUME NEW n \in Router
      PROVE  /\ Sound(n, router[n])
             /\ \A m \in Router : router[n].seg[m].nbrl2l = "none" /\ NoWay(router[n].seg[m])
  BY <1>2, <1>3, EmptySound DEF NoWay
<1>5. ASSUME NEW n \in Router, NEW m \in Router
      PROVE  LinkInv(n, m, router[n].seg[m], router[m].seg[n], chan[n][m], chan[m][n])
  <2> DEFINE p == router[n].seg[m]
  <2> DEFINE q == router[m].seg[n]
  <2>1. p.nbrl2l = "none" /\ NoWay(p) /\ q.nbrl2l = "none" /\ NoWay(q) BY <1>4
  <2> HIDE DEF p, q
  <2>2. LinkInv(n, m, p, q, <<>>, <<>>) BY <2>1, LinkIdle
  <2>3. chan[n][m] = <<>> /\ chan[m][n] = <<>> BY <1>2
  <2> QED BY <2>2, <2>3 DEF p, q
<1> QED BY <1>1, <1>4, <1>5 DEF Web, AllLinks

(* What is left out: the hourly repetition of all reports, a link that is  *)
(* set up anew while a measurement waits with a report behind it, and a    *)
(* LOCAL that is registered while its node has another way to it.          *)
Calm ==
  /\ \A n, m \in Router : ~AnHour(n, m)
  /\ \A n, m \in Router :
       Accept(n, m) => Tidy(chan'[n][m], n) /\ Tidy(chan'[m][n], m)
  /\ \A d \in Local : ToggleLocal(d) =>
       router[Home[d]].seg[d].used \/ NoOtherWay(router[Home[d]], d)

LEMMA NextLinked == Linked /\ [Next /\ Calm]_vars => Linked'
<1> SUFFICES ASSUME Linked, [Next /\ Calm]_vars PROVE Linked' OBVIOUS
<1>1. Kept'
  <2>1. Kept /\ [Next]_vars BY DEF Linked
  <2> QED BY <2>1, NextKeeps
<1>2. CASE Work /\ Calm
  <2>1. ASSUME NEW n \in Router, NEW m \in Router, Connect(n, m) PROVE Web(router', chan')
    BY <2>1, ConnectLinks
  <2>2. ASSUME NEW n \in Router, NEW m \in Router, Accept(n, m) \/ Notice(n, m)
        PROVE  Web(router', chan')
    <3>1. CASE Accept(n, m)
      <4>1. Tidy(chan'[n][m], n) /\ Tidy(chan'[m][n], m) BY <1>2, <3>1 DEF Calm
      <4> QED BY <3>1, <4>1, AnsweredLinks
    <3>2. CASE Notice(n, m) BY <3>2, LinksKeepWeb
    <3> QED BY <2>2, <3>1, <3>2
  <2>3. ASSUME NEW n \in Router, NEW m \in Router, Measure(n, m) PROVE Web(router', chan')
    BY <2>3, MeasureLinks DEF Measure
  <2>4. ASSUME NEW n \in Router, NEW m \in Router, Broadcast(n, m, FALSE)
        PROVE  Web(router', chan')
    <3>1. \A jam : Broadcast(n, m, jam) => Web(router', chan') BY BroadcastLinks
    <3> QED BY <2>4, <3>1
  <2>5. ASSUME NEW n \in Router, NEW m \in Router, Receive(n, m) PROVE Web(router', chan')
    BY <2>5, ReceiveLinks
  <2>6. ASSUME NEW n \in Router, Minute(n) \/ Drop(n) PROVE Web(router', chan')
    BY <2>6, ClockLinks
  <2>7. ASSUME NEW n \in Router, L3tx(n) PROVE Web(router', chan')
    BY <2>7, L3txLinks
  <2>8. Work BY <1>2
  <2>9. Web(router', chan') BY <2>1, <2>2, <2>3, <2>4, <2>5, <2>6, <2>7, <2>8 DEF Work
  <2> QED BY <1>1, <2>9 DEF Linked
<1>3. CASE Disturbance /\ Calm
  <2>1. ASSUME NEW n \in Router, NEW m \in Router, Fail(n, m) \/ Busy(n, m) \/ Reset(n, m)
        PROVE  Web(router', chan')
    BY <2>1, LinksKeepWeb, ResetLinks
  <2>2. ASSUME NEW n \in Router, NEW m \in Router, AnHour(n, m) PROVE Web(router', chan')
    BY <1>3, <2>2 DEF Calm
  <2>3. ASSUME NEW n \in Router, NEW m \in Router, Remeasure(n, m)
        PROVE  Web(router', chan')
    BY <2>3, MeasureLinks DEF Remeasure
  <2>4. ASSUME NEW n \in Router, NEW m \in Router, Broadcast(n, m, TRUE)
        PROVE  Web(router', chan')
    <3>1. \A jam : Broadcast(n, m, jam) => Web(router', chan') BY BroadcastLinks
    <3> QED BY <2>4, <3>1
  <2>5. ASSUME NEW n \in Router, NEW m \in Router, Originate(n, m)
        PROVE  Web(router', chan')
    BY <2>5 DEF Originate, Linked
  <2>6. ASSUME NEW n \in Router, Restart(n) PROVE Web(router', chan')
    BY <2>6, RestartKeepsWeb
  <2>7. ASSUME NEW d \in Local, ToggleLocal(d) PROVE Web(router', chan')
    <3>1. router[Home[d]].seg[d].used \/ NoOtherWay(router[Home[d]], d)
      BY <1>3, <2>7 DEF Calm
    <3> QED BY <2>7, <3>1, LocalLinks
  <2>8. Disturbance BY <1>3
  <2>9. Web(router', chan')
    BY <2>1, <2>2, <2>3, <2>4, <2>5, <2>6, <2>7, <2>8 DEF Disturbance
  <2> QED BY <1>1, <2>9 DEF Linked
<1>4. CASE UNCHANGED vars
  BY <1>1, <1>4 DEF vars, Linked
<1> QED BY <1>2, <1>3, <1>4 DEF Next

LEMMA AlwaysLinked == Spec /\ [][Calm]_vars => []Linked
<1>1. Init => Linked BY InitKept, InitWeb DEF Linked
<1> QED BY <1>1, NextLinked, PTL DEF Spec

-----------------------------------------------------------------------------
(* What a neighbour believes.                                              *)

(* m has a route over n that nothing limits.                               *)
LEMMA Believed ==
  ASSUME Linked, NEW n \in Router, NEW m \in Router, NEW d \in Dest \ {n},
         Up(n, m), Unlimited(router[m].seg[n].route[d])
  PROVE  /\ Up(m, n)
         /\ \/ \E i \in DOMAIN chan[n][m] : RifOf(chan[n][m][i], d)
            \/ router[n].seg[m].route[d].reported = router[m].seg[n].route[d].quality
<1> DEFINE p == router[n].seg[m]
<1> DEFINE q == router[m].seg[n]
<1> DEFINE c == chan[n][m]
<1>1. LinkInv(n, m, p, q, c, chan[m][n]) BY OtherEnd DEF Linked
<1>2. p.nbrl2l = "up" BY DEF Up, LinkState
<1>3. q.nbrl2l = "up" BY <1>1 DEF LinkInv, EndOf, Limited
<1>4. Open(p, q, c) BY <1>2, <1>3 DEF Open
<1>5. LastWord(n, p, q, c) BY <1>1, <1>4 DEF LinkInv
<1> HIDE DEF p, c
<1>6. \/ \E i \in DOMAIN c : RifOf(c[i], d)
      \/ p.route[d].reported = q.route[d].quality
  BY <1>5 DEF LastWord
<1> QED BY <1>3, <1>6 DEF p, c, Up, LinkState

LEMMA LinkedWithdrawable == Linked => Withdrawable
<1> SUFFICES ASSUME Linked, NEW n \in Router, NEW m \in Router, NEW d \in Dest \ {n},
                    Up(n, m), Unlimited(router[m].seg[n].route[d])
             PROVE  \/ router[n].seg[m].route[d].reported # 0
                    \/ \E i \in DOMAIN chan[n][m] :
                         LET f == chan[n][m][i] IN f.kind = "rif" /\ d \in DOMAIN f.rep
  BY DEF Withdrawable, Unlimited
<1>1. \/ \E i \in DOMAIN chan[n][m] : RifOf(chan[n][m][i], d)
      \/ router[n].seg[m].route[d].reported = router[m].seg[n].route[d].quality
  BY Believed
<1> QED BY <1>1 DEF RifOf, Unlimited

(* inform_peer() is silent only if the way is as good as reported.         *)
LEMMA SilentAnnounce ==
  ASSUME NEW p, p.quality \in Nat, NEW q \in Nat, NEW last \in Quality, last # 0,
         NEW hidden \in BOOLEAN, Announce(p, q, last, hidden, FALSE) = Skip
  PROVE  q # 0 /\ q <= last
<1>1. last \in Nat /\ last # DIRTY BY QualityNat DEF DIRTY, HORIZONT
<1>2. ASSUME NEW x \in Nat PROVE UWORD(x + x \div 8 + p.quality \div 2) \in Nat
  BY DEF UWORD
<1>3. CASE hidden BY <1>1, <1>3 DEF Announce, Skip
<1>4. CASE ~hidden
  <2> DEFINE worse == UWORD(q + q \div 8 + p.quality \div 2)
  <2>1. worse \in Nat BY <1>2
  <2> HIDE DEF worse
  <2>2. CASE q = last BY <2>2
  <2>3. CASE q # last /\ q = 0 BY <1>1, <1>4, <2>3 DEF Announce, Skip
  <2>4. CASE q # last /\ q # 0 /\ q < last BY <1>1, <2>4
  <2>5. CASE q # last /\ q # 0 /\ ~(q < last)
    <3>1. (IF worse > HORIZONT THEN 0 ELSE worse) = -1
      BY <1>1, <1>4, <2>5 DEF Announce, Skip, worse
    <3> QED BY <2>1, <3>1 DEF HORIZONT
  <2> QED BY <2>2, <2>3, <2>4, <2>5
<1> QED BY <1>3, <1>4

LEMMA LinkedWorseIsTold == Linked => WorseIsTold
<1> SUFFICES ASSUME Linked, NEW n \in Router, NEW m \in Router, NEW d \in Dest \ {n},
                    Told(n, m), Unlimited(router[m].seg[n].route[d])
             PROVE  LET best == BestQuality(router[n], d, Segments(router[n]))
                    IN  best # 0 /\ best <= router[m].seg[n].route[d].quality
  BY DEF WorseIsTold, Unlimited
<1> DEFINE r == router[n]
<1> DEFINE e == router[m].seg[n].route[d]
<1> DEFINE last == r.seg[m].route[d].reported
<1> DEFINE best == Best(r, d, Segments(r))
<1> DEFINE q == IF best.seg = m THEN 0 ELSE best.q
<1>1. Up(n, m) /\ chan[n][m] = <<>> /\ Announced(r, m, Hidden, FALSE) = {}
  BY DEF Told, MayReport
<1>2. Sound(n, r) /\ Sound(m, router[m]) BY LinkedRouter
<1>3. m \in Dest BY DEF Dest
<1>4. e.quality \in Quality /\ e.quality # 0 /\ d # m
  <2>1. Numbers(router[m].seg[n]) BY <1>2 DEF Sound, Dest
  <2>2. router[m].seg[n].route[m].quality = 0 BY <1>2 DEF Sound
  <2> QED BY <2>1, <2>2 DEF Numbers, Unlimited
<1>5. last = e.quality
  <2>1. \/ \E i \in DOMAIN chan[n][m] : RifOf(chan[n][m][i], d)
        \/ last = e.quality
    BY <1>1, Believed
  <2>2. DOMAIN chan[n][m] = {}
    <3>1. FineSeq(chan[n][m]) BY DEF Linked, Kept, Channels
    <3>2. DOMAIN chan[n][m] = 1 .. Len(chan[n][m]) /\ Len(chan[n][m]) = 0
      BY <1>1, <3>1, DomainOf
    <3> QED BY <3>2
  <2> QED BY <2>1, <2>2
<1>6. m \in Neighbour(n) /\ r.seg[m].used
  <2>1. m \in Neighbour(n) BY <1>1, OtherEnd DEF Linked, Up, LinkState
  <2> QED BY <1>2, <2>1 DEF Sound
<1>7. d \in r.known
  <2> HIDE DEF r, e
  <2>1. last # 0 BY <1>4, <1>5
  <2>2. \A x \in Dest \ r.known : r.seg[m].route[x].reported = 0
    BY <1>2, <1>3, <1>6 DEF Sound
  <2> QED BY <2>1, <2>2
<1>8. ToAnnounce(r, m, d, Hidden, FALSE) = Skip
  BY <1>1, <1>4, <1>7 DEF Announced
<1>9. Announce(r.seg[m], q, last, d \in Hidden, FALSE) = Skip BY <1>8 DEF ToAnnounce
<1>10. Segments(r) \in SUBSET Dest /\ m \in Segments(r) BY <1>3, <1>6 DEF Segments
<1>11. best.q \in Nat BY <1>2, <1>10, BestWay
<1>12. r.seg[m].quality \in Nat BY <1>2, <1>3 DEF Sound, Numbers
<1>13. q \in Nat BY <1>11
<1> HIDE DEF q, last, e, r
<1>14. q # 0 /\ q <= last
  <2>1. last \in Quality /\ last # 0 BY <1>4, <1>5
  <2>2. (d \in Hidden) \in BOOLEAN OBVIOUS
  <2>3. \A h \in BOOLEAN : Announce(r.seg[m], q, last, h, FALSE) = Skip => q # 0 /\ q <= last
    BY <1>12, <1>13, <2>1, SilentAnnounce
  <2> QED BY <1>9, <2>2, <2>3
<1>15. best.q # 0 /\ best.q <= e.quality BY <1>5, <1>14 DEF q
<1>16. BestQuality(r, d, Segments(r)) = best.q BY <1>10 DEF BestQuality
<1> QED BY <1>15, <1>16 DEF r, e

(* A route without a limit can be withdrawn: n remembers what it has       *)
(* reported as long as the neighbour believes it, through resets, lost     *)
(* frames, restarts and reports that cross (l3netrom.c:812).               *)
THEOREM AlwaysWithdrawable == Spec /\ [][Calm]_vars => []Withdrawable
BY AlwaysLinked, LinkedWithdrawable, PTL

(* Once it has heard all reports, a neighbour believes no node to be       *)
(* nearer than it is: the filters of inform_peer() leave out no change for *)
(* the worse (l3netrom.c:842, 852).                                        *)
THEOREM WorseAlwaysTold == Spec /\ [][Calm]_vars => []WorseIsTold
BY AlwaysLinked, LinkedWorseIsTold, PTL
=============================================================================
