-------------------------------- MODULE MCL3 --------------------------------
(***************************************************************************)
(* Networks of three nodes: a and b, b and c, in some runs a and c.        *)
(* d is a station that may be a LOCAL of node a.                           *)
(***************************************************************************)
EXTENDS L3Net, FiniteSetsExt

MCPos == [x \in Dest |-> CASE x = "a" -> 1 [] x = "b" -> 2 [] x = "c" -> 3 [] OTHER -> 4]
MCHome == [x \in Local |-> "a"]
Even == [n \in Router |-> [m \in Router |-> {3}]]
Uneven == [Even EXCEPT !["b"]["a"] = {3, 60}]
Chain == {<<"a", "b">>, <<"b", "c">>}
Triangle == {<<"a", "b">>, <<"b", "c">>, <<"a", "c">>}
Pair == {<<"a", "b">>}

(* A network that runs for a while: every link is up and measured, LOCAL   *)
(* segments are registered, and rounds of reports have been exchanged, by  *)
(* the operations of the code.                                             *)
WarmSegment(n, m) ==
  LET p1 == [EmptySegment EXCEPT !.used = TRUE, !.typ = "INP", !.nbrl2l = "up"]
      p2 == UpdatePeerQuality(UpdatePeerQuality(p1, Min(Rtt[n][m]), -1), Min(Rtt[n][m]), -1)
  IN UpdatePeerQuality(p2, -1, Smooth(0, Min(Rtt[m][n])))

WarmRouter(n) ==
  LET locals == {d \in Local : Home[d] = n}
      r0 == [EmptyRouter(n) EXCEPT !.seg = [s \in Dest |->
               IF s \in Neighbour(n) THEN WarmSegment(n, s) ELSE @[s]]]
      r1 == FoldSet(LAMBDA d, r : RegisterLocal(r, d), r0, locals)
  IN FoldSet(LAMBDA m, r : AddRoute(r, m, m, 1, 1), r1, Neighbour(n))

ReportRound(rs) ==
  LET sent(n) == FoldSet(LAMBDA m, r : InformPeer(r, m, Hidden, FALSE), rs[n], Neighbour(n))
      got(n) == FoldSet(LAMBDA m, r : RxReport(r, m, Report(rs[m], n, Hidden, FALSE)),
                        sent(n), Neighbour(n))
  IN [n \in Router |-> got(n)]

RECURSIVE ReportRounds(_, _)
ReportRounds(rs, k) == IF k = 0 THEN rs ELSE ReportRounds(ReportRound(rs), k - 1)

Warm ==
  Quiet /\ router = ReportRounds([n \in Router |-> WarmRouter(n)], Cardinality(Router) + 1)

WarmSpec == Warm /\ [][Next]_vars /\ Fairness
AnySpec == (Init \/ Warm) /\ [][Next]_vars /\ Fairness
=============================================================================
