----------------------------- MODULE MCConvers ------------------------------
(***************************************************************************)
(* Instances of Convers for TLC: hosts a, b and c, users u and v.          *)
(***************************************************************************)
EXTENDS Convers

CONSTANTS a, b, c, u, v

Line == {<<a, b>>, <<b, c>>}
Ring == {<<a, b>>, <<b, c>>, <<c, a>>}
AtTheEnds == {<<u, a, 1>>, <<v, c, 1>>}

(* What becomes of w when the hosts n and m have connected by the stream   *)
(* <<n, m>> and all lines have arrived, in one of the orders possible.     *)
Take(w, n, s) ==
  LET l == Head(w.q[s][n])
      r == [w EXCEPT !.q[s][n] = Tail(@)]
  IN CASE l.t = "convers" -> Ccpcvs(r, n, s)
       [] l.t = "HOST" /\ w.conn[n][s] = "unknown" -> HHost(r, n, s)
       [] l.t = "DEST" /\ ~IsLooped(w, n, Peer(s, n), l.h) -> HDest(r, n, s, l)
       [] l.t = "USER" /\ ~IsLooped(w, n, Peer(s, n), l.h) -> HUser(r, n, s, l)
       [] OTHER -> r

(* (With y = y TLC works out the whole of y.)                              *)
RECURSIVE Settle(_)
Settle(w) ==
  LET waiting == {x \in Host \X Stream : x[1] \in w.ends[x[2]] /\ w.q[x[2]][x[1]] # <<>>}
      x == CHOOSE x \in waiting : TRUE
  IN IF waiting = {} THEN w ELSE Settle(CHOOSE y \in {Take(w, x[1], x[2])} : y = y)

Connect(w, s) ==
  Settle([ConnectCvshost(w, s[1], {s}) EXCEPT
            !.ends[s] = {s[1], s[2]},
            !.q[s][s[2]] = <<[t |-> "convers"], [t |-> "HOST"]>>])

Warm(streams) == FoldSet(LAMBDA s, w : Connect(w, s), Unconnected(streams, AtTheEnds), Line)

(* What is left of the bounds.                                             *)
Left(events, messages, faults) ==
  [events |-> MaxEvents - events, messages |-> MaxMessages - messages, faults |-> MaxFaults - faults]

(* One user with many commands on two hosts; a line of hosts that is set   *)
(* up or up already; a line that is closed to a ring.                      *)
MCInit ==
  \/ Start(Unconnected({<<a, b>>}, {<<u, a, 1>>}), Left(3, 0, 1))
  \/ Start(Unconnected(Line, {<<u, a, 1>>}), Left(1, 0, 1))
  \/ Start(Unconnected(Line, AtTheEnds), Left(0, 1, 1))
  \/ Start(Warm(Line), Left(1, 1, 1))
  \/ Start(Warm(Ring), Left(0, 0, 0))
MCSpec == MCInit /\ [][Next]_vars /\ Fairness
=============================================================================
