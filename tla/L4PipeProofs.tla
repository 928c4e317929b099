---------------------------- MODULE L4PipeProofs ----------------------------
(***************************************************************************)
(* Level 4 implements L4Pipe over an ordered network.  Every step takes a  *)
(* World to a World: K, the circuits by their number, changes as Step says *)
(* (Opening, Meeting, Offering, Working, Ending), which is what L4Pipe     *)
(* calls Begin, Meet, Offer, Work and End.                                 *)
(*                                                                         *)
(* The registry h grows with the tables: a step from h leads to some g,    *)
(* Follows(h, g).                                                          *)
(***************************************************************************)
EXTENDS L4WorldProofs

-----------------------------------------------------------------------------
(* Tables.                                                                 *)

(* How the circuits K, taken messages G and offers M of I circuits may     *)
(* change in a step.                                                       *)
Others(K, L, s) == \A r \in Id : r # s => L[r] = K[r]

Opening(K, L, s) ==
  Others(K, L, s) /\ L[s].st # L4SDSCED /\ L[s].mbhdtx = <<>>

Meeting(K, L, s) ==
  /\ Others(K, L, s) /\ K[s].st = L4SLKSUP /\ L[s].st = L4SIXFER
  /\ L[s].mbhdtx = K[s].mbhdtx

Offering(K, L, M, O, s) ==
  /\ Others(K, L, s) /\ K[s].st # L4SDSCED
  /\ O = [M EXCEPT ![s] = @ + 1]
  /\ \E e : /\ e.m = [from |-> s, no |-> M[s] + 1] /\ Grows(K[s], L[s], e)

Working(K, L, G, H, s) ==
  /\ Others(K, L, s) /\ K[s].st # L4SDSCED /\ L[s].st # L4SDSCED /\ Mild(K[s], L[s])
  /\ \E a \in Seq(Message) : H = [G EXCEPT ![s] = @ \o a]

Ending(K, L) ==
  \A r \in Id : L[r] = K[r] \/ (L[r].st = L4SDSCED /\ L[r].mbhdtx = <<>>)

Step(K, L, G, H, M, O, I, J) ==
  \/ J = I + 1 /\ J \in Id /\ H = G /\ O = M /\ Opening(K, L, J)
  \/ J = I /\ H = G /\ O = M /\ \E s \in Id : Meeting(K, L, s)
  \/ J = I /\ H = G /\ \E s \in Id : Offering(K, L, M, O, s)
  \/ J = I /\ O = M /\ \E s \in Id : Working(K, L, G, H, s)
  \/ J = I /\ H = G /\ O = M /\ Ending(K, L)

LEMMA BlankIs ==
  /\ Blank.st = L4SDSCED /\ Blank.mbhdtx = <<>> /\ Blank \in Good
<1>1. Blank.st = L4SDSCED /\ Blank.mbhdtx = <<>> BY DEF Blank
<1> QED BY <1>1, BlankSound, GoodCircuit DEF Named

LEMMA OfType ==
  ASSUME NEW h \in [Id -> Reg], NEW C \in [Node -> [Index -> Good]]
  PROVE  Of(h, C) \in [Id -> Good]
<1> SUFFICES ASSUME NEW s \in Id
             PROVE  (IF C[h[s].n][h[s].i].st # L4SDSCED /\ C[h[s].n][h[s].i].ideige = s
                     THEN C[h[s].n][h[s].i] ELSE Blank) \in Good
  BY DEF Of
<1>1. h[s].n \in Node /\ h[s].i \in Index BY DEF Reg
<1>2. C[h[s].n][h[s].i] \in Good BY <1>1
<1> QED BY <1>2, BlankIs

LEMMA OfFunction ==
  ASSUME NEW h, NEW C
  PROVE  Of(h, C) = [s \in Id |-> Of(h, C)[s]]
<1> DEFINE F(s) == LET c == C[h[s].n][h[s].i]
                  IN  IF c.st # L4SDSCED /\ c.ideige = s THEN c ELSE Blank
<1>1. Of(h, C) = [s \in Id |-> F(s)] BY DEF Of
<1> HIDE DEF F
<1> QED BY <1>1

(* The circuit in entry i of node n has a number.                          *)
LEMMA Entered ==
  ASSUME NEW h \in [Id -> Reg], NEW C \in [Node -> [Index -> Good]], NEW I \in 0 .. MaxId,
         Registered(h, C, I), NEW n \in Node, NEW i \in Index, C[n][i].st # L4SDSCED
  PROVE  /\ C[n][i].ideige \in Id /\ C[n][i].ideige \in 1 .. I
         /\ h[C[n][i].ideige].n = n /\ h[C[n][i].ideige].i = i
         /\ Of(h, C)[C[n][i].ideige] = C[n][i]
<1> DEFINE s == C[n][i].ideige
<1>1. s \in 1 .. I /\ h[s].n = n /\ h[s].i = i BY DEF Registered
<1>2. s \in Id BY <1>1, BoundTypes DEF Id
<1>3. Of(h, C)[s] = C[n][i] BY <1>1, <1>2 DEF Of
<1> QED BY <1>1, <1>2, <1>3

(* One entry changes.                                                      *)
Changed(K, L, d) ==
  /\ \A r \in Id : r # d.ideige => L[r] = K[r]
  /\ L[d.ideige] = IF d.st # L4SDSCED THEN d ELSE Blank

LEMMA OfChanged ==
  ASSUME NEW h \in [Id -> Reg], NEW C \in [Node -> [Index -> Good]], NEW I \in 0 .. MaxId,
         Registered(h, C, I), NEW n \in Node, NEW i \in Index, C[n][i].st # L4SDSCED,
         NEW d, d.ideige = C[n][i].ideige, NEW D, D = [C EXCEPT ![n][i] = d]
  PROVE  Changed(Of(h, C), Of(h, D), d)
<1> DEFINE s == d.ideige
<1>1. /\ s \in Id /\ h[s].n = n /\ h[s].i = i BY Entered
<1>2. D[n][i] = d /\ \A m \in Node, j \in Index : m # n \/ j # i => D[m][j] = C[m][j]
  OBVIOUS
<1>3. Of(h, D)[s] = IF d.st # L4SDSCED THEN d ELSE Blank BY <1>1, <1>2 DEF Of
<1>4. ASSUME NEW r \in Id, r # s PROVE Of(h, D)[r] = Of(h, C)[r]
  <2>1. h[r].n \in Node /\ h[r].i \in Index BY DEF Reg
  <2>2. CASE h[r].n = n /\ h[r].i = i
    <3>1. Of(h, D)[r] = Blank BY <1>2, <1>4, <2>2 DEF Of
    <3>2. Of(h, C)[r] = Blank BY <1>4, <2>2 DEF Of
    <3> QED BY <3>1, <3>2
  <2>3. CASE h[r].n # n \/ h[r].i # i
    <3>1. D[h[r].n][h[r].i] = C[h[r].n][h[r].i] BY <1>2, <2>1, <2>3
    <3> QED BY <3>1 DEF Of
  <2> QED BY <2>2, <2>3
<1> QED BY <1>3, <1>4 DEF Changed

(* A handler has come to x, and x is stored.                               *)
LEMMA Lands ==
  ASSUME NEW h \in [Id -> Reg], NEW C \in [Node -> [Index -> Good]], NEW I \in 0 .. MaxId,
         Registered(h, C, I), NEW n \in Node, NEW i \in Index, C[n][i].st # L4SDSCED,
         NEW N, NEW G, NEW M, NEW x, Fine(h, Of(h, C), N, G, M, I, C[n][i].ideige, x),
         NEW D, D = [C EXCEPT ![n][i] = x.c]
  PROVE  /\ Registered(h, D, I)
         /\ World(h, Of(h, D), NAt(N, x), GAt(G, C[n][i].ideige, x), M, I)
         /\ Step(Of(h, C), Of(h, D), G, GAt(G, C[n][i].ideige, x), M, M, I, I)
<1> DEFINE s == C[n][i].ideige
           K == Of(h, C)
           L == Of(h, D)
           d == x.c
<1>1. /\ s \in Id /\ s \in 1 .. I /\ h[s].n = n /\ h[s].i = i /\ K[s] = C[n][i] BY Entered
<1>2. Fit(h, K, N, G, s, x) BY FineTypes
<1>3. /\ d.ideige = s /\ d \in Good /\ K \in [Id -> Good]
      /\ KAt(K, s, x) \in [Id -> Good] /\ KAt(K, s, x)[s] = d
      /\ (\A r \in Id : r # s => KAt(K, s, x)[r] = K[r])
  BY <1>2, OfType DEF Fit
<1>4. /\ World(h, KAt(K, s, x), NAt(N, x), GAt(G, s, x), M, I)
      /\ Mild(K[s], d) /\ (x.acc # <<>> => d.st # L4SDSCED)
  BY DEF Fine
<1>5. /\ \A r \in Id : r # s => L[r] = K[r]
      /\ L[s] = IF d.st # L4SDSCED THEN d ELSE Blank
  <2>1. Changed(Of(h, C), Of(h, D), d)
    <3>1. d.ideige = C[n][i].ideige BY <1>3
    <3> HIDE DEF d
    <3>2. D = [C EXCEPT ![n][i] = d] BY DEF d
    <3> QED BY <3>1, <3>2, OfChanged
  <2> QED BY <1>3, <2>1 DEF Changed
<1>6. /\ D[n][i] = d
      /\ \A m \in Node, j \in Index : m # n \/ j # i => D[m][j] = C[m][j]
  OBVIOUS
<1>7. d.st = L4SDSCED => d.mbhdtx = <<>> BY <1>1, <1>4, StatesDiffer DEF Mild
<1>8. Registered(h, D, I)
  <2> SUFFICES ASSUME NEW m \in Node, NEW j \in Index
               PROVE  IF D[m][j].st = L4SDSCED THEN D[m][j].mbhdtx = <<>>
                      ELSE /\ D[m][j].ideige \in 1 .. I
                           /\ h[D[m][j].ideige].n = m /\ h[D[m][j].ideige].i = j
    BY DEF Registered
  <2>1. CASE m = n /\ j = i BY <1>1, <1>3, <1>6, <1>7, <2>1
  <2>2. CASE m # n \/ j # i
    <3>1. D[m][j] = C[m][j] BY <1>6, <2>2
    <3> QED BY <3>1 DEF Registered
  <2> QED BY <2>1, <2>2
<1>9. L \in [Id -> Good]
  <2>1. L = [r \in Id |-> L[r]] BY OfFunction
  <2>2. \A r \in Id : L[r] \in Good BY <1>3, <1>5, BlankIs
  <2> HIDE DEF L
  <2> QED BY <2>1, <2>2
<1> HIDE DEF L, K, d, s
<1>10. World(h, L, NAt(N, x), GAt(G, s, x), M, I)
  <2>1. \A r \in Id : Weaker(KAt(K, s, x)[r], L[r])
    <3> SUFFICES ASSUME NEW r \in Id PROVE Weaker(KAt(K, s, x)[r], L[r]) OBVIOUS
    <3>1. CASE r = s /\ d.st = L4SDSCED
      <4>1. L[r].st = L4SDSCED BY <1>5, <3>1, BlankIs
      <4> QED BY <4>1 DEF Weaker
    <3>2. CASE ~(r = s /\ d.st = L4SDSCED)
      <4>1. L[r] = KAt(K, s, x)[r] BY <1>3, <1>5, <3>2
      <4> QED BY <4>1 DEF Weaker
    <3> QED BY <3>1, <3>2
  <2> QED BY <1>4, <1>9, <2>1, Weaken
<1>11. Step(K, L, G, GAt(G, s, x), M, M, I, I)
  <2>1. CASE d.st # L4SDSCED
    <3>1. x.acc \in Seq(Message) BY <1>2 DEF Fit
    <3>2. Working(K, L, G, GAt(G, s, x), s)
      BY <1>1, <1>4, <1>5, <2>1, <3>1 DEF Working, Others, GAt
    <3> QED BY <1>1, <3>2 DEF Step
  <2>2. CASE d.st = L4SDSCED
    <3>1. Ending(K, L)
      <4>1. L[s] = Blank BY <1>5, <2>2
      <4> QED BY <1>5, <4>1, BlankIs DEF Ending
    <3>2. GAt(G, s, x) = G
      <4>1. G[s] \in Seq(Message) BY <1>2 DEF Fit
      <4>2. G[s] \o <<>> = G[s] BY <4>1, ConcatEmptySeq
      <4>3. x.acc = <<>> BY <1>4, <2>2
      <4>4. G \in [Id -> Seq(Message)] BY DEF Fine, Types
      <4> QED BY <4>2, <4>3, <4>4 DEF GAt
    <3> QED BY <3>1, <3>2 DEF Step
  <2> QED BY <2>1, <2>2
<1> QED BY <1>8, <1>10, <1>11 DEF L, K, s

-----------------------------------------------------------------------------
(* The actions.                                                            *)

Here(h) ==
  /\ h \in [Id -> Reg] /\ Registered(h, cir, used.id)
  /\ World(h, Of(h, cir), net, got, used.msg, used.id)

(* A step from h to g.                                                     *)
Follows(h, g) ==
  /\ Here(g)'
  /\ Step(Of(h, cir), Of(g, cir'), got, got', used.msg, used'.msg, used.id, used'.id)

LEMMA InvTypes ==
  ASSUME Inv
  PROVE  /\ cir \in [Node -> [Index -> Good]] /\ net \in [Node -> Seq(Frame)]
         /\ got \in [Id -> Seq(Message)] /\ used.id \in 0 .. MaxId
         /\ used.msg \in [Id -> Nat]
BY DEF Inv, Circuits, Nets, Histories, Used

(* What is stored and sent.                                                *)
LEMMA BecameIs ==
  ASSUME Inv, NEW x, x.n \in Node, x.i \in Index, NEW rest, Became(x, rest),
         x.acc \in Seq(Message), x.c.ideige \in Id
  PROVE  /\ cir' = [cir EXCEPT ![x.n][x.i] = x.c]
         /\ rest = net[x.n] => net' = NAt(net, x)
         /\ rest = Tail(net[x.n]) => net' = NAt(After(net, x.n), x)
         /\ got' = GAt(got, x.c.ideige, x)
<1>1. /\ cir' = [cir EXCEPT ![x.n][x.i] = x.c]
      /\ net' = [net EXCEPT ![x.n] = rest, ![Peer(x.n)] = @ \o x.out]
      /\ got' = IF x.acc = <<>> THEN got ELSE [got EXCEPT ![x.c.ideige] = @ \o x.acc]
  BY DEF Became
<1>2. net \in [Node -> Seq(Frame)] /\ got \in [Id -> Seq(Message)] BY InvTypes
<1>3. Peer(x.n) \in Node /\ Peer(x.n) # x.n BY PeerType
<1>4. net' = [[net EXCEPT ![x.n] = rest] EXCEPT ![Peer(x.n)] = @ \o x.out] BY <1>1, <1>2, <1>3
<1>5. rest = net[x.n] => [net EXCEPT ![x.n] = rest] = net BY <1>2
<1>6. got' = GAt(got, x.c.ideige, x)
  <2>1. CASE x.acc # <<>> BY <1>1, <2>1 DEF GAt
  <2>2. CASE x.acc = <<>>
    <3>1. got[x.c.ideige] \o <<>> = got[x.c.ideige] BY <1>2, ConcatEmptySeq
    <3> QED BY <1>1, <1>2, <2>2, <3>1 DEF GAt
  <2> QED BY <2>1, <2>2
<1>7. rest = Tail(net[x.n]) => [net EXCEPT ![x.n] = rest] = After(net, x.n) BY DEF After
<1> QED BY <1>1, <1>4, <1>5, <1>6, <1>7 DEF NAt

LEMMA BecameWorld ==
  ASSUME Inv, NEW h, Here(h), NEW n \in Node, NEW i \in Index, cir[n][i].st # L4SDSCED,
         NEW N, NEW rest, (N = net /\ rest = net[n]) \/ (N = After(net, n) /\ rest = Tail(net[n])),
         NEW x, Fine(h, Of(h, cir), N, got, used.msg, used.id, cir[n][i].ideige, x),
         x.n = n, x.i = i, Became(x, rest), used'.msg = used.msg, used'.id = used.id
  PROVE  Follows(h, h)
<1> DEFINE s == cir[n][i].ideige
<1>1. /\ cir \in [Node -> [Index -> Good]] /\ used.id \in 0 .. MaxId BY InvTypes
<1>2. h \in [Id -> Reg] /\ Registered(h, cir, used.id) BY DEF Here
<1>3. Fit(h, Of(h, cir), N, got, s, x) BY FineTypes
<1>4. x.acc \in Seq(Message) /\ x.c.ideige = s /\ s \in Id BY <1>3 DEF Fit
<1>5. /\ cir' = [cir EXCEPT ![n][i] = x.c] /\ net' = NAt(N, x) /\ got' = GAt(got, s, x)
  BY <1>4, BecameIs
<1>6. /\ Registered(h, cir', used.id)
      /\ World(h, Of(h, cir'), NAt(N, x), GAt(got, s, x), used.msg, used.id)
      /\ Step(Of(h, cir), Of(h, cir'), got, GAt(got, s, x), used.msg, used.msg,
              used.id, used.id)
  BY <1>1, <1>2, <1>5, Lands
<1> QED BY <1>2, <1>5, <1>6 DEF Follows, Here

(* A circuit in use starts as it is.                                       *)
LEMMA Starts ==
  ASSUME Inv, NEW h, Here(h), NEW n \in Node, NEW i \in Index, cir[n][i].st # L4SDSCED,
         NEW N, World(h, Of(h, cir), N, got, used.msg, used.id)
  PROVE  /\ Fine(h, Of(h, cir), N, got, used.msg, used.id, cir[n][i].ideige, Context(n, i))
         /\ Context(n, i).acc = <<>> /\ Context(n, i).out = <<>> /\ Context(n, i).c = cir[n][i]
         /\ Context(n, i).n = n /\ Context(n, i).i = i /\ Ctx(Context(n, i))
<1> DEFINE s == cir[n][i].ideige
           x == Context(n, i)
<1>1. /\ cir \in [Node -> [Index -> Good]] /\ used.id \in 0 .. MaxId BY InvTypes
<1>2. h \in [Id -> Reg] /\ Registered(h, cir, used.id) BY DEF Here
<1>3. s \in Id /\ h[s].n = n /\ h[s].i = i /\ Of(h, cir)[s] = cir[n][i]
  BY <1>1, <1>2, Entered
<1>4. Ctx(x) /\ Sound(x.c) /\ x.c = cir[n][i] /\ x.n = n /\ x.i = i /\ x.acc = <<>>
  BY ContextType
<1>5. x.out = <<>> BY DEF Context
<1> HIDE DEF x
<1>6. Fine(h, Of(h, cir), N, got, used.msg, used.id, s, x)
  BY <1>3, <1>4, <1>5, FineStart
<1> QED BY <1>4, <1>5, <1>6 DEF x

LEMMA DisconnectWorld ==
  ASSUME Inv, NEW h, Here(h), NEW n \in Node, NEW i \in Index, Disconnect(n, i)
  PROVE  Follows(h, h)
<1> DEFINE x == Context(n, i)
           c == x.c
           d == [c EXCEPT !.l4flag = @ \cup {"DSLE"}, !.numrx = 0]
           e == [c EXCEPT !.l4flag = @ \cup {"DIMM"}]
           f == [ConAck(x) EXCEPT !.choke = TRUE]
           y == IF c.st = L4SIXFER THEN [x EXCEPT !.c = d] ELSE Send([x EXCEPT !.c = e], f)
           s == cir[n][i].ideige
<1>1. cir[n][i].st # L4SDSCED /\ used'.msg = used.msg /\ used'.id = used.id
  <2>1. used \in Used BY DEF Inv
  <2> QED BY <2>1 DEF Disconnect, Use, Used
<1>2. World(h, Of(h, cir), net, got, used.msg, used.id) BY DEF Here
<1>3. /\ Fine(h, Of(h, cir), net, got, used.msg, used.id, s, x)
      /\ x.acc = <<>> /\ x.n = n /\ x.i = i /\ Ctx(x) /\ x.c = cir[n][i]
  BY <1>1, <1>2, Starts
<1>4. Sound(c) /\ Shaped(c) /\ c.l4flag \in SUBSET Flags
  <2>1. Sound(c) BY ContextType
  <2> QED BY <2>1 DEF Sound, Shaped, Typed
<1>5. Done(y)
  <2>1. IsRec(x, ContextFields) /\ IsRec(c, CircuitFields) BY <1>3, <1>4 DEF Ctx, Shaped
  <2>2. [[x EXCEPT !.c.l4flag = @ \cup {"DSLE"}] EXCEPT !.c.numrx = 0] = [x EXCEPT !.c = d]
    BY <2>1 DEF IsRec, ContextFields, CircuitFields
  <2>3. [x EXCEPT !.c.l4flag = @ \cup {"DIMM"}] = [x EXCEPT !.c = e]
    BY <2>1 DEF IsRec, ContextFields, CircuitFields
  <2> HIDE DEF x, d, e, f
  <2> QED BY <2>2, <2>3 DEF Disconnect, x, f
<1>6. f \in Frame /\ ~Token(f) /\ ~Carries(f)
  <2>1. f \in Frame BY <1>3, ConAckType
  <2>2. f.op = "CONACK" /\ f.choke = TRUE BY DEF ConAck, ToPartner, Header
  <2> QED BY <2>1, <2>2 DEF Token, Carries
<1>7. Sound(d) /\ Sound(e) /\ d.ideige = c.ideige /\ e.ideige = c.ideige
  <2>1. Alike(c, [c EXCEPT !.l4flag = c.l4flag \cup {"DSLE"}, !.numrx = 0])
    BY <1>4, BusyAlike DEF Flags
  <2>2. Alike(c, [c EXCEPT !.l4flag = c.l4flag \cup {"DIMM"}])
    BY <1>4, BusyAlike DEF Flags
  <2>3. Alike(c, d) /\ Alike(c, e) BY <2>1, <2>2
  <2> HIDE DEF d, e, c
  <2> QED BY <1>4, <2>3, AlikeSound DEF Alike
<1>8. Weaker(c, d) /\ Weaker(c, e) /\ d.st = c.st /\ e.st = c.st
  <2>1. /\ d.st = c.st /\ d.idpart = c.idpart /\ d.idxpar = c.idxpar
        /\ d.mbhdtx = c.mbhdtx /\ d.window = c.window /\ d.mbhdos = c.mbhdos
        /\ d.l4rxvs = c.l4rxvs /\ d.l4vr = c.l4vr
        /\ e.st = c.st /\ e.idpart = c.idpart /\ e.idxpar = c.idxpar
        /\ e.mbhdtx = c.mbhdtx /\ e.window = c.window /\ e.mbhdos = c.mbhdos
        /\ e.l4rxvs = c.l4rxvs /\ e.l4vr = c.l4vr
    BY <1>4 DEF Shaped, IsRec, CircuitFields
  <2> HIDE DEF d, e, c
  <2> QED BY <2>1 DEF Weaker
<1>9. d.st # L4SDSCED /\ e.st # L4SDSCED BY <1>1, <1>3, <1>8
<1> HIDE DEF d, e, f, x
<1>10. Fine(h, Of(h, cir), net, got, used.msg, used.id, s, [x EXCEPT !.c = d])
  BY <1>3, <1>7, <1>8, <1>9, FineTell
<1>11. Fine(h, Of(h, cir), net, got, used.msg, used.id, s, Send([x EXCEPT !.c = e], f))
  BY <1>3, <1>6, <1>7, <1>8, <1>9, FineTell
<1>12. Fine(h, Of(h, cir), net, got, used.msg, used.id, s, y) BY <1>10, <1>11
<1>13. y.n = n /\ y.i = i
  BY <1>3 DEF Send, Ctx, IsRec, ContextFields
<1> HIDE DEF y
<1>14. Became(y, net[n]) BY <1>5, <1>13 DEF Done
<1> QED BY <1>1, <1>12, <1>13, <1>14, BecameWorld

LEMMA RestWorld ==
  ASSUME Inv, NEW h, Here(h), NEW n \in Node, NEW i \in Index,
         NEW k \in 0 .. cir[n][i].numrx, NEW mem, NEW early, Rest(n, i, k, mem, early)
  PROVE  Follows(h, h)
<1> DEFINE x == Context(n, i)
           y == L4rest(x, k, mem, early)
           s == cir[n][i].ideige
<1>1. cir[n][i].st # L4SDSCED /\ used'.msg = used.msg /\ used'.id = used.id /\ Done(y)
  <2>1. used \in Used BY DEF Inv
  <2> HIDE DEF y
  <2>2. cir[n][i].st # L4SDSCED /\ Done(y) BY DEF Rest, Acted, y
  <2>3. IF mem = "low" THEN Use("low") ELSE UNCHANGED used BY DEF Rest
  <2>4. used'.msg = used.msg /\ used'.id = used.id BY <2>1, <2>3 DEF Use, Used
  <2> QED BY <2>2, <2>4
<1>2. World(h, Of(h, cir), net, got, used.msg, used.id) BY DEF Here
<1>3. /\ Fine(h, Of(h, cir), net, got, used.msg, used.id, s, x)
      /\ x.acc = <<>> /\ x.n = n /\ x.i = i /\ Ctx(x) /\ x.c = cir[n][i]
  BY <1>1, <1>2, Starts
<1>4. Sound(x.c) BY ContextType
<1> HIDE DEF x
<1>5. x.c.st # L4SDSCED /\ k \in 0 .. x.c.numrx BY <1>1, <1>3
<1>6. Fine(h, Of(h, cir), net, got, used.msg, used.id, s, y) BY <1>3, <1>5, FineRest
<1>7. y.n = n /\ y.i = i BY <1>3, <1>4, <1>5, L4restSound DEF Result
<1> HIDE DEF y
<1>8. Became(y, net[n]) BY <1>1, <1>7 DEF Done
<1> QED BY <1>1, <1>6, <1>7, <1>8, BecameWorld

-----------------------------------------------------------------------------
(* A caller asks again: nothing of its circuit is under way.               *)
LEMMA FineAsks ==
  ASSUME NEW h, NEW K, NEW N, NEW G, NEW M, NEW I, NEW s, NEW x,
         Fine(h, K, N, G, M, I, s, x), NEW c, Sound(c), c.ideige = x.c.ideige,
         Weaker(x.c, c), c.st = L4SLKSUP, h[s].p = 0,
         \A k \in Node : \A j \in 1 .. Len(NAt(N, x)[k]) :
           Token(NAt(N, x)[k][j]) => NAt(N, x)[k][j].id # s,
         NEW f \in Frame, f.op = "CONREQ", f.id = s, f.idx = h[s].i
  PROVE  Fine(h, K, N, G, M, I, s, Send([x EXCEPT !.c = c], f))
<1> DEFINE y == [x EXCEPT !.c = c]
           z == Send(y, f)
<1>0. Fit(h, K, N, G, s, x) BY FineTypes
<1>1. Ctx(x) /\ Shaped(c) BY <1>0 DEF Fit, Sound
<1>2. Ctx(y) /\ y.c = c /\ y.out = x.out /\ y.acc = x.acc /\ y.n = x.n /\ y.i = x.i
  BY <1>1, SetCircuit
<1>3. Fine(h, K, N, G, M, I, s, y)
  <2>1. c.st = L4SDSCED => c.mbhdtx = <<>> /\ x.acc = <<>> BY StatesDiffer
  <2> QED BY <2>1, FineTell
<1> HIDE DEF y
<1>4. Ctx(z) /\ z.c = c /\ z.n = x.n /\ z.i = x.i BY <1>2, SendType
<1>5. z.out = Append(x.out, f) /\ z.acc = x.acc BY <1>2 DEF Send, Ctx, IsRec, ContextFields
<1> HIDE DEF z
<1>6. Fit(h, K, N, G, s, y) BY <1>3, FineTypes
<1>7. World(h, KAt(K, s, y), NAt(N, y), GAt(G, s, y), M, I) BY <1>3 DEF Fine
<1>8. NAt(N, y) = NAt(N, x) BY <1>2 DEF NAt
<1>9. /\ Types(h, K, N, G, M, I) /\ s \in Id /\ x.n = h[s].n /\ x.i = h[s].i
      /\ x.c.ideige = s /\ (x.acc # <<>> => x.c.st # L4SDSCED)
  BY DEF Fine
<1>10. World(h, KAt(K, s, y), Then(NAt(N, y), Peer(h[s].n), f), GAt(G, s, y), M, I)
  <2>1. KAt(K, s, y)[s].st = L4SLKSUP BY <1>2, <1>6 DEF Fit
  <2>2. \A k \in Node : \A j \in 1 .. Len(NAt(N, y)[k]) :
          Token(NAt(N, y)[k][j]) => NAt(N, y)[k][j].id # s
    BY <1>8
  <2>3. s \in Id BY <1>9
  <2> HIDE DEF KAt, NAt, GAt
  <2> QED BY <1>7, <2>1, <2>2, <2>3, Requested
<1>11. Then(NAt(N, y), Peer(h[s].n), f) = NAt(N, z)
  <2> DEFINE p == Peer(x.n)
  <2>1. p \in Node /\ N \in [Node -> Seq(Frame)] /\ x.out \in Seq(Frame) /\ N[p] \in Seq(Frame)
    BY <1>0, <1>9 DEF Fit, Types
  <2>2. NAt(N, y) = [N EXCEPT ![p] = N[p] \o x.out] BY <1>2 DEF NAt
  <2>3. NAt(N, z) = [N EXCEPT ![p] = N[p] \o Append(x.out, f)] BY <1>4, <1>5 DEF NAt
  <2>4. N[p] \o Append(x.out, f) = Append(N[p] \o x.out, f)
    <3> HIDE DEF p
    <3>1. Associative(N[p], x.out, <<f>>)
      <4>1. <<f>> \in Seq(Frame) OBVIOUS
      <4> QED BY <2>1, <4>1, Association
    <3>2. /\ Append(x.out, f) = x.out \o <<f>>
          /\ Append(N[p] \o x.out, f) = (N[p] \o x.out) \o <<f>>
      BY <2>1, AppendIsConcat, ConcatProperties
    <3> QED BY <3>1, <3>2 DEF Associative
  <2> HIDE DEF p
  <2>5. Then(NAt(N, y), p, f) = [N EXCEPT ![p] = Append(N[p] \o x.out, f)]
    BY <2>1, <2>2 DEF Then
  <2> QED BY <1>9, <2>3, <2>4, <2>5 DEF p
<1>12. KAt(K, s, y) = KAt(K, s, z) /\ GAt(G, s, y) = GAt(G, s, z)
  BY <1>2, <1>4, <1>5 DEF KAt, GAt
<1>13. Mild(K[s], c) BY <1>2, <1>3 DEF Fine
<1>14. World(h, KAt(K, s, z), NAt(N, z), GAt(G, s, z), M, I)
  BY <1>10, <1>11, <1>12
<1>15. Fine(h, K, N, G, M, I, s, z)
  BY <1>4, <1>5, <1>9, <1>13, <1>14, StatesDiffer DEF Fine
<1> QED BY <1>15 DEF z, y

(* traout of a caller runs out.                                            *)
LEMMA FineRequest ==
  ASSUME NEW h, NEW K, NEW N, NEW G, NEW M, NEW I, NEW s, NEW x,
         Fine(h, K, N, G, M, I, s, x), x.c.st = L4SLKSUP, Tries(x.c) < Retry, h[s].p = 0,
         \A k \in Node : \A j \in 1 .. Len(NAt(N, x)[k]) :
           Token(NAt(N, x)[k][j]) => NAt(N, x)[k][j].id # s
  PROVE  Fine(h, K, N, G, M, I, s, Timeout(x))
<1>0. Fit(h, K, N, G, s, x) BY FineTypes
<1>1. Ctx(x) /\ Shaped(x.c) /\ Sound(x.c) BY <1>0 DEF Fit
<1>2. Result(x, Timeout(x)) BY <1>1, TimeoutSound
<1> DEFINE c == [x.c EXCEPT !.traout = FALSE]
           b == [c EXCEPT !.l4try = Tries(c)]
           y == [x EXCEPT !.c = b]
           d == [b EXCEPT !.traout = TRUE]
           f == [Header("CONREQ", x.i, x.c.ideige) EXCEPT !.win = Trawir[x.n]]
<1>3. Shaped(c) /\ c.st = x.c.st /\ c.ideige = x.c.ideige BY <1>1, TimerType
<1>4. Tries(c) = Tries(x.c) BY <1>1 DEF Tries, Shaped, IsRec, CircuitFields
<1>5. Timeout(x) = SConrq(y)
  <2>1. Tries(x.c) \in Int
    <3>1. x.c.l4try \in 0 .. 127 BY <1>1 DEF Shaped, Typed
    <3>2. \A a \in 0 .. 127 : a + 1 \in Int OBVIOUS
    <3> QED BY <3>1, <3>2 DEF Tries
  <2>2. ~(Tries(x.c) >= Retry) BY <2>1, RetryAssumption
  <2> QED BY <1>3, <1>4, <2>2, StatesDiffer DEF Timeout
<1>6. /\ b.st = x.c.st /\ b.idpart = x.c.idpart /\ b.idxpar = x.c.idxpar
      /\ b.mbhdtx = x.c.mbhdtx /\ b.ideige = x.c.ideige
  BY <1>1, <1>3 DEF Shaped, IsRec, CircuitFields
<1>7. IsRec(b, CircuitFields) /\ IsRec(x, ContextFields)
  BY <1>1, <1>3 DEF Shaped, Ctx, IsRec, CircuitFields
<1> HIDE DEF b
<1>8. /\ d.st = x.c.st /\ d.idpart = x.c.idpart /\ d.idxpar = x.c.idxpar
      /\ d.mbhdtx = x.c.mbhdtx
  BY <1>6, <1>7 DEF IsRec, CircuitFields
<1>9. SConrq(y) = Send([x EXCEPT !.c = d], f) /\ SConrq(y).c = d
  <2>1. y.i = x.i /\ y.n = x.n /\ y.c = b BY <1>7 DEF IsRec, ContextFields
  <2>2. [y EXCEPT !.c.traout = TRUE] = [x EXCEPT !.c = d]
    BY <1>7 DEF IsRec, ContextFields
  <2>3. SConrq(y) = Send([x EXCEPT !.c = d], f) BY <1>6, <2>1, <2>2 DEF SConrq
  <2>4. [x EXCEPT !.c = d].c = d BY <1>7 DEF IsRec, ContextFields
  <2>5. \A z : z = [x EXCEPT !.c = d] => Send(z, f).c = z.c
    BY <1>7 DEF Send, IsRec, ContextFields
  <2> QED BY <2>3, <2>4, <2>5
<1>10. f \in Frame /\ f.op = "CONREQ" /\ f.id = x.c.ideige /\ f.idx = x.i
  <2> DEFINE e == Header("CONREQ", x.i, x.c.ideige)
  <2>1. x.i \in 0 .. NumCir /\ x.c.ideige \in 0 .. MaxId
    BY <1>1 DEF Ctx, Shaped, Typed, Index
  <2>2. e \in Datagram /\ e.op = "CONREQ" /\ e.id = x.c.ideige /\ e.idx = x.i
    BY <2>1, HeaderType DEF Opcode, Header
  <2>3. Trawir[x.n] \in 1 .. Mod - 1 BY <1>1, WindowAssumption DEF Ctx
  <2> HIDE DEF e
  <2>4. [e EXCEPT !.win = Trawir[x.n]] \in Frame BY <2>2, <2>3 DEF Frame, Datagram
  <2>5. LET g == [e EXCEPT !.win = Trawir[x.n]]
        IN g.op = "CONREQ" /\ g.id = x.c.ideige /\ g.idx = x.i
    BY <2>2 DEF Datagram
  <2> QED BY <2>4, <2>5 DEF e
<1> HIDE DEF f, d
<1>11. Sound(d) /\ d.ideige = x.c.ideige BY <1>2, <1>5, <1>9 DEF Result
<1>12. Weaker(x.c, d) BY <1>8, StatesDiffer DEF Weaker
<1>13. d.st = L4SLKSUP /\ x.c.ideige = s /\ x.i = h[s].i BY <1>8 DEF Fine
<1>14. f.id = s /\ f.idx = h[s].i BY <1>10, <1>13
<1>15. Fine(h, K, N, G, M, I, s, Send([x EXCEPT !.c = d], f))
  BY <1>10, <1>11, <1>12, <1>13, <1>14, FineAsks
<1> QED BY <1>5, <1>9, <1>15

LEMMA SecondWorld ==
  ASSUME OrderedNetwork, Inv, NEW h, Here(h), NEW n \in Node, NEW i \in Index,
         NEW due \in SUBSET Due(n, i), NEW open \in Open(n, i), Second(n, i, due, open)
  PROVE  Follows(h, h)
<1> DEFINE x == Context(n, i)
           t == [due |-> due, open |-> open]
           y == Trasrv(x, t)
           s == cir[n][i].ideige
           K == Of(h, cir)
<1>1. used \in Used BY DEF Inv
<1>2. "tranoa" \notin due
  <2>1. used.idle \in Nat BY <1>1 DEF Used
  <2>2. ~(used.idle < MaxIdle) BY <2>1 DEF OrderedNetwork
  <2> QED BY <2>2 DEF Due
<1>3. cir[n][i].st # L4SDSCED /\ used'.msg = used.msg /\ used'.id = used.id /\ Done(y)
  BY <1>2 DEF Second, Acted
<1>4. World(h, K, net, got, used.msg, used.id) BY DEF Here
<1>5. /\ Fine(h, K, net, got, used.msg, used.id, s, x)
      /\ x.acc = <<>> /\ x.n = n /\ x.i = i /\ Ctx(x) /\ x.c = cir[n][i] /\ x.out = <<>>
  BY <1>3, <1>4, Starts
<1>6. Sound(x.c) BY ContextType
<1>7. x.c.st = L4SIXFER /\ open # 0 => open \in 1 .. Fropen(x.c)
  <2>1. Fropen(x.c) \in 0 .. Mod - 1 BY <1>6, FropenType DEF Sound
  <2>2. open = 0 \/ open \in 0 .. Fropen(x.c) BY <1>5 DEF Open
  <2> QED BY <2>1, <2>2, ModType
<1>8. t.due = due /\ t.open = open OBVIOUS
<1> HIDE DEF x, t
<1>9. ASSUME "traout" \in due, x.c.traout, x.c.st = L4SLKSUP, Tries(x.c) < Retry
      PROVE  Fine(h, K, net, got, used.msg, used.id, s, y)
  <2>1. y = Timeout(x) BY <1>8, <1>9, <1>2, StatesDiffer DEF Trasrv
  <2>2. \A k \in Node : net[k] = <<>> BY <1>9 DEF Due, Quiet, OrderedNetwork
  <2>3. s \in Id /\ h[s].n = n /\ K[s] = cir[n][i]
    <3>1. /\ cir \in [Node -> [Index -> Good]] /\ used.id \in 0 .. MaxId BY InvTypes
    <3>2. h \in [Id -> Reg] /\ Registered(h, cir, used.id) BY DEF Here
    <3> QED BY <1>3, <3>1, <3>2, Entered
  <2>4. h[s].p = 0
    <3>1. Agreed(h, K, net, s) BY <1>4, <2>3 DEF World
    <3>2. K[s].st = L4SLKSUP BY <1>5, <1>9, <2>3
    <3>3. h[s].n \in Node /\ net[h[s].n] = <<>> BY <2>2, <2>3
    <3>4. ~\E j \in 1 .. Len(net[h[s].n]) : Opens(net[h[s].n][j], s) BY <3>3
    <3> QED BY <3>1, <3>2, <3>4 DEF Agreed
  <2>5. NAt(net, x) = net
    <3>1. net \in [Node -> Seq(Frame)] BY InvTypes
    <3>2. net[Peer(x.n)] \o <<>> = net[Peer(x.n)] BY <1>5, <3>1, PeerType, ConcatEmptySeq
    <3> QED BY <1>5, <3>1, <3>2 DEF NAt
  <2>6. \A k \in Node : \A j \in 1 .. Len(NAt(net, x)[k]) :
          Token(NAt(net, x)[k][j]) => NAt(net, x)[k][j].id # s
    BY <2>2, <2>5
  <2> HIDE DEF K, s
  <2>7. Fine(h, K, net, got, used.msg, used.id, s, Timeout(x))
    BY <1>5, <1>9, <2>4, <2>6, FineRequest
  <2> QED BY <2>1, <2>7
<1>10. ASSUME ~("traout" \in due /\ x.c.traout /\ x.c.st = L4SLKSUP /\ Tries(x.c) < Retry)
       PROVE  Fine(h, K, net, got, used.msg, used.id, s, y)
  BY <1>2, <1>3, <1>5, <1>7, <1>8, <1>10, FineTrasrv
<1>11. Fine(h, K, net, got, used.msg, used.id, s, y) BY <1>9, <1>10
<1>12. y.n = n /\ y.i = i
  <2>1. x.c.st = L4SIXFER /\ t.open # 0 => t.open \in 1 .. Fropen(x.c) BY <1>7, <1>8
  <2>2. Result(x, y) BY <1>5, <1>6, <2>1, TrasrvSound
  <2> QED BY <1>5, <2>2 DEF Result
<1> HIDE DEF y
<1>13. Became(y, net[n]) BY <1>3, <1>12 DEF Done
<1> QED BY <1>3, <1>11, <1>12, <1>13, BecameWorld DEF K, s

-----------------------------------------------------------------------------
(* What l4tx sends.                                                        *)
TxFrame(c, j) ==
  [WithAck(IF j = 1 THEN c ELSE AckSent(c), ToPartner(c, "INFTRA"))
     EXCEPT !.a = (c.l4vs + j - 1) % Mod, !.m = c.mbhdtx[Fropen(c) + j].m]

LEMMA CanSendIs ==
  ASSUME NEW c, Sound(c), CanSend(c) > 0
  PROVE  /\ CanSend(c) \in Nat /\ CanSend(c) # 0 /\ c.st = L4SIXFER
         /\ Fropen(c) \in Nat /\ Len(c.mbhdtx) \in Nat /\ c.window \in Nat
         /\ Fropen(c) + CanSend(c) <= Len(c.mbhdtx)
         /\ Fropen(c) + CanSend(c) <= c.window
<1> DEFINE n == CanSend(c)
           open == Fropen(c)
           k == Least(Len(c.mbhdtx), c.window) - open
<1>1. /\ Len(c.mbhdtx) \in Nat /\ c.window \in Nat /\ open \in Nat
  <2>1. c.mbhdtx \in Seq(Entry) /\ c.window \in 1 .. Mod - 1 /\ Shaped(c)
    BY DEF Sound, Shaped, Typed
  <2>2. open \in 0 .. Mod - 1 BY <2>1, FropenType
  <2> QED BY <2>1, <2>2, LenProperties, ModType
<1>2. k \in Int /\ open + k <= Len(c.mbhdtx) /\ open + k <= c.window BY <1>1 DEF Least
<1>3. n = IF c.st # L4SIXFER \/ "PBUSY" \in c.l4flag \/ k < 0 THEN 0 ELSE k BY DEF CanSend
<1>4. n > 0 OBVIOUS
<1> HIDE DEF k, n, open
<1>5. ~(c.st # L4SIXFER \/ "PBUSY" \in c.l4flag \/ k < 0) BY <1>3, <1>4
<1>6. n = k BY <1>3, <1>5
<1>7. n \in Nat /\ n # 0 BY <1>2, <1>4, <1>6
<1> QED BY <1>1, <1>2, <1>5, <1>6, <1>7 DEF n, open

LEMMA L4txIs ==
  ASSUME NEW x, Ctx(x), Sound(x.c), CanSend(x.c) > 0
  PROVE  /\ L4tx(x).out = [j \in 1 .. CanSend(x.c) |-> TxFrame(x.c, j)]
         /\ Weaker(x.c, L4tx(x).c) /\ L4tx(x).c.st = x.c.st
<1> DEFINE c == x.c
           n == CanSend(c)
           open == Fropen(c)
           new(j) == j \in open + 1 .. open + n
           tx == [j \in 1 .. Len(c.mbhdtx) |->
                    [c.mbhdtx[j] EXCEPT !.l4trie = IF new(j) THEN 0 ELSE @]]
           ack == AckSent(c)
           d == [ack EXCEPT !.l4vs = (@ + n) % Mod, !.mbhdtx = tx]
           out == [j \in 1 .. n |-> TxFrame(c, j)]
<1>1. IsRec(c, CircuitFields) /\ Shaped(c) /\ IsRec(x, ContextFields) BY DEF Sound, Shaped, Ctx
<1>2. /\ n \in Nat /\ n # 0 /\ c.st = L4SIXFER BY CanSendIs
<1>3. L4tx(x) = [x EXCEPT !.out = out, !.c = d] BY <1>2 DEF L4tx, TxFrame
<1>4. IsRec(ack, CircuitFields) BY <1>1, AckSentAlike DEF Alike, Shaped
<1>5. /\ ack.st = c.st /\ ack.idpart = c.idpart /\ ack.idxpar = c.idxpar
      /\ ack.window = c.window /\ ack.mbhdos = c.mbhdos
      /\ ack.l4rxvs = c.l4rxvs /\ ack.l4vr = c.l4vr
  BY <1>1 DEF AckSent, IsRec, CircuitFields
<1> HIDE DEF ack
<1>6. tx \in Seq(Entry) /\ Len(tx) = Len(c.mbhdtx) /\ \A j \in 1 .. Len(c.mbhdtx) : tx[j].m = c.mbhdtx[j].m
  <2>1. c.mbhdtx \in Seq(Entry) /\ Len(c.mbhdtx) \in Nat BY <1>1, LenProperties DEF Shaped, Typed
  <2>2. ASSUME NEW j \in 1 .. Len(c.mbhdtx)
        PROVE  tx[j] \in Entry /\ tx[j].m = c.mbhdtx[j].m
    <3> DEFINE g == c.mbhdtx[j]
               tries == IF new(j) THEN 0 ELSE g.l4trie
    <3>1. g \in Entry BY <2>1, ElementOfSeq
    <3>2. tx[j] = [g EXCEPT !.l4trie = tries] OBVIOUS
    <3> HIDE DEF g, tx, new
    <3>3. tries \in 0 .. 127 BY <3>1 DEF Entry
    <3> HIDE DEF tries
    <3> QED BY <3>1, <3>2, <3>3 DEF Entry, g
  <2>3. tx = [j \in 1 .. Len(c.mbhdtx) |-> tx[j]] OBVIOUS
  <2> HIDE DEF tx
  <2>4. tx \in [1 .. Len(c.mbhdtx) -> Entry] BY <2>2, <2>3
  <2>5. tx \in Seq(Entry) /\ Len(tx) = Len(c.mbhdtx) BY <2>1, <2>4, FunctionSeq
  <2> QED BY <2>2, <2>5
<1> HIDE DEF tx
<1>7. /\ d.st = c.st /\ d.idpart = c.idpart /\ d.idxpar = c.idxpar
      /\ d.window = c.window /\ d.mbhdos = c.mbhdos /\ d.mbhdtx = tx
      /\ d.l4rxvs = c.l4rxvs /\ d.l4vr = c.l4vr
  BY <1>4, <1>5 DEF IsRec, CircuitFields
<1> HIDE DEF d, out
<1>8. L4tx(x).out = out /\ L4tx(x).c = d BY <1>1, <1>3 DEF IsRec, ContextFields
<1> HIDE DEF c
<1>9. Weaker(c, d) BY <1>6, <1>7 DEF Weaker
<1> QED BY <1>7, <1>8, <1>9 DEF c, out

(* l4vs is as far from l4rxvs as messages are open.                        *)
LEMMA NextSeq ==
  ASSUME NEW c, Shaped(c), NEW j \in Nat
  PROVE  (c.l4vs + j - 1) % Mod = (c.l4rxvs + (Fropen(c) + j) - 1) % Mod
<1> DEFINE a == c.l4vs
           b == c.l4rxvs
<1>1. a \in Int /\ b \in Int BY ModType DEF Shaped, Typed
<1> HIDE DEF a, b
<1>2. (((a - b) % Mod) + (b + j - 1)) % Mod = ((a - b) + (b + j - 1)) % Mod
  <2>1. a - b \in Int /\ b + j - 1 \in Int BY <1>1
  <2> QED BY <2>1, ModInt
<1>3. (a - b) + (b + j - 1) = a + j - 1 BY <1>1
<1>4. (a - b) % Mod \in Int
  <2>1. a - b \in Int BY <1>1
  <2> QED BY <2>1, ModInt
<1>5. ASSUME NEW o \in Int PROVE o + (b + j - 1) = b + (o + j) - 1 BY <1>1
<1>6. ((a - b) % Mod) + (b + j - 1) = b + (((a - b) % Mod) + j) - 1 BY <1>4, <1>5
<1> QED BY <1>2, <1>3, <1>6 DEF a, b, Fropen

LEMMA FairTx ==
  ASSUME NEW h, NEW K, NEW N, NEW G, NEW M, NEW I, World(h, K, N, G, M, I),
         NEW s \in Id, Sound(K[s]), CanSend(K[s]) > 0, NEW j \in 1 .. CanSend(K[s])
  PROVE  Fair(h, K, G, M, s, TxFrame(K[s], j))
<1> DEFINE c == K[s]
           d == IF j = 1 THEN c ELSE AckSent(c)
           k == Fropen(c) + j
<1>1. Shaped(c) BY DEF Sound
<1>2. /\ CanSend(c) \in Nat /\ c.st = L4SIXFER
      /\ Fropen(c) \in Nat /\ Len(c.mbhdtx) \in Nat /\ c.window \in Nat
      /\ Fropen(c) + CanSend(c) <= Len(c.mbhdtx)
      /\ Fropen(c) + CanSend(c) <= c.window
  BY CanSendIs
<1>3. k \in 1 .. Len(c.mbhdtx) /\ k <= c.window /\ j \in Nat BY <1>2
<1>4. d.l4vr = c.l4vr BY <1>1, AckSentWeaker
<1>5. (c.l4vs + j - 1) % Mod = (c.l4rxvs + k - 1) % Mod BY <1>1, <1>3, NextSeq
<1> HIDE DEF d, k
<1>6. \A i \in 1 .. Len(c.mbhdtx) : i <= c.window =>
        Fair(h, K, G, M, s,
             [WithAck(d, ToPartner(c, "INFTRA"))
                EXCEPT !.a = (c.l4rxvs + i - 1) % Mod, !.m = c.mbhdtx[i].m])
  BY <1>2, <1>4, FairFrames DEF IsUp
<1>7. Fair(h, K, G, M, s,
           [WithAck(d, ToPartner(c, "INFTRA"))
              EXCEPT !.a = (c.l4rxvs + k - 1) % Mod, !.m = c.mbhdtx[k].m])
  BY <1>3, <1>6
<1> QED BY <1>5, <1>7 DEF TxFrame, d, k

LEMMA FineTx ==
  ASSUME NEW h, NEW K, NEW N, NEW G, NEW M, NEW I, NEW s, NEW x,
         Fine(h, K, N, G, M, I, s, x), x.out = <<>>, CanSend(x.c) > 0
  PROVE  Fine(h, K, N, G, M, I, s, L4tx(x))
<1> DEFINE y == L4tx(x)
           L == KAt(K, s, x)
           P == NAt(N, x)
           H == GAt(G, s, x)
<1>0. Fit(h, K, N, G, s, x) BY FineTypes
<1>1. Ctx(x) /\ Sound(x.c) /\ L[s] = x.c /\ s \in Id BY <1>0 DEF Fit
<1>2. x.c.st = L4SIXFER BY <1>1, CanSendIs
<1>3. Result(x, y) /\ y.acc = x.acc BY <1>1, <1>2, L4txSound, StatesDiffer
<1>4. /\ y.out = [j \in 1 .. CanSend(x.c) |-> TxFrame(x.c, j)]
      /\ Weaker(x.c, y.c) /\ y.c.st = x.c.st
  BY <1>1, L4txIs
<1> HIDE DEF y
<1>5. y.out \in Seq(Frame) /\ Len(y.out) = CanSend(x.c)
  <2>1. y.out \in Seq(Frame) BY <1>3 DEF Result, Ctx
  <2>2. DOMAIN y.out = 1 .. Len(y.out) /\ Len(y.out) \in Nat BY <2>1, LenProperties
  <2>3. DOMAIN y.out = 1 .. CanSend(x.c) BY <1>4
  <2>4. CanSend(x.c) \in Nat BY <1>1, CanSendIs
  <2>5. \A a, b \in Nat : 1 .. a = 1 .. b => a = b
    <3> SUFFICES ASSUME NEW a \in Nat, NEW b \in Nat, 1 .. a = 1 .. b PROVE a = b OBVIOUS
    <3>1. (a >= 1 => a \in 1 .. a) /\ (b >= 1 => b \in 1 .. b) OBVIOUS
    <3>2. (a >= 1 => a \in 1 .. b) /\ (b >= 1 => b \in 1 .. a) BY <3>1
    <3> QED BY <3>2
  <2> QED BY <2>1, <2>2, <2>3, <2>4, <2>5
<1>6. World(h, L, P, H, M, I) BY DEF Fine
<1>7. \A j \in 1 .. Len(y.out) : Fair(h, L, H, M, s, y.out[j])
  <2> SUFFICES ASSUME NEW j \in 1 .. Len(y.out) PROVE Fair(h, L, H, M, s, y.out[j]) OBVIOUS
  <2>1. y.out[j] = TxFrame(L[s], j) /\ j \in 1 .. CanSend(L[s]) BY <1>1, <1>4, <1>5
  <2>2. Sound(L[s]) /\ CanSend(L[s]) > 0 BY <1>1
  <2> HIDE DEF L, P, H
  <2> QED BY <1>1, <1>6, <2>1, <2>2, FairTx
<1> HIDE DEF L, P, H
<1>8. World(h, L, [P EXCEPT ![Peer(h[s].n)] = @ \o y.out], H, M, I)
  BY <1>1, <1>5, <1>6, <1>7, Post
<1>9. [P EXCEPT ![Peer(h[s].n)] = @ \o y.out] = NAt(N, y)
  <2>1. /\ x.n = h[s].n /\ Peer(x.n) \in Node /\ N[Peer(x.n)] \in Seq(Frame) BY <1>0 DEF Fit
  <2>2. N \in [Node -> Seq(Frame)] BY DEF Fine, Types
  <2>3. N[Peer(x.n)] \o <<>> = N[Peer(x.n)] BY <2>1, ConcatEmptySeq
  <2>4. P = N BY <2>1, <2>2, <2>3 DEF P, NAt
  <2>5. y.n = x.n BY <1>3 DEF Result
  <2> QED BY <2>1, <2>4, <2>5 DEF NAt
<1>10. /\ Types(h, K, N, G, M, I) /\ x.n = h[s].n /\ x.i = h[s].i /\ x.c.ideige = s
       /\ Mild(K[s], x.c) /\ (x.acc # <<>> => x.c.st # L4SDSCED)
  BY DEF Fine
<1>11. y.c.ideige = s /\ y.n = h[s].n /\ y.i = h[s].i /\ Ctx(y) /\ Sound(y.c)
  BY <1>3, <1>10 DEF Result
<1>12. y.c \in Good
  <2>1. Named(y.c) BY <1>1, <1>11 DEF Named, Id
  <2> QED BY <1>11, <2>1, GoodCircuit
<1>13. KAt(K, s, y) \in [Id -> Good] BY <1>10, <1>12 DEF KAt, Types
<1>14. \A r \in Id : Weaker(L[r], KAt(K, s, y)[r])
  <2> SUFFICES ASSUME NEW r \in Id PROVE Weaker(L[r], KAt(K, s, y)[r]) OBVIOUS
  <2>1. CASE r = s BY <1>1, <1>4, <1>10, <2>1 DEF KAt, Types
  <2>2. CASE r # s
    <3>1. KAt(K, s, y)[r] = L[r] BY <1>10, <2>2 DEF KAt, L, Types
    <3> QED BY <3>1 DEF Weaker
  <2> QED BY <2>1, <2>2
<1>15. GAt(G, s, y) = H BY <1>3 DEF GAt, H
<1>16. World(h, KAt(K, s, y), NAt(N, y), GAt(G, s, y), M, I)
  <2> DEFINE L2 == KAt(K, s, y)
             P2 == NAt(N, y)
  <2>1. World(h, L, P2, H, M, I) BY <1>8, <1>9
  <2>2. L2 \in [Id -> Good] /\ \A r \in Id : Weaker(L[r], L2[r]) BY <1>13, <1>14
  <2> HIDE DEF L2, P2
  <2>3. World(h, L2, P2, H, M, I) BY <2>1, <2>2, Weaken
  <2> QED BY <1>15, <2>3 DEF L2, P2
<1>17. Mild(K[s], y.c)
  <2>1. K[s].mbhdtx \in Seq(Entry) BY <1>1, <1>10 DEF Types, Good, Sound, Shaped, Typed
  <2>2. x.c.mbhdtx \in Seq(Entry) /\ y.c.mbhdtx \in Seq(Entry)
    BY <1>1, <1>11 DEF Sound, Shaped, Typed
  <2>3. Mild(x.c, y.c) BY <1>2, <1>4, <2>2, MildSame, StatesDiffer
  <2> QED BY <1>10, <2>1, <2>2, <2>3, MildTwice
<1>18. Fine(h, K, N, G, M, I, s, y)
  BY <1>1, <1>2, <1>3, <1>4, <1>10, <1>11, <1>16, <1>17, StatesDiffer DEF Fine
<1> QED BY <1>18 DEF y

LEMMA TxWorld ==
  ASSUME Inv, NEW h, Here(h), NEW n \in Node, NEW i \in Index, Tx(n, i)
  PROVE  Follows(h, h)
<1> DEFINE x == Context(n, i)
           y == L4tx(x)
           s == cir[n][i].ideige
<1>1. CanSend(cir[n][i]) > 0 /\ used'.msg = used.msg /\ used'.id = used.id /\ Done(y)
  BY DEF Tx
<1>2. Sound(x.c) /\ x.c = cir[n][i] /\ Ctx(x) BY ContextType
<1>3. cir[n][i].st # L4SDSCED BY <1>1, <1>2, CanSendIs, StatesDiffer
<1>4. World(h, Of(h, cir), net, got, used.msg, used.id) BY DEF Here
<1>5. /\ Fine(h, Of(h, cir), net, got, used.msg, used.id, s, x)
      /\ x.n = n /\ x.i = i /\ x.out = <<>>
  BY <1>3, <1>4, Starts
<1> HIDE DEF x
<1>6. Fine(h, Of(h, cir), net, got, used.msg, used.id, s, y) BY <1>1, <1>2, <1>5, FineTx
<1>7. y.n = n /\ y.i = i BY <1>2, <1>3, <1>5, L4txSound DEF Result
<1> HIDE DEF y
<1>8. Became(y, net[n]) BY <1>1, <1>7 DEF Done
<1> QED BY <1>1, <1>3, <1>6, <1>7, <1>8, BecameWorld

-----------------------------------------------------------------------------
(* Level 7 and the network.                                                *)

LEMMA InvTypesNext ==
  ASSUME Inv'
  PROVE  /\ cir' \in [Node -> [Index -> Good]] /\ net' \in [Node -> Seq(Frame)]
         /\ got' \in [Id -> Seq(Message)] /\ used'.id \in 0 .. MaxId
         /\ used'.msg \in [Id -> Nat]
BY DEF Inv, Circuits, Nets, Histories, Used

(* A circuit is stored where h says.                                       *)
LEMMA Entering ==
  ASSUME NEW h \in [Id -> Reg], NEW C \in [Node -> [Index -> Good]], NEW I,
         Registered(h, C, I), NEW n \in Node, NEW i \in Index,
         NEW d, IF d.st = L4SDSCED THEN d.mbhdtx = <<>>
                ELSE d.ideige \in 1 .. I /\ h[d.ideige].n = n /\ h[d.ideige].i = i,
         NEW D, D = [C EXCEPT ![n][i] = d]
  PROVE  Registered(h, D, I)
<1> SUFFICES ASSUME NEW m \in Node, NEW j \in Index
             PROVE  IF D[m][j].st = L4SDSCED THEN D[m][j].mbhdtx = <<>>
                    ELSE /\ D[m][j].ideige \in 1 .. I
                         /\ h[D[m][j].ideige].n = m /\ h[D[m][j].ideige].i = j
  BY DEF Registered
<1>1. CASE m = n /\ j = i
  <2>1. D[m][j] = d BY <1>1
  <2> QED BY <1>1, <2>1
<1>2. CASE m # n \/ j # i
  <2>1. D[m][j] = C[m][j] BY <1>2
  <2> QED BY <2>1 DEF Registered
<1> QED BY <1>1, <1>2

LEMMA OneChanged ==
  ASSUME NEW K \in [Id -> Good], NEW L \in [Id -> Good], NEW s \in Id, NEW d,
         d.ideige = s, d.st # L4SDSCED, Changed(K, L, d)
  PROVE  L = [K EXCEPT ![s] = d]
BY DEF Changed

(* Only circuits that end differ.                                          *)
Fewer(K, L) == \A r \in Id : L[r] = K[r] \/ L[r] = Blank

LEMMA FewerWorld ==
  ASSUME NEW h, NEW K, NEW N, NEW G, NEW M, NEW I, World(h, K, N, G, M, I),
         NEW L \in [Id -> Good], Fewer(K, L)
  PROVE  World(h, L, N, G, M, I) /\ Step(K, L, G, G, M, M, I, I)
<1>1. \A r \in Id : Weaker(K[r], L[r])
  <2> SUFFICES ASSUME NEW r \in Id PROVE Weaker(K[r], L[r]) OBVIOUS
  <2>1. CASE L[r] = K[r] BY <2>1 DEF Weaker
  <2>2. CASE L[r] = Blank BY <2>2, BlankIs DEF Weaker
  <2> QED BY <2>1, <2>2 DEF Fewer
<1>2. World(h, L, N, G, M, I) BY <1>1, Weaken
<1>3. Ending(K, L) BY BlankIs DEF Ending, Fewer
<1> QED BY <1>2, <1>3 DEF Step

LEMMA RestartWorld ==
  ASSUME Inv, Inv', NEW h, Here(h), NEW n \in Node, Restart(n)
  PROVE  Follows(h, h)
<1> DEFINE K == Of(h, cir)
           L == Of(h, cir')
<1>1. /\ cir' = [cir EXCEPT ![n] = [i \in Index |-> Blank]] /\ net' = net /\ got' = got
      /\ used'.msg = used.msg /\ used'.id = used.id
  <2>1. used \in Used BY DEF Inv
  <2> QED BY <2>1 DEF Restart, Use, Used
<1>2. cir \in [Node -> [Index -> Good]] /\ cir' \in [Node -> [Index -> Good]]
  BY InvTypes, InvTypesNext
<1>3. /\ h \in [Id -> Reg] /\ Registered(h, cir, used.id)
      /\ World(h, K, net, got, used.msg, used.id)
  BY DEF Here
<1>4. L \in [Id -> Good] BY <1>2, <1>3, OfType
<1>5. Fewer(K, L)
  <2> SUFFICES ASSUME NEW r \in Id PROVE L[r] = K[r] \/ L[r] = Blank BY DEF Fewer
  <2>1. h[r].n \in Node /\ h[r].i \in Index BY <1>3 DEF Reg
  <2>2. CASE h[r].n = n
    <3>1. cir'[h[r].n][h[r].i] = Blank BY <1>1, <1>2, <2>1, <2>2
    <3>2. L[r] = Blank BY <3>1, BlankIs DEF Of
    <3> QED BY <3>2
  <2>3. CASE h[r].n # n
    <3>1. cir'[h[r].n] = cir[h[r].n] BY <1>1, <1>2, <2>1, <2>3
    <3>2. L[r] = K[r] BY <3>1 DEF Of
    <3> QED BY <3>2
  <2> QED BY <2>2, <2>3
<1>6. Registered(h, cir', used.id)
  <2> SUFFICES ASSUME NEW m \in Node, NEW j \in Index
               PROVE  IF cir'[m][j].st = L4SDSCED THEN cir'[m][j].mbhdtx = <<>>
                      ELSE /\ cir'[m][j].ideige \in 1 .. used.id
                           /\ h[cir'[m][j].ideige].n = m /\ h[cir'[m][j].ideige].i = j
    BY DEF Registered
  <2>1. CASE m = n
    <3>1. cir'[m][j] = Blank BY <1>1, <1>2, <2>1
    <3> QED BY <3>1, BlankIs
  <2>2. CASE m # n
    <3>1. cir'[m] = cir[m] BY <1>1, <1>2, <2>2
    <3> QED BY <1>3, <3>1 DEF Registered
  <2> QED BY <2>1, <2>2
<1> HIDE DEF K, L
<1>7. /\ World(h, L, net, got, used.msg, used.id)
      /\ Step(K, L, got, got, used.msg, used.msg, used.id, used.id)
  BY <1>3, <1>4, <1>5, FewerWorld
<1> QED BY <1>1, <1>3, <1>6, <1>7 DEF Follows, Here, K, L

LEMMA OfSame ==
  ASSUME NEW h \in [Id -> Reg], NEW g \in [Id -> Reg],
         \A r \in Id : g[r].n = h[r].n /\ g[r].i = h[r].i, NEW C
  PROVE  Of(g, C) = Of(h, C)
BY DEF Of

LEMMA LoseWorld ==
  ASSUME Inv, NEW h, Here(h), NEW n \in Node, Lose(n)
  PROVE  \E g : Follows(h, g)
<1> DEFINE K == Of(h, cir)
<1>1. /\ net[n] # <<>> /\ cir' = cir /\ net' = After(net, n) /\ got' = got
      /\ used'.msg = used.msg /\ used'.id = used.id
  <2>1. used \in Used BY DEF Inv
  <2> QED BY <2>1 DEF Lose, Use, Used, After
<1>2. /\ h \in [Id -> Reg] /\ Registered(h, cir, used.id)
      /\ World(h, K, net, got, used.msg, used.id)
  BY DEF Here
<1>3. cir \in [Node -> [Index -> Good]] BY InvTypes
<1>4. K \in [Id -> Good] BY <1>2, <1>3, OfType
<1>5. ASSUME NEW g \in [Id -> Reg], \A r \in Id : g[r].n = h[r].n /\ g[r].i = h[r].i,
             World(g, K, After(net, n), got, used.msg, used.id)
      PROVE  Follows(h, g)
  <2>1. Of(g, cir) = K BY <1>2, <1>5, OfSame
  <2>2. Registered(g, cir, used.id)
    <3> SUFFICES ASSUME NEW m \in Node, NEW j \in Index
                 PROVE  IF cir[m][j].st = L4SDSCED THEN cir[m][j].mbhdtx = <<>>
                        ELSE /\ cir[m][j].ideige \in 1 .. used.id
                             /\ g[cir[m][j].ideige].n = m /\ g[cir[m][j].ideige].i = j
      BY DEF Registered
    <3>1. cir[m][j].st # L4SDSCED => cir[m][j].ideige \in Id
      <4>1. used.id \in 0 .. MaxId BY InvTypes
      <4> QED BY <1>2, <1>3, <4>1, Entered
    <3> QED BY <1>2, <1>5, <3>1 DEF Registered
  <2>3. Ending(K, K) BY DEF Ending
  <2> HIDE DEF K
  <2>4. Step(K, K, got, got, used.msg, used.msg, used.id, used.id) BY <2>3 DEF Step
  <2>5. Here(g)' BY <1>1, <1>5, <2>1, <2>2 DEF Here
  <2> QED BY <1>1, <2>1, <2>4, <2>5 DEF Follows, K
<1>6. CASE \E t \in Id : Opens(Head(net[n]), t)
  <2> PICK t \in Id : Opens(Head(net[n]), t) BY <1>6
  <2>1. PICK g : g = [h EXCEPT ![t].p = 0] OBVIOUS
  <2>2. g \in [Id -> Reg] /\ \A r \in Id : g[r].n = h[r].n /\ g[r].i = h[r].i
    <3>1. 0 \in 0 .. MaxId BY BoundTypes
    <3> QED BY <1>2, <2>1, <3>1 DEF Reg
  <2> HIDE DEF K
  <2>3. World(g, K, After(net, n), got, used.msg, used.id) BY <1>1, <1>2, <2>1, Forgotten
  <2> QED BY <1>5, <2>2, <2>3
<1>7. CASE ~ \E t \in Id : Opens(Head(net[n]), t)
  <2> HIDE DEF K
  <2>1. World(h, K, After(net, n), got, used.msg, used.id) BY <1>1, <1>2, <1>4, <1>7, Read
  <2> QED BY <1>2, <1>5, <2>1
<1> QED BY <1>6, <1>7

LEMMA QueueWorld ==
  ASSUME Inv, Inv', NEW h, Here(h), NEW n \in Node, NEW i \in Index, Queue(n, i)
  PROVE  Follows(h, h)
<1> DEFINE c == cir[n][i]
           s == c.ideige
           K == Of(h, cir)
           L == Of(h, cir')
           e == [m |-> [from |-> s, no |-> used.msg[s] + 1], l4trie |-> 0]
           tx == Append(c.mbhdtx, e)
           flag == IF Len(tx) >= TxCut THEN c.l4flag \cup {"DIMM"} ELSE c.l4flag
           d == [c EXCEPT !.mbhdtx = tx, !.l4flag = flag]
           x == Context(n, i)
           y == [x EXCEPT !.c = d]
<1>1. c.st # L4SDSCED /\ Done(y) /\ used' = [used EXCEPT !.msg[s] = @ + 1] BY DEF Queue
<1>2. /\ cir \in [Node -> [Index -> Good]] /\ cir' \in [Node -> [Index -> Good]]
      /\ net \in [Node -> Seq(Frame)] /\ got \in [Id -> Seq(Message)]
      /\ used.id \in 0 .. MaxId /\ used.msg \in [Id -> Nat] /\ used \in Used
  BY InvTypes, InvTypesNext DEF Inv
<1>3. /\ h \in [Id -> Reg] /\ Registered(h, cir, used.id)
      /\ World(h, K, net, got, used.msg, used.id)
  BY DEF Here
<1>4. /\ s \in Id /\ s \in 1 .. used.id /\ h[s].n = n /\ h[s].i = i /\ K[s] = c
  <2>1. cir \in [Node -> [Index -> Good]] /\ used.id \in 0 .. MaxId BY <1>2
  <2>2. h \in [Id -> Reg] /\ Registered(h, cir, used.id) /\ c.st # L4SDSCED BY <1>1, <1>3
  <2> QED BY <2>1, <2>2, Entered
<1>5. K \in [Id -> Good] /\ L \in [Id -> Good] BY <1>2, <1>3, OfType
<1>6. used'.id = used.id /\ used'.msg = [used.msg EXCEPT ![s] = @ + 1]
  BY <1>1, <1>2 DEF Used
<1>7. Shaped(c) /\ IsRec(c, CircuitFields)
  <2>1. c \in Good BY <1>2
  <2> QED BY <2>1 DEF Good, Sound, Shaped
<1>8. /\ d.st = c.st /\ d.idpart = c.idpart /\ d.idxpar = c.idxpar
      /\ d.window = c.window /\ d.mbhdos = c.mbhdos /\ d.mbhdtx = tx
      /\ d.l4rxvs = c.l4rxvs /\ d.l4vr = c.l4vr /\ d.ideige = s
  BY <1>7 DEF IsRec, CircuitFields
<1>9. Ctx(x) /\ x.n = n /\ x.i = i /\ x.c = c /\ x.acc = <<>> /\ x.out = <<>>
  BY ContextType DEF Context
<1> HIDE DEF d, x
<1>10. y.n = n /\ y.i = i /\ y.c = d /\ y.acc = <<>> /\ y.out = <<>>
  BY <1>9 DEF Ctx, IsRec, ContextFields
<1> HIDE DEF y
<1>11. cir' = [cir EXCEPT ![n][i] = d] /\ net' = net /\ got' = got
  <2>1. net[Peer(n)] \o <<>> = net[Peer(n)] BY <1>2, PeerType, ConcatEmptySeq
  <2> QED BY <1>1, <1>2, <1>10, <2>1, PeerType DEF Done, Became
<1>12. Changed(K, L, d)
  <2>1. d.ideige = cir[n][i].ideige BY <1>8
  <2> QED BY <1>1, <1>2, <1>3, <1>11, <2>1, OfChanged
<1>13. d.st # L4SDSCED /\ d.ideige = s BY <1>1, <1>8
<1>14. Grows(K[s], d, e)
  <2> HIDE DEF K, e
  <2> QED BY <1>4, <1>8 DEF Grows
<1>15. e.m = [from |-> s, no |-> used.msg[s] + 1] OBVIOUS
<1>16. Registered(h, cir', used.id)
  <2>1. IF d.st = L4SDSCED THEN d.mbhdtx = <<>>
        ELSE d.ideige \in 1 .. used.id /\ h[d.ideige].n = n /\ h[d.ideige].i = i
    BY <1>4, <1>13
  <2> QED BY <1>2, <1>3, <1>11, <2>1, Entering
<1> HIDE DEF K, L, e, s
<1>17. L = [K EXCEPT ![s] = d] BY <1>4, <1>5, <1>12, <1>13, OneChanged
<1>18. d \in Good BY <1>4, <1>5, <1>17
<1>19. World(h, L, net, got, used'.msg, used.id)
  <2>1. K[s].st # L4SDSCED BY <1>1, <1>4
  <2>2. World(h, [K EXCEPT ![s] = d], net, got, [used.msg EXCEPT ![s] = @ + 1], used.id)
    BY <1>3, <1>4, <1>14, <1>15, <1>18, <2>1, Offered
  <2> QED BY <1>6, <1>17, <2>2
<1>20. Offering(K, L, used.msg, used'.msg, s)
  <2>1. Others(K, L, s) BY <1>4, <1>5, <1>17 DEF Others
  <2>2. L[s] = d BY <1>4, <1>5, <1>17
  <2>3. K[s].st # L4SDSCED BY <1>1, <1>4
  <2> QED BY <1>6, <1>14, <1>15, <2>1, <2>2, <2>3 DEF Offering
<1>21. Step(K, L, got, got, used.msg, used'.msg, used.id, used.id) BY <1>4, <1>20 DEF Step
<1> QED BY <1>3, <1>6, <1>11, <1>16, <1>19, <1>21 DEF Follows, Here, K, L

-----------------------------------------------------------------------------
(* Circuits open.                                                          *)

(* A new circuit s in a free entry.                                        *)
Enters(h, C, I, n, i, s, d, g, D) ==
  /\ h \in [Id -> Reg] /\ C \in [Node -> [Index -> Good]] /\ I \in 0 .. MaxId
  /\ Registered(h, C, I) /\ n \in Node /\ i \in Index /\ C[n][i].st = L4SDSCED
  /\ s \in Id /\ s = I + 1 /\ d.st # L4SDSCED /\ d.ideige = s
  /\ g \in [Id -> Reg] /\ \A r \in Id : r # s => g[r].n = h[r].n /\ g[r].i = h[r].i
  /\ g[s].n = n /\ g[s].i = i /\ D = [C EXCEPT ![n][i] = d]

LEMMA OfNew ==
  ASSUME NEW h, NEW C, NEW I, NEW n, NEW i, NEW s, NEW d, NEW g, NEW D,
         Enters(h, C, I, n, i, s, d, g, D)
  PROVE  Changed(Of(h, C), Of(g, D), d) /\ Registered(g, D, I + 1)
<1> USE DEF Enters
<1>1. D[n][i] = d /\ \A m \in Node, j \in Index : m # n \/ j # i => D[m][j] = C[m][j]
  OBVIOUS
<1>2. Of(g, D)[s] = d BY <1>1 DEF Of
<1>3. ASSUME NEW r \in Id, r # s PROVE Of(g, D)[r] = Of(h, C)[r]
  <2>1. h[r].n \in Node /\ h[r].i \in Index BY DEF Reg
  <2>2. CASE h[r].n = n /\ h[r].i = i
    <3>1. Of(g, D)[r] = Blank BY <1>1, <1>3, <2>2 DEF Of
    <3>2. Of(h, C)[r] = Blank BY <2>2 DEF Of
    <3> QED BY <3>1, <3>2
  <2>3. CASE h[r].n # n \/ h[r].i # i
    <3>1. D[h[r].n][h[r].i] = C[h[r].n][h[r].i] BY <1>1, <2>1, <2>3
    <3> QED BY <1>3, <3>1 DEF Of
  <2> QED BY <2>2, <2>3
<1>4. Changed(Of(h, C), Of(g, D), d) BY <1>2, <1>3 DEF Changed
<1>5. Registered(g, C, I + 1)
  <2> SUFFICES ASSUME NEW m \in Node, NEW j \in Index
               PROVE  IF C[m][j].st = L4SDSCED THEN C[m][j].mbhdtx = <<>>
                      ELSE /\ C[m][j].ideige \in 1 .. I + 1
                           /\ g[C[m][j].ideige].n = m /\ g[C[m][j].ideige].i = j
    BY DEF Registered
  <2>1. CASE C[m][j].st = L4SDSCED BY <2>1 DEF Registered
  <2>2. CASE C[m][j].st # L4SDSCED
    <3> DEFINE r == C[m][j].ideige
    <3>1. r \in 1 .. I /\ h[r].n = m /\ h[r].i = j BY <2>2 DEF Registered
    <3>2. r \in Id /\ r # s /\ r \in 1 .. I + 1 BY <3>1, BoundTypes DEF Id
    <3> QED BY <2>2, <3>1, <3>2
  <2> QED BY <2>1, <2>2
<1>6. Registered(g, D, I + 1)
  <2>1. s \in 1 .. I + 1 BY DEF Id
  <2>2. IF d.st = L4SDSCED THEN d.mbhdtx = <<>>
        ELSE d.ideige \in 1 .. I + 1 /\ g[d.ideige].n = n /\ g[d.ideige].i = i
    BY <2>1
  <2> QED BY <1>5, <2>2, Entering
<1> QED BY <1>4, <1>6

LEMMA FreeType ==
  ASSUME NEW n, Free(n) # {}
  PROVE  FirstFree(n) \in Index /\ cir[n][FirstFree(n)].st = L4SDSCED
<1>1. Free(n) \subseteq Nat BY DEF Free, Index
<1>2. \E i \in Free(n) : \A j \in Free(n) : i <= j BY <1>1, MinExists
<1>3. FirstFree(n) \in Free(n) BY <1>2 DEF FirstFree
<1> QED BY <1>3 DEF Free

(* What a caller stores and sends.                                         *)
LEMMA ConnectIs ==
  ASSUME Inv, NEW n \in Node, Connect(n)
  PROVE  LET i == FirstFree(n)
         IN  /\ i \in Index /\ cir[n][i].st = L4SDSCED /\ used.id < MaxId
             /\ used'.id = used.id + 1 /\ used'.msg = used.msg /\ got' = got
             /\ \E d, f :
                  /\ cir' = [cir EXCEPT ![n][i] = d]
                  /\ d.st = L4SLKSUP /\ d.ideige = used.id + 1
                  /\ d.mbhdtx = cir[n][i].mbhdtx
                  /\ f \in Frame /\ f.op = "CONREQ" /\ f.id = used.id + 1 /\ f.idx = i
                  /\ net' = [net EXCEPT ![Peer(n)] = Append(@, f)]
<1> DEFINE i == FirstFree(n)
           c0 == ClrCir(cir[n][i])
           b == [c0 EXCEPT !.ideige = used.id + 1, !.st = L4SLKSUP]
           x0 == Context(n, i)
           x == [x0 EXCEPT !.c = b]
           d == [b EXCEPT !.traout = TRUE]
           f == [Header("CONREQ", i, used.id + 1) EXCEPT !.win = Trawir[n]]
           y == SConrq(x)
<1>1. /\ Free(n) # {} /\ used.id < MaxId /\ Done(y)
      /\ used' = [used EXCEPT !.connect = @ + 1, !.id = @ + 1]
  BY DEF Connect
<1>2. i \in Index /\ cir[n][i].st = L4SDSCED BY <1>1, FreeType
<1>3. used \in Used BY DEF Inv
<1>4. used'.id = used.id + 1 /\ used'.msg = used.msg BY <1>1, <1>3 DEF Used
<1>5. used.id + 1 \in 0 .. MaxId /\ used.id + 1 # 0 BY <1>1, <1>3, UseId
<1> HIDE DEF i
<1>6. /\ Ctx(x0) /\ Shaped(cir[n][i]) /\ x0.n = n /\ x0.i = i /\ x0.acc = <<>> /\ x0.out = <<>>
  BY <1>2, ContextType DEF Context
<1> HIDE DEF x0
<1>7. IsRec(c0, CircuitFields) /\ c0.mbhdtx = cir[n][i].mbhdtx
  BY <1>6, ClrCirShaped DEF Shaped
<1> HIDE DEF c0
<1>8. /\ IsRec(b, CircuitFields) /\ b.st = L4SLKSUP /\ b.ideige = used.id + 1
      /\ b.mbhdtx = c0.mbhdtx
  BY <1>7 DEF IsRec, CircuitFields
<1> HIDE DEF b
<1>9. d.st = L4SLKSUP /\ d.ideige = used.id + 1 /\ d.mbhdtx = c0.mbhdtx
  BY <1>8 DEF IsRec, CircuitFields
<1>10. /\ IsRec(x, ContextFields) /\ x.c = b /\ x.n = n /\ x.i = i /\ x.acc = <<>> /\ x.out = <<>>
  BY <1>6 DEF Ctx, IsRec, ContextFields
<1> HIDE DEF x
<1>11. y = Send([x EXCEPT !.c = d], f)
  <2>1. [x EXCEPT !.c.traout = TRUE] = [x EXCEPT !.c = d] BY <1>10 DEF IsRec, ContextFields
  <2> HIDE DEF d
  <2> QED BY <1>8, <1>10, <2>1 DEF SConrq
<1> HIDE DEF d
<1>12. f \in Frame /\ f.op = "CONREQ" /\ f.id = used.id + 1 /\ f.idx = i
  <2> DEFINE e == Header("CONREQ", i, used.id + 1)
  <2>1. i \in 0 .. NumCir BY <1>2, BoundTypes DEF Index
  <2>2. e \in Datagram /\ e.op = "CONREQ" /\ e.id = used.id + 1 /\ e.idx = i
    BY <1>5, <2>1, HeaderType DEF Opcode, Header
  <2>3. Trawir[n] \in 1 .. Mod - 1 BY WindowAssumption
  <2> HIDE DEF e
  <2>4. [e EXCEPT !.win = Trawir[n]] \in Frame BY <2>2, <2>3 DEF Frame, Datagram
  <2>5. LET g == [e EXCEPT !.win = Trawir[n]]
        IN g.op = "CONREQ" /\ g.id = used.id + 1 /\ g.idx = i
    BY <2>2 DEF Datagram
  <2> QED BY <2>4, <2>5 DEF e
<1> HIDE DEF f, y
<1>13. y.n = n /\ y.i = i /\ y.c = d /\ y.acc = <<>> /\ y.out = <<f>>
  <2> DEFINE z == [x EXCEPT !.c = d]
  <2>1. /\ IsRec(z, ContextFields) /\ z.n = n /\ z.i = i /\ z.c = d /\ z.acc = <<>>
        /\ z.out = <<>>
    BY <1>10 DEF IsRec, ContextFields
  <2> HIDE DEF z
  <2>2. y = [z EXCEPT !.out = Append(z.out, f)] BY <1>11 DEF Send, z
  <2>3. Append(z.out, f) = <<f>> BY <2>1
  <2> QED BY <2>1, <2>2, <2>3 DEF IsRec, ContextFields
<1>14. /\ cir' = [cir EXCEPT ![n][i] = d] /\ got' = got
       /\ net' = [net EXCEPT ![Peer(n)] = Append(@, f)]
  <2>1. net \in [Node -> Seq(Frame)] BY InvTypes
  <2>2. Peer(n) \in Node /\ Peer(n) # n BY PeerType
  <2>3. Append(net[Peer(n)], f) = net[Peer(n)] \o <<f>> BY <1>12, <2>1, <2>2, AppendIsConcat
  <2> QED BY <1>1, <1>13, <2>1, <2>2, <2>3 DEF Done, Became
<1> QED BY <1>1, <1>2, <1>4, <1>7, <1>9, <1>12, <1>14 DEF i

LEMMA ConnectWorld ==
  ASSUME Inv, Inv', NEW h, Here(h), NEW n \in Node, Connect(n)
  PROVE  \E g : Follows(h, g)
<1> PICK i : i = FirstFree(n) OBVIOUS
<1>1. /\ i \in Index /\ cir[n][i].st = L4SDSCED /\ used.id < MaxId
      /\ used'.id = used.id + 1 /\ used'.msg = used.msg /\ got' = got
      /\ \E d, f :
           /\ cir' = [cir EXCEPT ![n][i] = d]
           /\ d.st = L4SLKSUP /\ d.ideige = used.id + 1
           /\ d.mbhdtx = cir[n][i].mbhdtx
           /\ f \in Frame /\ f.op = "CONREQ" /\ f.id = used.id + 1 /\ f.idx = i
           /\ net' = [net EXCEPT ![Peer(n)] = Append(@, f)]
  BY ConnectIs
<1> PICK d, f :
           /\ cir' = [cir EXCEPT ![n][i] = d]
           /\ d.st = L4SLKSUP /\ d.ideige = used.id + 1
           /\ d.mbhdtx = cir[n][i].mbhdtx
           /\ f \in Frame /\ f.op = "CONREQ" /\ f.id = used.id + 1 /\ f.idx = i
           /\ net' = [net EXCEPT ![Peer(n)] = Append(@, f)]
  BY <1>1
<1> PICK s : s = used.id + 1 OBVIOUS
<1> DEFINE e0 == [n |-> n, i |-> i, p |-> 0, w |-> 0]
<1> PICK g : g = [h EXCEPT ![s] = e0] OBVIOUS
<1> DEFINE K == Of(h, cir)
           L == Of(g, cir')
<1>2. /\ cir \in [Node -> [Index -> Good]] /\ cir' \in [Node -> [Index -> Good]]
      /\ net \in [Node -> Seq(Frame)] /\ got \in [Id -> Seq(Message)]
      /\ used.id \in 0 .. MaxId /\ used'.id \in 0 .. MaxId
  BY InvTypes, InvTypesNext
<1>3. /\ h \in [Id -> Reg] /\ Registered(h, cir, used.id)
      /\ World(h, K, net, got, used.msg, used.id)
  BY DEF Here
<1>4. s \in Id BY <1>1, <1>2 DEF Id
<1>5. e0 \in Reg
  <2>1. 0 \in 0 .. MaxId /\ 0 \in 0 .. Mod - 1 BY BoundTypes, ModType
  <2> QED BY <1>1, <2>1 DEF Reg
<1>6. /\ g \in [Id -> Reg] /\ g[s] = e0 /\ \A r \in Id : r # s => g[r] = h[r]
  BY <1>3, <1>4, <1>5
<1>7. g[s].n = n /\ g[s].i = i /\ g[s].p = 0 BY <1>6
<1>8. Changed(K, L, d) /\ Registered(g, cir', used'.id)
  <2>1. d.st # L4SDSCED /\ d.ideige = s BY StatesDiffer
  <2>2. \A r \in Id : r # s => g[r].n = h[r].n /\ g[r].i = h[r].i BY <1>6
  <2> HIDE DEF e0
  <2>4. /\ h \in [Id -> Reg] /\ cir \in [Node -> [Index -> Good]] /\ used.id \in 0 .. MaxId
        /\ Registered(h, cir, used.id) /\ i \in Index /\ cir[n][i].st = L4SDSCED
        /\ s = used.id + 1 /\ g \in [Id -> Reg] /\ cir' = [cir EXCEPT ![n][i] = d]
    BY <1>1, <1>2, <1>3, <1>6
  <2>3. Changed(Of(h, cir), Of(g, cir'), d) /\ Registered(g, cir', used.id + 1)
    <3>1. Enters(h, cir, used.id, n, i, s, d, g, cir')
      BY <1>4, <1>7, <2>1, <2>2, <2>4 DEF Enters
    <3> QED BY <3>1, OfNew
  <2> QED BY <1>1, <2>3
<1>9. K \in [Id -> Good] /\ L \in [Id -> Good] BY <1>2, <1>3, <1>6, OfType
<1>10. d.mbhdtx = <<>> BY <1>1, <1>3 DEF Registered
<1> HIDE DEF K, L
<1>11. L = [K EXCEPT ![s] = d] /\ d \in Good
  <2>1. L = [K EXCEPT ![s] = d] BY <1>4, <1>8, <1>9, OneChanged, StatesDiffer
  <2> QED BY <1>4, <1>9, <2>1
<1>12. World(g, L, net, got, used.msg, s)
  <2>1. Begins(h, K, got, used.id, e0, d) BY <1>10 DEF Begins
  <2> HIDE DEF e0
  <2>2. World([h EXCEPT ![s] = e0], [K EXCEPT ![s] = d], net, got, used.msg, used.id + 1)
    BY <1>3, <1>4, <1>5, <1>11, <2>1, Begun
  <2> QED BY <1>11, <2>2
<1>13. World(g, L, net', got, used.msg, s)
  <2>1. L[s].st = L4SLKSUP BY <1>4, <1>9, <1>11
  <2>2. \A k \in Node : \A j \in 1 .. Len(net[k]) : Token(net[k][j]) => net[k][j].id # s
    <3> SUFFICES ASSUME NEW k \in Node, NEW j \in 1 .. Len(net[k]), Token(net[k][j])
                 PROVE  net[k][j].id # s
      OBVIOUS
    <3>1. net[k][j].id \in 1 .. used.id BY <1>3 DEF World, Asked
    <3> QED BY <1>2, <3>1
  <2>3. World(g, L, Then(net, Peer(g[s].n), f), got, used.msg, s)
    <3>1. f \in Frame /\ f.op = "CONREQ" /\ f.id = s /\ f.idx = g[s].i BY <1>7
    <3> QED BY <1>4, <1>7, <1>12, <2>1, <2>2, <3>1, Requested
  <2>4. Then(net, Peer(g[s].n), f) = net' BY <1>7 DEF Then
  <2> QED BY <2>3, <2>4
<1>14. Opening(K, L, s)
  <2>1. Others(K, L, s) BY <1>4, <1>9, <1>11 DEF Others
  <2>2. L[s] = d BY <1>4, <1>9, <1>11
  <2> QED BY <1>10, <2>1, <2>2, StatesDiffer DEF Opening
<1>15. Step(K, L, got, got, used.msg, used.msg, used.id, s) BY <1>4, <1>14 DEF Step
<1>16. Here(g)' BY <1>1, <1>6, <1>8, <1>13 DEF Here, L
<1> QED BY <1>1, <1>15, <1>16 DEF Follows, K, L

-----------------------------------------------------------------------------
(* Datagrams are received.                                                 *)

(* A datagram is read that changes no circuit; it may be answered.         *)
LEMMA ReplyWorld ==
  ASSUME Inv, NEW h, Here(h), NEW n \in Node, net[n] # <<>>,
         World(h, Of(h, cir), After(net, n), got, used.msg, used.id),
         NEW y, y.n = n, y.i \in Index, y.c = cir[n][y.i], y.acc = <<>>,
         \/ y.out = <<>>
         \/ \E f \in Frame : ~Token(f) /\ ~Carries(f) /\ y.out = <<f>>,
         Became(y, Tail(net[n])), used'.msg = used.msg, used'.id = used.id
  PROVE  Follows(h, h)
<1> DEFINE K == Of(h, cir)
           P == After(net, n)
<1>1. /\ h \in [Id -> Reg] /\ Registered(h, cir, used.id)
      /\ World(h, K, P, got, used.msg, used.id)
  BY DEF Here
<1>2. cir \in [Node -> [Index -> Good]] /\ net \in [Node -> Seq(Frame)] BY InvTypes
<1>3. cir' = cir /\ got' = got /\ net' = [P EXCEPT ![Peer(n)] = @ \o y.out]
  <2>1. cir' = [cir EXCEPT ![n][y.i] = cir[n][y.i]] BY DEF Became
  <2>2. cir' = cir BY <1>2, <2>1
  <2>3. Peer(n) # n BY PeerType
  <2> QED BY <1>2, <2>2, <2>3 DEF Became, After
<1>4. P \in [Node -> Seq(Frame)] BY <1>2, PopType
<1>5. Peer(n) \in Node BY PeerType
<1>6. Ending(K, K) BY DEF Ending
<1> HIDE DEF K, P
<1>7. World(h, K, net', got, used.msg, used.id)
  <2>1. CASE y.out = <<>>
    <3>1. P[Peer(n)] \o <<>> = P[Peer(n)] BY <1>4, <1>5, ConcatEmptySeq
    <3>2. net' = P BY <1>3, <1>4, <2>1, <3>1
    <3> QED BY <1>1, <3>2
  <2>2. ASSUME NEW f \in Frame, ~Token(f), ~Carries(f), y.out = <<f>>
        PROVE  World(h, K, net', got, used.msg, used.id)
    <3>1. World(h, K, Then(P, Peer(n), f), got, used.msg, used.id) BY <1>1, <1>5, <2>2, Chat
    <3>2. Append(P[Peer(n)], f) = P[Peer(n)] \o <<f>> BY <1>4, <1>5, AppendIsConcat
    <3>3. net' = Then(P, Peer(n), f) BY <1>3, <2>2, <3>2 DEF Then
    <3> QED BY <3>1, <3>3
  <2> QED BY <2>1, <2>2
<1>8. Step(K, K, got, got, used.msg, used.msg, used.id, used.id) BY <1>6 DEF Step
<1>9. Here(h)' BY <1>1, <1>3, <1>7 DEF Here, K
<1> QED BY <1>3, <1>8, <1>9 DEF Follows, K

(* A CONACK that opens a circuit reaches it.                               *)
LEMMA OpensKnown ==
  ASSUME Inv, NEW h, Here(h), NEW n \in Node, net[n] # <<>>,
         NEW s \in Id, Opens(Head(net[n]), s), Of(h, cir)[s].st = L4SLKSUP
  PROVE  /\ Head(net[n]).idx \in Known(n, Head(net[n]))
         /\ cir[n][Head(net[n]).idx].st = L4SLKSUP
         /\ cir[n][Head(net[n]).idx].ideige = s
<1> DEFINE K == Of(h, cir)
           f == Head(net[n])
<1>1. /\ h \in [Id -> Reg] /\ World(h, K, net, got, used.msg, used.id)
  BY DEF Here
<1>2. net \in [Node -> Seq(Frame)] BY InvTypes
<1>3. f = net[n][1] /\ 1 \in 1 .. Len(net[n]) BY <1>2, PopType
<1>4. Asked(h, K, got, used.id, n, f) BY <1>1, <1>3 DEF World
<1>5. f.op = "CONACK" /\ ~f.choke /\ f.id = s BY DEF Opens
<1>6. h[s].n = n /\ f.idx = h[s].i BY <1>4, <1>5 DEF Asked, Token
<1>7. cir[n][f.idx].st = L4SLKSUP /\ cir[n][f.idx].ideige = s
  <2>1. LET c == cir[h[s].n][h[s].i]
        IN  K[s] = IF c.st # L4SDSCED /\ c.ideige = s THEN c ELSE Blank
    BY DEF Of
  <2> HIDE DEF f
  <2> QED BY <1>6, <2>1, BlankIs, StatesDiffer
<1>8. f.idx \in Index BY <1>1, <1>6, WorldTypes
<1> QED BY <1>5, <1>7, <1>8, StatesDiffer DEF Known

(* A CONREQ for a circuit that is known already, or for which there is no  *)
(* room, and a datagram to a circuit that does not exist.                  *)
LEMMA StrayWorld ==
  ASSUME Inv, NEW h, Here(h), NEW n \in Node, Receive(n),
         ~New(n, Head(net[n])),
         Head(net[n]).op = "CONREQ" \/ Known(n, Head(net[n])) = {}
  PROVE  Follows(h, h)
<1> DEFINE f == Head(net[n])
           y == L4rx(n, f)
           K == Of(h, cir)
           none == Context(n, 1)
<1>1. net[n] # <<>> /\ Became(y, Tail(net[n])) /\ UNCHANGED used
  BY DEF Receive, CanReceive
<1>2. f \in Frame BY <1>1, HeadTailType
<1>3. World(h, K, After(net, n), got, used.msg, used.id)
  <2>1. \A s \in Id : Opens(f, s) => K[s].st # L4SLKSUP
    <3> SUFFICES ASSUME NEW s \in Id, Opens(f, s), K[s].st = L4SLKSUP PROVE FALSE
      OBVIOUS
    <3>1. f.idx \in Known(n, f) BY <1>1, OpensKnown
    <3>2. f.op = "CONACK" BY DEF Opens
    <3> QED BY <3>1, <3>2
  <2>2. World(h, K, net, got, used.msg, used.id) BY DEF Here
  <2>3. K \in [Id -> Good] BY <2>2 DEF World, Types
  <2> HIDE DEF K
  <2> QED BY <1>1, <2>1, <2>2, <2>3, Read
<1>4. /\ none.n = n /\ none.i \in Index /\ none.c = cir[n][none.i] /\ none.acc = <<>>
      /\ none.out = <<>> /\ Ctx(none)
  <2>1. 1 \in Index BY TableAssumption DEF Index
  <2> QED BY <2>1, ContextType DEF Context
<1> HIDE DEF none
<1>5. Append(<<>>, Busy(f)) = <<Busy(f)>> OBVIOUS
<1>6. /\ y.n = n /\ y.i \in Index /\ y.c = cir[n][y.i] /\ y.acc = <<>>
      /\ \/ y.out = <<>>
         \/ \E g \in Frame : ~Token(g) /\ ~Carries(g) /\ y.out = <<g>>
  <2>1. CASE f.op = "CONREQ" /\ CalledBy(n, f) # {}
    <3>1. y = none BY <2>1 DEF L4rx, none
    <3> QED BY <1>4, <3>1
  <2>2. CASE f.op = "CONREQ" /\ CalledBy(n, f) = {}
    <3>1. y = Send(none, Busy(f)) BY <2>2 DEF L4rx, none
    <3>2. Busy(f) \in Frame /\ ~Token(Busy(f)) /\ ~Carries(Busy(f))
      <4>1. f.idx \in 0 .. NumCir /\ f.id \in 0 .. MaxId BY <1>2 DEF Frame, Datagram
      <4>2. Busy(f) \in Frame BY <4>1, HeaderType DEF Busy, Opcode
      <4>3. Busy(f).op = "CONACK" /\ Busy(f).choke = TRUE BY DEF Busy, Header
      <4> QED BY <4>2, <4>3 DEF Token, Carries
    <3> DEFINE b == Busy(f)
    <3> HIDE DEF b
    <3>3. /\ y.n = none.n /\ y.i = none.i /\ y.c = none.c /\ y.acc = none.acc
          /\ y.out = Append(none.out, b)
      <4>1. IsRec(none, ContextFields) BY <1>4 DEF Ctx
      <4>2. y = [none EXCEPT !.out = Append(none.out, b)] BY <3>1 DEF Send, b
      <4> HIDE DEF y
      <4> QED BY <4>1, <4>2 DEF IsRec, ContextFields
    <3> HIDE DEF y
    <3> QED BY <1>4, <1>5, <3>2, <3>3 DEF b
  <2>3. CASE f.op # "CONREQ"
    <3>1. y = [none EXCEPT !.out = Unknown(f)] BY <2>3 DEF L4rx, none
    <3>2. \/ Unknown(f) = <<>>
          \/ \E g \in Frame : ~Token(g) /\ ~Carries(g) /\ Unknown(f) = <<g>>
      <4>1. CASE f.op = "DISACK"
        <5> DEFINE g == Header("DISREQ", f.a, f.b)
        <5>1. f.a \in 0 .. NumCir /\ f.b \in 0 .. MaxId BY <1>2, <4>1 DEF Frame
        <5>2. g \in Frame BY <5>1, HeaderType DEF Opcode
        <5>3. g.op = "DISREQ" BY DEF Header
        <5>4. Unknown(f) = <<g>> \/ Unknown(f) = <<>> BY DEF Unknown
        <5> HIDE DEF g
        <5> QED BY <5>2, <5>3, <5>4 DEF Token, Carries
      <4>2. CASE f.op # "DISACK"
        <5>1. f.op \in {"CONACK", "DISREQ", "INFTRA", "INFACK"}
          BY <1>2, <2>3, <4>2 DEF Frame, Datagram, Opcode
        <5>2. Opcode["DISREQ"] = 3 /\ Opcode["INFTRA"] = 5 /\ Opcode["INFACK"] = 6
          BY DEF Opcode
        <5>3. 3 % 4 # 0 /\ 5 % 4 # 0 /\ 6 % 4 # 0 OBVIOUS
        <5>4. f.op = "CONACK" \/ Opcode[f.op] % 4 # 0 BY <5>1, <5>2, <5>3
        <5> QED BY <5>4 DEF Unknown
      <4> QED BY <4>1, <4>2
    <3> DEFINE u == Unknown(f)
    <3> HIDE DEF u
    <3>3. /\ y.n = none.n /\ y.i = none.i /\ y.c = none.c /\ y.acc = none.acc
          /\ y.out = u
      <4>1. IsRec(none, ContextFields) BY <1>4 DEF Ctx
      <4>2. y = [none EXCEPT !.out = u] BY <3>1 DEF u
      <4> HIDE DEF y
      <4> QED BY <4>1, <4>2 DEF IsRec, ContextFields
    <3> HIDE DEF y
    <3> QED BY <1>4, <3>2, <3>3 DEF u
  <2> QED BY <2>1, <2>2, <2>3
<1> HIDE DEF y
<1> QED BY <1>1, <1>3, <1>6, ReplyWorld

(* A datagram that belongs to a circuit, f to the entry f.idx of n.        *)
LEMMA KnownIs ==
  ASSUME Inv, NEW h, Here(h), NEW n \in Node, NEW f \in Frame, Known(n, f) # {}
  PROVE  /\ f.idx \in Index /\ cir[n][f.idx].st # L4SDSCED
         /\ cir[n][f.idx].ideige = f.id /\ f.id \in Id /\ f.id \in 1 .. used.id
         /\ h[f.id].n = n /\ h[f.id].i = f.idx
         /\ Of(h, cir)[f.id] = cir[n][f.idx]
<1>1. f.idx \in Index /\ cir[n][f.idx].st # L4SDSCED /\ cir[n][f.idx].ideige = f.id
  BY DEF Known
<1>2. cir \in [Node -> [Index -> Good]] /\ used.id \in 0 .. MaxId BY InvTypes
<1>3. h \in [Id -> Reg] /\ Registered(h, cir, used.id) BY DEF Here
<1> QED BY <1>1, <1>2, <1>3, Entered

LEMMA KnownWorld ==
  ASSUME Inv, NEW h, Here(h), NEW n \in Node, Receive(n),
         Head(net[n]).op # "CONREQ", Known(n, Head(net[n])) # {},
         ~(/\ Head(net[n]).op = "CONACK" /\ ~Head(net[n]).choke
           /\ cir[n][Head(net[n]).idx].st = L4SLKSUP)
  PROVE  Follows(h, h)
<1> DEFINE f == Head(net[n])
           i == f.idx
           s == f.id
           K == Of(h, cir)
           P == After(net, n)
           x == Context(n, i)
           y == RxKnown(x, f)
<1>1. /\ net[n] # <<>> /\ Became(y, Tail(net[n])) /\ UNCHANGED used
  <2>1. ~New(n, f) BY DEF New
  <2>2. L4rx(n, f) = y BY <2>1 DEF L4rx
  <2> QED BY <2>1, <2>2 DEF Receive, CanReceive
<1>2. f \in Frame BY <1>1, HeadTailType
<1>3. /\ i \in Index /\ cir[n][i].st # L4SDSCED /\ cir[n][i].ideige = s /\ s \in Id
      /\ h[s].n = n /\ h[s].i = i /\ K[s] = cir[n][i]
  BY <1>2, KnownIs
<1>4. World(h, K, net, got, used.msg, used.id) BY DEF Here
<1>5. /\ K \in [Id -> Good] /\ P \in [Node -> Seq(Frame)] /\ got \in [Id -> Seq(Message)]
  <2>1. net \in [Node -> Seq(Frame)] BY InvTypes
  <2> QED BY <1>1, <1>4, <2>1, PopType DEF World, Types
<1>6. World(h, K, P, got, used.msg, used.id)
  <2>1. \A r \in Id : Opens(f, r) => K[r].st # L4SLKSUP
    <3> SUFFICES ASSUME NEW r \in Id, Opens(f, r), K[r].st = L4SLKSUP PROVE FALSE
      OBVIOUS
    <3>1. cir[n][i].st = L4SLKSUP BY <1>1, OpensKnown
    <3> QED BY <3>1 DEF Opens
  <2> HIDE DEF K
  <2> QED BY <1>1, <1>4, <1>5, <2>1, Read
<1>7. /\ Fine(h, K, P, got, used.msg, used.id, s, x)
      /\ x.acc = <<>> /\ x.out = <<>> /\ x.c = cir[n][i] /\ x.n = n /\ x.i = i /\ Ctx(x)
  BY <1>3, <1>6, Starts
<1>8. Sound(x.c) BY <1>3, ContextType
<1> HIDE DEF x
<1>9. KAt(K, s, x) = K /\ NAt(P, x) = P /\ GAt(got, s, x) = got
  <2>1. Peer(n) \in Node BY PeerType
  <2> HIDE DEF K, P
  <2>2. KAt(K, s, x) = K BY <1>3, <1>5, <1>7 DEF KAt
  <2>3. P[Peer(n)] \o <<>> = P[Peer(n)] BY <1>5, <2>1, ConcatEmptySeq
  <2>4. NAt(P, x) = P BY <1>5, <1>7, <2>3 DEF NAt
  <2>5. got[s] \o <<>> = got[s] BY <1>3, <1>5, ConcatEmptySeq
  <2>6. GAt(got, s, x) = got BY <1>5, <1>7, <2>5 DEF GAt
  <2> QED BY <2>2, <2>4, <2>6
<1>10. ASSUME Carries(f), x.c.st = L4SIXFER
       PROVE  /\ Acks(h, KAt(K, s, x), NAt(P, x), GAt(got, s, x), used.msg, s, f)
              /\ f.op = "INFTRA" =>
                   Brings(h, KAt(K, s, x), NAt(P, x), GAt(got, s, x), used.msg, s, f)
  <2>1. IsUp(K, s) BY <1>3, <1>7, <1>10 DEF IsUp
  <2>2. /\ Acks(h, K, P, got, used.msg, s, f)
        /\ f.op = "INFTRA" => Brings(h, K, P, got, used.msg, s, f)
    <3> HIDE DEF K
    <3> QED BY <1>1, <1>3, <1>4, <1>10, <2>1, HeadSays
  <2> HIDE DEF K, P, f
  <2> QED BY <1>9, <2>2
<1> HIDE DEF K, P
<1>11. f.op # "CONREQ" /\ ~(f.op = "CONACK" /\ ~f.choke /\ x.c.st = L4SLKSUP) BY <1>7
<1> HIDE DEF f
<1>12. Fine(h, K, P, got, used.msg, used.id, s, y)
  BY <1>2, <1>7, <1>10, <1>11, FineKnown
<1>13. y.n = n /\ y.i = i
  <2>1. Result(x, y) BY <1>2, <1>7, <1>8, <1>11, RxKnownSound
  <2> QED BY <1>7, <2>1 DEF Result
<1> HIDE DEF y
<1>14. used'.msg = used.msg /\ used'.id = used.id BY <1>1
<1>15. Follows(h, h)
  <2>1. P = After(net, n) /\ Fine(h, Of(h, cir), P, got, used.msg, used.id, cir[n][i].ideige, y)
    BY <1>3, <1>12 DEF K, P
  <2>2. i \in Index /\ cir[n][i].st # L4SDSCED /\ Became(y, Tail(net[n])) BY <1>1, <1>3
  <2> QED BY <1>13, <1>14, <2>1, <2>2, BecameWorld
<1> QED BY <1>15

(* A call is answered.                                                     *)
LEMMA ConackIs ==
  ASSUME NEW x, Ctx(x), Sound(x.c), NEW f \in Frame, f.op = "CONACK", ~f.choke,
         x.c.st = L4SLKSUP, x.out = <<>>, x.acc = <<>>
  PROVE  LET y == RxConack(x, f)
         IN  /\ Result(x, y) /\ y.out = <<>> /\ y.acc = <<>>
             /\ Opened(x.c, y.c, f, f.id) /\ y.c.st = L4SIXFER
<1> DEFINE c1 == ClrCir(x.c)
           c == [c1 EXCEPT !.window = f.win, !.idpart = f.b, !.idxpar = f.a,
                           !.st = L4SIXFER]
           y == RxConack(x, f)
<1>1. y = [x EXCEPT !.c = c] BY DEF RxConack
<1>2. Result(x, y) BY RxConackSound
<1>3. Shaped(x.c) BY DEF Sound
<1>4. /\ IsRec(c1, CircuitFields) /\ c1.mbhdtx = x.c.mbhdtx /\ c1.l4rxvs = 0
      /\ c1.l4vr = 0 /\ c1.mbhdos = [o \in 1 .. Mod - 1 |-> NoMessage]
  <2>1. IsRec(c1, CircuitFields) BY <1>3, ClrCirShaped DEF Shaped
  <2>2. /\ c1.mbhdtx = x.c.mbhdtx /\ c1.l4rxvs = 0 /\ c1.l4vr = 0
        /\ c1.mbhdos = [o \in 1 .. Mod - 1 |-> NoMessage]
    BY <1>3 DEF ClrCir, Shaped, IsRec, CircuitFields
  <2> QED BY <2>1, <2>2
<1> HIDE DEF c1
<1>5. /\ c.mbhdtx = c1.mbhdtx /\ c.l4rxvs = c1.l4rxvs /\ c.l4vr = c1.l4vr
      /\ c.mbhdos = c1.mbhdos /\ c.window = f.win /\ c.idpart = f.b /\ c.idxpar = f.a
      /\ c.st = L4SIXFER
  BY <1>4 DEF IsRec, CircuitFields
<1> HIDE DEF c
<1>6. y.c = c /\ y.out = <<>> /\ y.acc = <<>>
  <2> HIDE DEF y
  <2> QED BY <1>1 DEF Ctx, IsRec, ContextFields
<1>7. Opened(x.c, c, f, f.id) BY <1>4, <1>5 DEF Opened, Opens
<1> QED BY <1>2, <1>5, <1>6, <1>7

LEMMA MeetWorld ==
  ASSUME Inv, Inv', NEW h, Here(h), NEW n \in Node, Receive(n),
         Head(net[n]).op = "CONACK", ~Head(net[n]).choke,
         Known(n, Head(net[n])) # {}, cir[n][Head(net[n]).idx].st = L4SLKSUP
  PROVE  Follows(h, h)
<1> DEFINE f == Head(net[n])
           i == f.idx
           s == f.id
           K == Of(h, cir)
           L == Of(h, cir')
           P == After(net, n)
           x == Context(n, i)
           y == RxConack(x, f)
<1>1. /\ net[n] # <<>> /\ Became(y, Tail(net[n])) /\ UNCHANGED used
  <2>1. ~New(n, f) BY DEF New
  <2>2. L4rx(n, f) = y BY <2>1 DEF L4rx, RxKnown
  <2> QED BY <2>1, <2>2 DEF Receive, CanReceive
<1>2. f \in Frame BY <1>1, HeadTailType
<1>3. /\ i \in Index /\ cir[n][i].st # L4SDSCED /\ cir[n][i].ideige = s /\ s \in Id
      /\ s \in 1 .. used.id /\ h[s].n = n /\ h[s].i = i /\ K[s] = cir[n][i]
  BY <1>2, KnownIs
<1>4. /\ h \in [Id -> Reg] /\ Registered(h, cir, used.id)
      /\ World(h, K, net, got, used.msg, used.id)
  BY DEF Here
<1>5. /\ cir \in [Node -> [Index -> Good]] /\ cir' \in [Node -> [Index -> Good]]
      /\ net \in [Node -> Seq(Frame)] /\ used.id \in 0 .. MaxId
  BY InvTypes, InvTypesNext
<1>6. K \in [Id -> Good] /\ L \in [Id -> Good] BY <1>4, <1>5, OfType
<1>7. /\ Ctx(x) /\ Sound(x.c) /\ x.c = cir[n][i] /\ x.n = n /\ x.i = i /\ x.acc = <<>>
      /\ x.out = <<>>
  BY <1>3, ContextType DEF Context
<1> HIDE DEF x
<1>8. /\ Result(x, y) /\ y.out = <<>> /\ y.acc = <<>>
      /\ Opened(x.c, y.c, f, s) /\ y.c.st = L4SIXFER
  BY <1>2, <1>7, ConackIs
<1> HIDE DEF y
<1> PICK d : d = y.c OBVIOUS
<1>9. y.n = n /\ y.i = i /\ d.ideige = s /\ d.st # L4SDSCED
  BY <1>3, <1>7, <1>8, StatesDiffer DEF Result
<1>10. cir' = [cir EXCEPT ![n][i] = d] /\ net' = P /\ got' = got
  <2>1. P \in [Node -> Seq(Frame)] /\ Peer(n) \in Node /\ Peer(n) # n
    BY <1>1, <1>5, PopType, PeerType
  <2>2. P[Peer(n)] \o <<>> = P[Peer(n)] BY <2>1, ConcatEmptySeq
  <2>3. net' = [P EXCEPT ![Peer(n)] = @ \o <<>>]
    BY <1>1, <1>5, <1>8, <1>9, <2>1 DEF Became, After
  <2>4. net' = P
    <3> HIDE DEF P
    <3> QED BY <2>1, <2>2, <2>3
  <2> QED BY <1>1, <1>8, <1>9, <2>4 DEF Became
<1>11. Changed(K, L, d)
  <2>1. d.ideige = cir[n][i].ideige BY <1>3, <1>9
  <2> HIDE DEF f
  <2> QED BY <1>3, <1>4, <1>5, <1>10, <2>1, OfChanged
<1>12. Registered(h, cir', used.id)
  <2>1. IF d.st = L4SDSCED THEN d.mbhdtx = <<>>
        ELSE d.ideige \in 1 .. used.id /\ h[d.ideige].n = n /\ h[d.ideige].i = i
    BY <1>3, <1>9
  <2> HIDE DEF f
  <2> QED BY <1>3, <1>4, <1>5, <1>10, <2>1, Entering
<1>13. Opened(K[s], d, f, s) BY <1>3, <1>7, <1>8
<1> HIDE DEF K, L
<1>14. L = [K EXCEPT ![s] = d] BY <1>3, <1>6, <1>9, <1>11, OneChanged
<1>15. L[s] = d BY <1>3, <1>6, <1>14
<1>16. World(h, L, P, got, used.msg, used.id)
  <2>1. \A r \in Id : L[r] = K[r] \/ (Opened(K[r], L[r], f, r) /\ h[r].n = n)
    <3> SUFFICES ASSUME NEW r \in Id, r # s PROVE L[r] = K[r]
      BY <1>3, <1>13, <1>15
    <3> QED BY <1>3, <1>6, <1>14
  <2>2. \A r \in Id : Opens(f, r) => L[r].st # L4SLKSUP
    <3> SUFFICES ASSUME NEW r \in Id, Opens(f, r) PROVE L[r].st # L4SLKSUP OBVIOUS
    <3>1. r = s BY DEF Opens
    <3> QED BY <1>8, <1>15, <3>1, StatesDiffer
  <2> QED BY <1>1, <1>4, <1>6, <2>1, <2>2, Read
<1>17. Meeting(K, L, s)
  <2>1. Others(K, L, s) BY <1>3, <1>6, <1>14 DEF Others
  <2>2. K[s].st = L4SLKSUP /\ L[s].st = L4SIXFER /\ L[s].mbhdtx = K[s].mbhdtx
    BY <1>13, <1>15 DEF Opened
  <2> QED BY <2>1, <2>2 DEF Meeting
<1>18. Step(K, L, got, got, used.msg, used.msg, used.id, used.id) BY <1>3, <1>17 DEF Step
<1>19. Here(h)' BY <1>1, <1>4, <1>10, <1>12, <1>16 DEF Here, L
<1> QED BY <1>1, <1>10, <1>18, <1>19 DEF Follows, K, L

(* What a called node stores and answers.                                  *)
Accepts(x, f, id, y) ==
  LET c == y.c
  IN  /\ y.n = x.n /\ y.i = x.i /\ y.acc = <<>>
      /\ c.st = L4SIXFER /\ c.ideige = id /\ c.mbhdtx = x.c.mbhdtx
      /\ c.idpart = f.id /\ c.idxpar = f.idx
      /\ c.window = Least(f.win, Trawir[x.n]) /\ c.l4rxvs = 0 /\ c.l4vr = 0
      /\ c.mbhdos = [o \in 1 .. Mod - 1 |-> NoMessage]
      /\ \E g \in Frame :
           /\ y.out = <<g>> /\ g.op = "CONACK" /\ ~g.choke /\ g.id = f.id
           /\ g.idx = f.idx /\ g.a = x.i /\ g.b = id /\ g.win = c.window

LEMMA ConreqIs ==
  ASSUME NEW x, Ctx(x), NEW f \in Frame, f.op = "CONREQ", NEW id \in 0 .. MaxId,
         x.out = <<>>, x.acc = <<>>
  PROVE  Accepts(x, f, id, RxConreq(x, f, id))
<1> DEFINE w == Least(f.win, Trawir[x.n])
           c1 == ClrCir(x.c)
           c == [c1 EXCEPT !.idxpar = f.idx, !.idpart = f.id, !.ideige = id,
                           !.window = w, !.st = L4SIXFER]
           z == [x EXCEPT !.c = c]
           g == ConAck(z)
           y == RxConreq(x, f, id)
<1>1. y = Send(z, g) BY DEF RxConreq
<1>2. Ctx(y) /\ Sound(y.c) /\ y.n = x.n /\ y.i = x.i /\ y.acc = <<>> BY RxConreqSound
<1>3. Shaped(x.c) BY DEF Ctx
<1>4. /\ IsRec(c1, CircuitFields) /\ c1.mbhdtx = x.c.mbhdtx /\ c1.l4rxvs = 0
      /\ c1.l4vr = 0 /\ c1.mbhdos = [o \in 1 .. Mod - 1 |-> NoMessage]
  <2>1. IsRec(c1, CircuitFields) BY <1>3, ClrCirShaped DEF Shaped
  <2>2. /\ c1.mbhdtx = x.c.mbhdtx /\ c1.l4rxvs = 0 /\ c1.l4vr = 0
        /\ c1.mbhdos = [o \in 1 .. Mod - 1 |-> NoMessage]
    BY <1>3 DEF ClrCir, Shaped, IsRec, CircuitFields
  <2> QED BY <2>1, <2>2
<1> HIDE DEF c1, w
<1>5. /\ c.mbhdtx = c1.mbhdtx /\ c.l4rxvs = c1.l4rxvs /\ c.l4vr = c1.l4vr
      /\ c.mbhdos = c1.mbhdos /\ c.window = w /\ c.idpart = f.id /\ c.idxpar = f.idx
      /\ c.st = L4SIXFER /\ c.ideige = id
  BY <1>4 DEF IsRec, CircuitFields
<1> HIDE DEF c
<1>6. /\ IsRec(z, ContextFields) /\ z.n = x.n /\ z.i = x.i /\ z.c = c /\ z.out = <<>>
  BY DEF Ctx, IsRec, ContextFields
<1> HIDE DEF z
<1>7. /\ g.op = "CONACK" /\ ~g.choke /\ g.id = f.id /\ g.idx = f.idx /\ g.a = x.i
      /\ g.b = id /\ g.win = w
  BY <1>5, <1>6 DEF ConAck, ToPartner, Header
<1> HIDE DEF g, y
<1>8. y.c = c /\ y.out = <<g>>
  <2>1. Append(<<>>, g) = <<g>> OBVIOUS
  <2>2. y = [z EXCEPT !.out = Append(z.out, g)] BY <1>1 DEF Send
  <2> QED BY <1>6, <2>1, <2>2 DEF IsRec, ContextFields
<1>9. g \in Frame
  <2>1. <<g>> \in Seq(Frame) BY <1>2, <1>8 DEF Ctx
  <2>2. Len(<<g>>) = 1 /\ <<g>>[1] = g OBVIOUS
  <2> QED BY <2>1, <2>2
<1> QED BY <1>2, <1>4, <1>5, <1>7, <1>8, <1>9 DEF Accepts, w, y

(* Nobody has answered the call of t.                                      *)
LEMMA Unanswered ==
  ASSUME Inv, NEW h, Here(h), NEW n \in Node, net[n] # <<>>,
         Head(net[n]).op = "CONREQ", CalledBy(n, Head(net[n])) = {}
  PROVE  LET t == Head(net[n]).id
         IN  /\ t \in 1 .. used.id /\ t \in Id /\ got[t] = <<>>
             /\ Of(h, cir)[t].st \notin Paired
             /\ h[t].n = Peer(n) /\ h[t].p = 0 /\ h[t].i = Head(net[n]).idx
             /\ \A r \in Id : Of(h, cir)[r].st # L4SDSCED => h[r].p # t
<1> DEFINE f == Head(net[n])
           t == f.id
           K == Of(h, cir)
<1>1. /\ h \in [Id -> Reg] /\ Registered(h, cir, used.id)
      /\ World(h, K, net, got, used.msg, used.id)
  BY DEF Here
<1>2. /\ net \in [Node -> Seq(Frame)] /\ cir \in [Node -> [Index -> Good]]
      /\ used.id \in 0 .. MaxId
  BY InvTypes
<1>3. f = net[n][1] /\ 1 \in 1 .. Len(net[n]) BY <1>2, PopType
<1>4. Asked(h, K, got, used.id, n, f) BY <1>1, <1>3 DEF World
<1>5. /\ t \in 1 .. used.id /\ got[t] = <<>> /\ K[t].st \notin Paired
      /\ h[t].n = Peer(n) /\ h[t].p = 0 /\ h[t].i = f.idx
  BY <1>4 DEF Asked, Token
<1>6. t \in Id /\ t # 0 BY <1>2, <1>5, BoundTypes DEF Id
<1>7. ASSUME NEW r \in Id, K[r].st # L4SDSCED, h[r].p = t PROVE FALSE
  <2> DEFINE c == cir[h[r].n][h[r].i]
  <2>1. K[r] = IF c.st # L4SDSCED /\ c.ideige = r THEN c ELSE Blank BY DEF Of
  <2>2. c.st # L4SDSCED /\ K[r] = c BY <1>7, <2>1, BlankIs
  <2>3. Agreed(h, K, net, r) /\ Partner(h, K, r) BY <1>1 DEF World
  <2>4. h[r].n \in Node /\ h[r].i \in Index BY <1>1, WorldTypes
  <2> HIDE DEF K, f
  <2>5. h[r].n = n
    <3>1. h[t].n = Peer(h[r].n) BY <1>6, <1>7, <2>3 DEF Agreed
    <3> QED BY <1>5, <2>4, <3>1, PeerType
  <2>6. K[r].st \in {L4SDSCED, L4SLKSUP, L4SIXFER, L4SDSCRQ}
    <3>1. K[r] \in Good BY <1>1, WorldTypes
    <3> QED BY <3>1 DEF Good, Sound, Shaped, Typed, States
  <2>7. CASE K[r].st \in Paired
    <3>1. K[r].idpart = t /\ K[r].idxpar = f.idx BY <1>5, <1>7, <2>3, <2>7 DEF Partner
    <3>2. h[r].i \in CalledBy(n, f) BY <2>2, <2>4, <2>5, <3>1 DEF CalledBy
    <3> QED BY <3>2 DEF f
  <2>8. CASE K[r].st = L4SLKSUP
    <3>1. PICK j \in 1 .. Len(net[h[r].n]) : Opens(net[h[r].n][j], r)
      BY <1>6, <1>7, <2>3, <2>8 DEF Agreed
    <3>2. Asked(h, K, got, used.id, h[r].n, net[h[r].n][j]) BY <1>1, <2>4, <3>1 DEF World
    <3>3. h[h[r].p].p = r BY <3>1, <3>2 DEF Asked, Opens, Token
    <3>4. r # 0 BY DEF Id
    <3> QED BY <1>5, <1>7, <3>3, <3>4
  <2> QED BY <1>7, <2>6, <2>7, <2>8 DEF Paired
<1> QED BY <1>5, <1>6, <1>7

(* The window agreed on.                                                   *)
LEMMA AgreedWindow ==
  ASSUME OrderedNetwork, NEW n \in Node, NEW f \in Frame, f.op = "CONREQ"
  PROVE  LET w == Least(f.win, Trawir[n])
         IN  w \in 0 .. Mod - 1 /\ w >= 1 /\ 2 * w <= Mod
<1>1. f.win \in 0 .. Mod - 1 /\ f.win # 0 BY DEF Frame, Datagram
<1>2. Trawir[n] \in 1 .. Mod - 1 /\ 2 * Trawir[n] <= Mod
  BY WindowAssumption DEF OrderedNetwork
<1>3. Mod \in Nat BY ModType
<1> DEFINE v == Trawir[n]
<1>4. v \in 1 .. Mod - 1 /\ 2 * v <= Mod BY <1>2
<1> HIDE DEF v
<1>5. Least(f.win, v) \in 0 .. Mod - 1 /\ Least(f.win, v) >= 1 /\ 2 * Least(f.win, v) <= Mod
  BY <1>1, <1>3, <1>4 DEF Least
<1> QED BY <1>5 DEF v

LEMMA NewWorld ==
  ASSUME OrderedNetwork, Inv, Inv', NEW h, Here(h), NEW n \in Node, Receive(n),
         New(n, Head(net[n]))
  PROVE  \E g : Follows(h, g)
<1> PICK i : i = FirstFree(n) OBVIOUS
<1> PICK s : s = used.id + 1 OBVIOUS
<1> PICK f : f = Head(net[n]) OBVIOUS
<1> PICK t : t = f.id OBVIOUS
<1> PICK w : w = Least(f.win, Trawir[n]) OBVIOUS
<1> DEFINE e0 == [n |-> n, i |-> i, p |-> t, w |-> w]
           e1 == [n |-> Peer(n), i |-> f.idx, p |-> s, w |-> w]
           x == Context(n, i)
           y == RxConreq(x, f, s)
<1> PICK h1 : h1 = [h EXCEPT ![s] = e0] OBVIOUS
<1> PICK g : g = [h1 EXCEPT ![t] = e1] OBVIOUS
<1> DEFINE K == Of(h, cir)
           L == Of(g, cir')
           P == After(net, n)
<1>1. /\ net[n] # <<>> /\ Became(y, Tail(net[n])) /\ f.op = "CONREQ"
      /\ CalledBy(n, f) = {} /\ Free(n) # {} /\ used.id < MaxId
      /\ used'.id = s /\ used'.msg = used.msg
  <2>1. /\ net[n] # <<>> /\ used.id < MaxId /\ Became(L4rx(n, f), Tail(net[n]))
        /\ Use("id")
    BY DEF Receive, CanReceive
  <2>2. L4rx(n, f) = y BY DEF L4rx
  <2>3. used \in Used BY DEF Inv
  <2> HIDE DEF y
  <2>4. used' = [used EXCEPT !["id"] = @ + 1] BY <2>1 DEF Use
  <2>5. used'.id = s /\ used'.msg = used.msg BY <2>3, <2>4 DEF Used
  <2> QED BY <2>1, <2>2, <2>5 DEF New
<1>2. f \in Frame BY <1>1, HeadTailType
<1>3. i \in Index /\ cir[n][i].st = L4SDSCED BY <1>1, FreeType
<1>4. /\ cir \in [Node -> [Index -> Good]] /\ cir' \in [Node -> [Index -> Good]]
      /\ net \in [Node -> Seq(Frame)] /\ got \in [Id -> Seq(Message)]
      /\ used.id \in 0 .. MaxId /\ used'.id \in 0 .. MaxId
  BY InvTypes, InvTypesNext
<1>5. /\ h \in [Id -> Reg] /\ Registered(h, cir, used.id)
      /\ World(h, K, net, got, used.msg, used.id)
  BY DEF Here
<1>6. s \in Id /\ s \in 0 .. MaxId BY <1>1, <1>4 DEF Id
<1>7. /\ t \in 1 .. used.id /\ t \in Id /\ got[t] = <<>> /\ K[t].st \notin Paired
      /\ h[t].n = Peer(n) /\ h[t].p = 0 /\ h[t].i = f.idx
      /\ \A r \in Id : K[r].st # L4SDSCED => h[r].p # t
  BY <1>1, Unanswered
<1>8. t # s /\ t < s /\ t # 0 BY <1>4, <1>7
<1>9. w \in 0 .. Mod - 1 /\ w >= 1 /\ 2 * w <= Mod BY <1>1, <1>2, AgreedWindow
<1>10. /\ Ctx(x) /\ x.c = cir[n][i] /\ x.n = n /\ x.i = i /\ x.acc = <<>> /\ x.out = <<>>
  BY <1>3, ContextType DEF Context
<1> HIDE DEF x
<1>11. /\ y.n = n /\ y.i = i /\ y.acc = <<>>
       /\ y.c.st = L4SIXFER /\ y.c.ideige = s /\ y.c.mbhdtx = cir[n][i].mbhdtx
       /\ y.c.idpart = t /\ y.c.idxpar = f.idx
       /\ y.c.window = w /\ y.c.l4rxvs = 0 /\ y.c.l4vr = 0
       /\ y.c.mbhdos = [o \in 1 .. Mod - 1 |-> NoMessage]
       /\ \E a \in Frame :
            /\ y.out = <<a>> /\ a.op = "CONACK" /\ ~a.choke /\ a.id = t
            /\ a.idx = f.idx /\ a.a = i /\ a.b = s /\ a.win = y.c.window
  <2>1. Accepts(x, f, s, RxConreq(x, f, s))
    <3>1. Ctx(x) /\ x.out = <<>> /\ x.acc = <<>> /\ f.op = "CONREQ" BY <1>1, <1>10
    <3> QED BY <1>2, <1>6, <3>1, ConreqIs
  <2>2. Accepts(x, f, s, y) BY <2>1
  <2> HIDE DEF y
  <2> QED BY <1>10, <2>2 DEF Accepts
<1> HIDE DEF y
<1> PICK a \in Frame :
       /\ y.out = <<a>> /\ a.op = "CONACK" /\ ~a.choke /\ a.id = t
       /\ a.idx = f.idx /\ a.a = i /\ a.b = s /\ a.win = w
  BY <1>11
<1> PICK c : c = y.c OBVIOUS
<1>12. /\ c.st = L4SIXFER /\ c.ideige = s /\ c.mbhdtx = cir[n][i].mbhdtx
       /\ c.idpart = t /\ c.idxpar = f.idx
       /\ c.window = w /\ c.l4rxvs = 0 /\ c.l4vr = 0
       /\ \A o \in 1 .. Mod - 1 : c.mbhdos[o] = NoMessage
  BY <1>11
<1>13. c.mbhdtx = <<>> BY <1>3, <1>5, <1>12 DEF Registered
<1>14. Peer(n) \in Node /\ Peer(n) # n /\ Peer(Peer(n)) = n BY PeerType
<1>15. P \in [Node -> Seq(Frame)] BY <1>1, <1>4, PopType
<1>16. cir' = [cir EXCEPT ![n][i] = c] /\ net' = Then(P, Peer(n), a) /\ got' = got
  <2>1. P[Peer(n)] \o <<a>> = Append(P[Peer(n)], a) BY <1>14, <1>15, AppendIsConcat
  <2>2. net' = [P EXCEPT ![Peer(n)] = @ \o <<a>>]
    BY <1>1, <1>4, <1>11, <1>14 DEF Became, After
  <2>3. net' = Then(P, Peer(n), a)
    <3> HIDE DEF P
    <3> QED BY <2>1, <2>2 DEF Then
  <2> QED BY <1>1, <1>11, <2>3 DEF Became
<1>17. e0 \in Reg /\ e0.n = n /\ e0.i = i /\ e0.p = t /\ e0.w = w
  <2>1. t \in 0 .. MaxId BY <1>7, BoundTypes DEF Id
  <2> QED BY <1>3, <1>9, <2>1 DEF Reg
<1>18. e1 \in Reg /\ e1.n = Peer(n) /\ e1.i = f.idx /\ e1.p = s /\ e1.w = w
  <2>1. f.idx \in Index BY <1>5, <1>7, WorldTypes
  <2> QED BY <1>6, <1>9, <1>14, <2>1 DEF Reg
<1> HIDE DEF e0, e1
<1>19. /\ h1 \in [Id -> Reg] /\ h1[s] = e0 /\ \A r \in Id : r # s => h1[r] = h[r]
  BY <1>5, <1>6, <1>17
<1>20. /\ g \in [Id -> Reg] /\ g[t] = e1 /\ \A r \in Id : r # t => g[r] = h1[r]
  BY <1>7, <1>18, <1>19
<1>21. \A r \in Id : r # s => g[r].n = h[r].n /\ g[r].i = h[r].i
  BY <1>7, <1>18, <1>19, <1>20
<1>22. g[s] = e0 BY <1>6, <1>8, <1>19, <1>20
<1>23. Changed(K, L, c) /\ Registered(g, cir', s)
  <2>1. c.st # L4SDSCED /\ c.ideige = s BY <1>12, StatesDiffer
  <2>2. Enters(h, cir, used.id, n, i, s, c, g, cir')
    BY <1>3, <1>4, <1>5, <1>6, <1>16, <1>17, <1>20, <1>21, <1>22, <2>1 DEF Enters
  <2> QED BY <2>2, OfNew
<1>24. K \in [Id -> Good] /\ L \in [Id -> Good] BY <1>4, <1>5, <1>20, OfType
<1> HIDE DEF K, L
<1>25. L = [K EXCEPT ![s] = c] /\ c \in Good /\ L[s] = c
  <2>1. L = [K EXCEPT ![s] = c] BY <1>6, <1>12, <1>23, <1>24, OneChanged, StatesDiffer
  <2> QED BY <1>6, <1>24, <2>1
<1>26. World(h, K, P, got, used.msg, used.id)
  <2>1. \A r \in Id : Opens(f, r) => K[r].st # L4SLKSUP BY <1>1 DEF Opens
  <2> QED BY <1>1, <1>5, <1>24, <2>1, Read
<1>27. World(h1, L, P, got, used.msg, s)
  <2>1. Begins(h, K, got, used.id, e0, c)
    <3>1. t <= used.id /\ h[t].n = Peer(e0.n) BY <1>4, <1>7, <1>17
    <3> QED BY <1>7, <1>8, <1>9, <1>12, <1>13, <1>17, <3>1 DEF Begins
  <2>2. World([h EXCEPT ![s] = e0], [K EXCEPT ![s] = c], P, got, used.msg, used.id + 1)
    BY <1>6, <1>17, <1>25, <1>26, <2>1, Begun
  <2> QED BY <1>25, <2>2
<1>28. Answers(h1, L, P, got, s, t, g)
  <2>1. got[s] = <<>>
    <3>1. Unborn(h, K, got, used.msg, used.id, s) BY <1>5, <1>6 DEF World
    <3>2. s > used.id BY <1>4
    <3> QED BY <3>1, <3>2 DEF Unborn
  <2>2. h1[t] = h[t] /\ L[t] = K[t] BY <1>7, <1>8, <1>19, <1>24, <1>25
  <2>3. ASSUME NEW r \in Id, L[r].st # L4SDSCED
        PROVE  h1[r].p # s /\ (h1[r].p = t => r = s)
    <3>1. CASE r = s BY <1>8, <1>17, <1>19, <3>1
    <3>2. CASE r # s
      <4>1. h1[r] = h[r] /\ L[r] = K[r] BY <1>19, <1>24, <1>25, <3>2
      <4>2. h[r].p <= used.id BY <1>5 DEF World, Unborn
      <4>3. h[r].p \in 0 .. MaxId BY <1>5, WorldTypes
      <4>4. h[r].p # s BY <1>4, <4>2, <4>3
      <4> QED BY <1>7, <2>3, <4>1, <4>4
    <3> QED BY <3>1, <3>2
  <2>4. ASSUME NEW k \in Node, NEW j \in 1 .. Len(P[k]), Token(P[k][j])
        PROVE  P[k][j].id # t
    <3>1. Token(f) BY <1>1 DEF Token
    <3> QED BY <1>1, <1>5, <2>4, <3>1, OnlyHead
  <2>5. h1[s].p = t /\ h1[s].w = w /\ h1[s].n = n BY <1>17, <1>19
  <2>6. h1[t].n = Peer(n) /\ h1[t].p = 0 /\ h1[t].i = f.idx BY <1>7, <2>2
  <2>7. g[t].n = Peer(n) /\ g[t].i = f.idx /\ g[t].p = s /\ g[t].w = w BY <1>18, <1>20
  <2>8. L[t].st \notin Paired /\ t < s /\ got[t] = <<>> BY <1>7, <1>8, <2>2
  <2>9. g \in [Id -> Reg] /\ \A r \in Id : r # t => g[r] = h1[r] BY <1>20
  <2> HIDE DEF P
  <2> QED BY <1>9, <1>14, <2>1, <2>3, <2>4, <2>5, <2>6, <2>7, <2>8, <2>9 DEF Answers
<1>29. World(g, L, net', got, used.msg, s)
  <2>1. h1[t] = h[t] BY <1>7, <1>8, <1>19
  <2>2. a.idx = h1[t].i /\ a.a = h1[s].i /\ a.win = h1[s].w
    BY <1>7, <1>17, <1>19, <2>1
  <2>3. s \in 1 .. s /\ t \in 1 .. s BY <1>4, <1>7
  <2>4. World(g, L, Then(P, h1[t].n, a), got, used.msg, s)
    <3> HIDE DEF P
    <3> QED BY <1>27, <1>28, <2>2, <2>3, Answered
  <2> QED BY <1>7, <1>16, <2>1, <2>4
<1>30. Opening(K, L, s)
  <2>1. Others(K, L, s) BY <1>6, <1>24, <1>25 DEF Others
  <2>2. L[s].st = L4SIXFER /\ L[s].mbhdtx = <<>> BY <1>12, <1>13, <1>25
  <2> QED BY <2>1, <2>2, StatesDiffer DEF Opening
<1>31. Step(K, L, got, got, used.msg, used.msg, used.id, s) BY <1>6, <1>30 DEF Step
<1>32. Here(g)' BY <1>1, <1>16, <1>20, <1>23, <1>29 DEF Here, L
<1> QED BY <1>1, <1>16, <1>31, <1>32 DEF Follows, K, L

LEMMA ReceiveWorld ==
  ASSUME OrderedNetwork, Inv, Inv', NEW h, Here(h), NEW n \in Node, Receive(n)
  PROVE  \E g : Follows(h, g)
<1> DEFINE f == Head(net[n])
<1>1. CASE New(n, f) BY <1>1, NewWorld
<1>2. CASE ~New(n, f) /\ (f.op = "CONREQ" \/ Known(n, f) = {}) BY <1>2, StrayWorld
<1>3. CASE /\ f.op = "CONACK" /\ ~f.choke
           /\ Known(n, f) # {} /\ cir[n][f.idx].st = L4SLKSUP
  BY <1>3, MeetWorld
<1>4. CASE /\ f.op # "CONREQ" /\ Known(n, f) # {}
           /\ ~(f.op = "CONACK" /\ ~f.choke /\ cir[n][f.idx].st = L4SLKSUP)
  BY <1>4, KnownWorld
<1> QED BY <1>1, <1>2, <1>3, <1>4

-----------------------------------------------------------------------------
(* Every step.                                                             *)

LEMMA NextWorld ==
  ASSUME OrderedNetwork, Inv, Inv', NEW h, Here(h), Next
  PROVE  \E g : Follows(h, g)
<1> PICK n \in Node :
      \/ Connect(n) \/ Receive(n)
      \/ Lose(n) \/ Duplicate(n) \/ Swap(n) \/ Restart(n)
      \/ \E i \in Index : Disconnect(n, i) \/ Queue(n, i) \/ L4(n, i)
  BY DEF Next
<1>1. CASE Connect(n) BY <1>1, ConnectWorld
<1>2. CASE Receive(n) BY <1>2, ReceiveWorld
<1>3. CASE Lose(n) BY <1>3, LoseWorld
<1>4. CASE Duplicate(n) \/ Swap(n)
  <2>1. used.dup \in Nat /\ used.swap \in Nat BY DEF Inv, Used
  <2>2. used.dup < 0 \/ used.swap < 0 BY <1>4 DEF OrderedNetwork, Duplicate, Swap
  <2> QED BY <2>1, <2>2
<1>5. CASE Restart(n) BY <1>5, RestartWorld
<1>6. ASSUME NEW i \in Index, Disconnect(n, i) \/ Queue(n, i) \/ L4(n, i)
      PROVE  \E g : Follows(h, g)
  <2>1. CASE Disconnect(n, i) BY <2>1, DisconnectWorld
  <2>2. CASE Queue(n, i) BY <2>2, QueueWorld
  <2>3. CASE L4(n, i)
    <3>1. ASSUME NEW k \in 0 .. cir[n][i].numrx, NEW mem, NEW early, Rest(n, i, k, mem, early)
          PROVE  \E g : Follows(h, g)
      BY <3>1, RestWorld
    <3>2. CASE Tx(n, i) BY <3>2, TxWorld
    <3>3. ASSUME NEW due \in SUBSET Due(n, i), NEW open \in Open(n, i),
                 Second(n, i, due, open)
          PROVE  \E g : Follows(h, g)
      BY <3>3, SecondWorld
    <3> QED BY <2>3, <3>1, <3>2, <3>3 DEF L4
  <2> QED BY <1>6, <2>1, <2>2, <2>3
<1> QED BY <1>1, <1>2, <1>3, <1>4, <1>5, <1>6

LEMMA InitIInv == Init => IInv
<1> SUFFICES ASSUME Init PROVE IInv OBVIOUS
<1> DEFINE m == CHOOSE m \in Node : TRUE
           h == [s \in Id |-> [n |-> m, i |-> 1, p |-> 0, w |-> 0]]
           K == Of(h, cir)
           I == used.id
           M == used.msg
<1>1. Inv BY InitInv
<1>2. /\ cir \in [Node -> [Index -> Good]] /\ net \in [Node -> Seq(Frame)]
      /\ got \in [Id -> Seq(Message)] /\ I \in 0 .. MaxId /\ M \in [Id -> Nat]
  BY <1>1, InvTypes
<1>3. m \in Node /\ 1 \in Index
  <2>1. Node # {} BY NodeAssumption, FS_EmptySet
  <2> QED BY <2>1, TableAssumption DEF Index
<1> HIDE DEF m
<1>4. h \in [Id -> Reg]
  <2>1. 0 \in 0 .. MaxId /\ 0 \in 0 .. Mod - 1 BY BoundTypes, ModType
  <2> QED BY <1>3, <2>1 DEF Reg
<1>5. \A n \in Node, i \in Index : cir[n][i] = Blank BY DEF Init
<1>6. \A n \in Node : net[n] = <<>> BY DEF Init
<1>7. \A s \in Id : got[s] = <<>> /\ M[s] = 0 /\ I = 0 BY DEF Init
<1>8. \A s \in Id : h[s].p = 0 /\ h[s].n \in Node /\ h[s].i \in Index BY <1>3
<1> HIDE DEF h, I, M
<1>9. Registered(h, cir, I) BY <1>5, BlankIs DEF Registered
<1>10. \A s \in Id : K[s] = Blank BY <1>5, <1>8 DEF Of
<1>11. K \in [Id -> Good] BY <1>2, <1>4, OfType
<1> HIDE DEF K
<1>12. \A n \in Node : Len(net[n]) = 0 BY <1>6
<1>13. Types(h, K, net, got, M, I) BY <1>2, <1>4, <1>11 DEF Types
<1>14. ASSUME NEW s \in Id
       PROVE  /\ Unborn(h, K, got, M, I, s) /\ InOrder(h, got, M, s)
              /\ Agreed(h, K, net, s) /\ Partner(h, K, s)
              /\ Listed(h, K, got, M, s) /\ Placed(h, K, got, M, s)
              /\ Confirms(h, K, net, got, M, s) /\ Arrives(h, K, net, got, M, s)
  <2>1. K[s].st = L4SDSCED BY <1>10, BlankIs
  <2>2. Len(got[s]) = 0 BY <1>7
  <2>3. h[s].p = 0 /\ M[s] = 0 /\ I = 0 /\ got[s] = <<>> BY <1>7, <1>8
  <2>4. Unborn(h, K, got, M, I, s) BY <2>1, <2>3 DEF Unborn
  <2>5. InOrder(h, got, M, s) BY <2>2, <2>3 DEF InOrder
  <2>6. Agreed(h, K, net, s) BY <2>3 DEF Agreed
  <2>7. Partner(h, K, s) BY <2>1, StatesDiffer DEF Partner
  <2>8. Listed(h, K, got, M, s) BY <2>1 DEF Listed
  <2>9. Placed(h, K, got, M, s) BY <2>1, StatesDiffer DEF Placed
  <2>10. Confirms(h, K, net, got, M, s) /\ Arrives(h, K, net, got, M, s)
    BY <2>1 DEF Confirms, Arrives
  <2> QED BY <2>4, <2>5, <2>6, <2>7, <2>8, <2>9, <2>10
<1>15. \A n \in Node : \A j \in 1 .. Len(net[n]) : Asked(h, K, got, I, n, net[n][j])
  BY <1>12
<1>16. Once(net) BY <1>12 DEF Once
<1>17. World(h, K, net, got, M, I) BY <1>13, <1>14, <1>15, <1>16 DEF World
<1> QED BY <1>1, <1>4, <1>9, <1>17 DEF IInv, K, I, M

LEMMA IInvHere == IInv <=> Inv /\ \E h : Here(h)
BY DEF IInv, Here

LEMMA NextIInv == ASSUME OrderedNetwork PROVE IInv /\ [Next]_vars => IInv'
<1> SUFFICES ASSUME IInv, [Next]_vars PROVE IInv' OBVIOUS
<1>1. Inv /\ Inv' BY NextInv DEF IInv
<1>2. PICK h : Here(h) BY IInvHere
<1>3. CASE Next
  <2>1. PICK g : Follows(h, g) BY <1>1, <1>2, <1>3, NextWorld
  <2> QED BY <1>1, <2>1 DEF Follows, Here, IInv
<1>4. CASE UNCHANGED vars
  <2>1. cir' = cir /\ net' = net /\ got' = got /\ used' = used BY <1>4 DEF vars
  <2>2. Here(h)' BY <1>2, <2>1 DEF Here
  <2> QED BY <1>1, <2>2 DEF Here, IInv
<1> QED BY <1>3, <1>4

LEMMA AlwaysIInv == ASSUME OrderedNetwork PROVE Spec => []IInv
<1>1. Init => IInv BY InitIInv
<1>2. IInv /\ [Next]_vars => IInv' BY NextIInv
<1> QED BY <1>1, <1>2, PTL DEF Spec

-----------------------------------------------------------------------------
(* L4Pipe.                                                                 *)

StageIn(K, I) ==
  [s \in Id |-> IF s > I THEN "new" ELSE IF K[s].st = L4SDSCED THEN "ended" ELSE "open"]

PeerIn(K) ==
  [s \in Id |-> IF K[s].st \in {L4SDSCED, L4SLKSUP} THEN 0 ELSE K[s].idpart]

PendingIn(K) ==
  [s \in Id |-> IF K[s].st = L4SDSCED THEN <<>> ELSE ToConfirm(K[s])]

(* The entry of a registered circuit.                                      *)
WhereIn(C, s) ==
  {e \in Node \X Index : LET c == C[e[1]][e[2]]
                         IN  c.ideige = s /\ c.st # L4SDSCED}

EntryIn(C, s) == LET e == CHOOSE e \in WhereIn(C, s) : TRUE IN C[e[1]][e[2]]

LEMMA Located ==
  ASSUME NEW h \in [Id -> Reg], NEW C \in [Node -> [Index -> Good]], NEW I,
         Registered(h, C, I), NEW s \in Id
  PROVE  /\ WhereIn(C, s) = {} <=> Of(h, C)[s].st = L4SDSCED
         /\ WhereIn(C, s) # {} => EntryIn(C, s) = Of(h, C)[s]
<1> DEFINE n == h[s].n
           i == h[s].i
           c == C[n][i]
           W == WhereIn(C, s)
<1>1. n \in Node /\ i \in Index BY DEF Reg
<1>2. ASSUME NEW e \in W
      PROVE  e = <<n, i>> /\ c.ideige = s /\ c.st # L4SDSCED
  <2>1. e \in Node \X Index /\ C[e[1]][e[2]].ideige = s /\ C[e[1]][e[2]].st # L4SDSCED
    BY DEF WhereIn
  <2>2. e[1] = n /\ e[2] = i BY <2>1 DEF Registered
  <2> QED BY <2>1, <2>2
<1>3. Of(h, C)[s] = IF c.st # L4SDSCED /\ c.ideige = s THEN c ELSE Blank BY DEF Of
<1>4. CASE c.st # L4SDSCED /\ c.ideige = s
  <2>1. <<n, i>> \in W BY <1>1, <1>4 DEF WhereIn
  <2>2. PICK e : e = CHOOSE d \in WhereIn(C, s) : TRUE OBVIOUS
  <2>3. e \in W BY <2>1, <2>2
  <2>4. EntryIn(C, s) = C[e[1]][e[2]] BY <2>2 DEF EntryIn
  <2>5. e[1] = n /\ e[2] = i
    <3>1. e = <<n, i>> BY <1>2, <2>3
    <3> HIDE DEF n, i
    <3> QED BY <3>1
  <2>6. EntryIn(C, s) = c BY <2>4, <2>5
  <2> QED BY <1>3, <1>4, <2>1, <2>6
<1>5. CASE ~(c.st # L4SDSCED /\ c.ideige = s)
  <2>1. W = {} BY <1>2, <1>5
  <2> QED BY <1>3, <1>5, <2>1, BlankIs
<1> QED BY <1>4, <1>5

(* What L4Pipe sees.                                                       *)
LEMMA Seen ==
  ASSUME Inv, NEW h, Here(h)
  PROVE  /\ Stages = StageIn(Of(h, cir), used.id)
         /\ Partners = PeerIn(Of(h, cir)) /\ Unconfirmed = PendingIn(Of(h, cir))
<1>1. h \in [Id -> Reg] /\ cir \in [Node -> [Index -> Good]] /\ Registered(h, cir, used.id)
  BY InvTypes DEF Here
<1>2. ASSUME NEW s \in Id
      PROVE  /\ Where(s) = {} <=> Of(h, cir)[s].st = L4SDSCED
             /\ Where(s) # {} => EntryOf(s) = Of(h, cir)[s]
  <2>1. Where(s) = WhereIn(cir, s) BY DEF Where, WhereIn
  <2>2. EntryOf(s) = EntryIn(cir, s) BY <2>1 DEF EntryOf, EntryIn
  <2> QED BY <1>1, <2>1, <2>2, Located
<1> DEFINE K == Of(h, cir)
<1> HIDE DEF K
<1>3. Stages = StageIn(K, used.id) BY <1>2 DEF Stages, StageIn, K
<1>4. Partners = PeerIn(K) BY <1>2 DEF Partners, PeerIn, K
<1>5. Unconfirmed = PendingIn(K) BY <1>2 DEF Unconfirmed, PendingIn, K
<1> QED BY <1>3, <1>4, <1>5 DEF K

LEMMA SeenNext ==
  ASSUME Inv', NEW h, Here(h)'
  PROVE  /\ Stages' = StageIn(Of(h, cir'), used'.id)
         /\ Partners' = PeerIn(Of(h, cir')) /\ Unconfirmed' = PendingIn(Of(h, cir'))
<1>1. h \in [Id -> Reg] /\ cir' \in [Node -> [Index -> Good]] /\ Registered(h, cir', used'.id)
  BY InvTypesNext DEF Here
<1>2. ASSUME NEW s \in Id
      PROVE  /\ Where(s)' = {} <=> Of(h, cir')[s].st = L4SDSCED
             /\ Where(s)' # {} => EntryOf(s)' = Of(h, cir')[s]
  <2>1. Where(s)' = WhereIn(cir', s) BY DEF Where, WhereIn
  <2>2. EntryOf(s)' = EntryIn(cir', s) BY <2>1 DEF EntryOf, EntryIn
  <2> QED BY <1>1, <2>1, <2>2, Located
<1> DEFINE K == Of(h, cir')
<1> HIDE DEF K
<1>3. Stages' = StageIn(K, used'.id) BY <1>2 DEF Stages, StageIn, K
<1>4. Partners' = PeerIn(K) BY <1>2 DEF Partners, PeerIn, K
<1>5. Unconfirmed' = PendingIn(K) BY <1>2 DEF Unconfirmed, PendingIn, K
<1> QED BY <1>3, <1>4, <1>5 DEF K

(* A circuit that gets a partner is the only one to have it.               *)
LEMMA OnlyPartner ==
  ASSUME NEW h, NEW K, NEW N, NEW G, NEW M, NEW I, World(h, K, N, G, M, I),
         NEW s \in Id, K[s].st \in Paired
  PROVE  /\ K[s].idpart = h[s].p /\ h[s].p \in Id
         /\ \A q \in Id : q # s => PeerIn(K)[q] # h[s].p
<1>1. K[s].idpart = h[s].p /\ h[s].p # 0 BY DEF World, Partner
<1>2. h[s].p \in Id BY <1>1, WorldTypes
<1>3. ASSUME NEW q \in Id, q # s, PeerIn(K)[q] = h[s].p PROVE FALSE
  <2>1. K[q].st \notin {L4SDSCED, L4SLKSUP} /\ K[q].idpart = h[s].p
    BY <1>1, <1>3 DEF PeerIn
  <2>2. K[q].st \in Paired
    <3>1. K[q] \in Good BY WorldTypes
    <3> QED BY <2>1, <3>1 DEF Good, Sound, Shaped, Typed, States, Paired
  <2>3. h[q].p = h[s].p BY <2>1, <2>2 DEF World, Partner
  <2>4. K[s].st # L4SDSCED BY StatesDiffer
  <2>5. \A r \in Id : K[r].st # L4SDSCED /\ h[r].p = h[s].p => r = s
    BY <1>1, <2>4 DEF World, Agreed
  <2> QED BY <1>3, <2>1, <2>3, <2>5
<1> QED BY <1>1, <1>2, <1>3

(* A circuit that opens or that learns who its partner is.                 *)
LEMMA PartnerIn ==
  ASSUME NEW h, NEW K, NEW N, NEW G, NEW M, NEW I, World(h, K, N, G, M, I),
         NEW L \in [Id -> Good], NEW s \in Id, Others(L, K, s),
         L[s].st \in {L4SDSCED, L4SLKSUP}, K[s].st \in Paired
  PROVE  \E p \in Id : /\ \A q \in Id : PeerIn(L)[q] # p
                       /\ PeerIn(K) = [PeerIn(L) EXCEPT ![s] = p]
<1> DEFINE p == h[s].p
<1>1. /\ K[s].idpart = p /\ p \in Id
      /\ \A q \in Id : q # s => PeerIn(K)[q] # p
  BY OnlyPartner
<1> HIDE DEF p
<1>2. PeerIn(L)[s] = 0 BY DEF PeerIn
<1>3. PeerIn(K)[s] = p BY <1>1, StatesDiffer DEF PeerIn
<1>4. \A q \in Id : q # s => PeerIn(L)[q] = PeerIn(K)[q] BY DEF PeerIn, Others
<1>5. p # 0 BY <1>1 DEF Id
<1>6. \A q \in Id : PeerIn(L)[q] # p BY <1>1, <1>2, <1>4, <1>5
<1>7. PeerIn(K) = [PeerIn(L) EXCEPT ![s] = p]
  <2>1. /\ PeerIn(K) = [q \in Id |-> PeerIn(K)[q]]
        /\ PeerIn(L) = [q \in Id |-> PeerIn(L)[q]]
    BY DEF PeerIn
  <2> QED BY <1>3, <1>4, <2>1
<1> QED BY <1>1, <1>6, <1>7

(* The states of a circuit, and what is offered before it opens.           *)
LEMMA StateIn ==
  ASSUME NEW h, NEW K, NEW N, NEW G, NEW M, NEW I, World(h, K, N, G, M, I), NEW s \in Id
  PROVE  /\ K[s].st = L4SDSCED \/ K[s].st = L4SLKSUP \/ K[s].st \in Paired
         /\ K[s].idpart \in 0 .. MaxId
         /\ s > I => K[s].st = L4SDSCED
         /\ K[s].st # L4SDSCED => s <= I
         /\ I \in Nat
<1>1. K[s] \in Good BY WorldTypes
<1>2. K[s].st \in {L4SDSCED, L4SLKSUP, L4SIXFER, L4SDSCRQ} /\ K[s].idpart \in 0 .. MaxId
  BY <1>1 DEF Good, Sound, Shaped, Typed, States
<1>3. I \in 0 .. MaxId /\ (s > I => K[s].st = L4SDSCED) BY DEF World, Types, Unborn
<1>4. I \in Nat BY <1>3, BoundTypes
<1> QED BY <1>2, <1>3, <1>4 DEF Paired, Id

(* Nothing is pending on a circuit with an empty list.                     *)
LEMMA NothingPending == ASSUME NEW c, c.mbhdtx = <<>> PROVE ToConfirm(c) = <<>>
<1>1. 1 .. Len(c.mbhdtx) = {} OBVIOUS
<1> QED BY <1>1 DEF ToConfirm

LEMMA OpeningIn ==
  ASSUME NEW h, NEW K, NEW N, NEW G, NEW M, NEW I, World(h, K, N, G, M, I),
         NEW g, NEW L, NEW P, NEW J, World(g, L, P, G, M, J),
         J = I + 1, J \in Id, Opening(K, L, J)
  PROVE  /\ StageIn(K, I)[J] = "new"
         /\ StageIn(L, J) = [StageIn(K, I) EXCEPT ![J] = "open"]
         /\ \E p \in Id \cup {0} :
              /\ p # 0 => p \in Id /\ \A q \in Id : PeerIn(K)[q] # p
              /\ PeerIn(L) = [PeerIn(K) EXCEPT ![J] = p]
         /\ PendingIn(L) = PendingIn(K)
<1>1. /\ Others(K, L, J) /\ L[J].st # L4SDSCED /\ L[J].mbhdtx = <<>>
  BY DEF Opening
<1>2. I \in Nat /\ J > I /\ K[J].st = L4SDSCED
  <2>1. I \in Nat /\ (J > I => K[J].st = L4SDSCED) BY StateIn
  <2> QED BY <2>1
<1>3. K \in [Id -> Good] /\ L \in [Id -> Good] BY DEF World, Types
<1>4. \A s \in Id : s # J => L[s] = K[s] BY <1>1 DEF Others
<1>5. StageIn(K, I)[J] = "new" BY <1>2 DEF StageIn
<1>6. StageIn(L, J) = [StageIn(K, I) EXCEPT ![J] = "open"]
  <2>1. ASSUME NEW s \in Id, s # J PROVE StageIn(L, J)[s] = StageIn(K, I)[s]
    <3>1. s > J <=> s > I BY <1>2, <2>1 DEF Id
    <3> QED BY <1>4, <2>1, <3>1 DEF StageIn
  <2>2. StageIn(L, J)[J] = "open"
    <3>1. ~(J > J) BY <1>2
    <3> QED BY <1>1, <3>1 DEF StageIn
  <2>3. /\ StageIn(L, J) = [s \in Id |-> StageIn(L, J)[s]]
        /\ StageIn(K, I) = [s \in Id |-> StageIn(K, I)[s]]
    BY DEF StageIn
  <2> QED BY <2>1, <2>2, <2>3
<1>7. PendingIn(L) = PendingIn(K)
  <2>1. PendingIn(L)[J] = <<>> BY <1>1, NothingPending DEF PendingIn
  <2>2. PendingIn(K)[J] = <<>> BY <1>2 DEF PendingIn
  <2>3. \A s \in Id : s # J => PendingIn(L)[s] = PendingIn(K)[s] BY <1>4 DEF PendingIn
  <2>4. /\ PendingIn(L) = [s \in Id |-> PendingIn(L)[s]]
        /\ PendingIn(K) = [s \in Id |-> PendingIn(K)[s]]
    BY DEF PendingIn
  <2> QED BY <2>1, <2>2, <2>3, <2>4
<1>8. \E p \in Id \cup {0} :
        /\ p # 0 => p \in Id /\ \A q \in Id : PeerIn(K)[q] # p
        /\ PeerIn(L) = [PeerIn(K) EXCEPT ![J] = p]
  <2>1. CASE L[J].st = L4SLKSUP
    <3>1. PeerIn(L)[J] = 0 BY <2>1 DEF PeerIn
    <3>2. PeerIn(K)[J] = 0 BY <1>2 DEF PeerIn
    <3>3. \A s \in Id : s # J => PeerIn(L)[s] = PeerIn(K)[s] BY <1>4 DEF PeerIn
    <3>4. /\ PeerIn(L) = [s \in Id |-> PeerIn(L)[s]]
          /\ PeerIn(K) = [s \in Id |-> PeerIn(K)[s]]
      BY DEF PeerIn
    <3>5. PeerIn(L) = [PeerIn(K) EXCEPT ![J] = 0] BY <3>1, <3>2, <3>3, <3>4
    <3> QED BY <3>5
  <2>2. CASE L[J].st \in Paired
    <3>1. Others(K, L, J) /\ K[J].st \in {L4SDSCED, L4SLKSUP} BY <1>1, <1>2
    <3>2. \E p \in Id : /\ \A q \in Id : PeerIn(K)[q] # p
                        /\ PeerIn(L) = [PeerIn(K) EXCEPT ![J] = p]
      BY <1>3, <2>2, <3>1, PartnerIn
    <3> QED BY <3>2
  <2>3. L[J].st = L4SDSCED \/ L[J].st = L4SLKSUP \/ L[J].st \in Paired BY StateIn
  <2> QED BY <1>1, <2>1, <2>2, <2>3
<1> QED BY <1>5, <1>6, <1>7, <1>8

LEMMA MeetingIn ==
  ASSUME NEW h, NEW K, NEW N, NEW G, NEW M, NEW I, World(h, K, N, G, M, I),
         NEW g, NEW L, NEW P, World(g, L, P, G, M, I), NEW s \in Id, Meeting(K, L, s)
  PROVE  /\ StageIn(K, I)[s] = "open" /\ PeerIn(K)[s] = 0
         /\ \E p \in Id : /\ \A q \in Id : PeerIn(K)[q] # p
                          /\ PeerIn(L) = [PeerIn(K) EXCEPT ![s] = p]
         /\ StageIn(L, I) = StageIn(K, I) /\ PendingIn(L) = PendingIn(K)
<1>1. /\ Others(K, L, s) /\ K[s].st = L4SLKSUP /\ L[s].st = L4SIXFER
      /\ L[s].mbhdtx = K[s].mbhdtx
  BY DEF Meeting
<1>2. K \in [Id -> Good] /\ L \in [Id -> Good] BY DEF World, Types
<1>3. ~(s > I) /\ K[s].st # L4SDSCED /\ L[s].st # L4SDSCED BY <1>1, StateIn, StatesDiffer
<1>4. \A r \in Id : r # s => L[r] = K[r] BY <1>1 DEF Others
<1>5. StageIn(K, I)[s] = "open" BY <1>3 DEF StageIn
<1>6. PeerIn(K)[s] = 0 BY <1>1 DEF PeerIn
<1>7. \E p \in Id : /\ \A q \in Id : PeerIn(K)[q] # p
                    /\ PeerIn(L) = [PeerIn(K) EXCEPT ![s] = p]
  <2>1. L[s].st \in Paired /\ K[s].st \in {L4SDSCED, L4SLKSUP} BY <1>1, StatesDiffer
  <2> QED BY <1>1, <1>2, <2>1, PartnerIn
<1>8. StageIn(L, I) = StageIn(K, I) BY <1>3, <1>4 DEF StageIn
<1>9. PendingIn(L) = PendingIn(K)
  <2>1. ToConfirm(L[s]) = ToConfirm(K[s]) BY <1>1 DEF ToConfirm
  <2> QED BY <1>3, <1>4, <2>1 DEF PendingIn
<1> QED BY <1>5, <1>6, <1>7, <1>8, <1>9

LEMMA ToConfirmType ==
  ASSUME NEW c, c.mbhdtx \in Seq(Entry)
  PROVE  /\ ToConfirm(c) \in Seq(Message) /\ Len(ToConfirm(c)) = Len(c.mbhdtx)
         /\ \A j \in 1 .. Len(c.mbhdtx) : ToConfirm(c)[j] = c.mbhdtx[j].m
         /\ Len(c.mbhdtx) \in Nat
<1>1. Len(c.mbhdtx) \in Nat BY LenProperties
<1>2. \A j \in 1 .. Len(c.mbhdtx) : c.mbhdtx[j] \in Entry BY ElementOfSeq
<1>3. \A j \in 1 .. Len(c.mbhdtx) : c.mbhdtx[j].m \in Message BY <1>2 DEF Entry
<1> DEFINE l == [j \in 1 .. Len(c.mbhdtx) |-> c.mbhdtx[j].m]
<1>4. l \in [1 .. Len(c.mbhdtx) -> Message] BY <1>3
<1> HIDE DEF l
<1>5. l \in Seq(Message) /\ Len(l) = Len(c.mbhdtx) BY <1>1, <1>4
<1> QED BY <1>1, <1>5 DEF ToConfirm, l

LEMMA OfferingIn ==
  ASSUME NEW h, NEW K, NEW N, NEW G, NEW M, NEW I, World(h, K, N, G, M, I),
         NEW L \in [Id -> Good], NEW O, NEW s \in Id, Offering(K, L, M, O, s)
  PROVE  /\ StageIn(K, I)[s] = "open" /\ StageIn(L, I) = StageIn(K, I)
         /\ PeerIn(L) = PeerIn(K) /\ O = [M EXCEPT ![s] = @ + 1]
         /\ PendingIn(L) =
              [PendingIn(K) EXCEPT ![s] = Append(@, [from |-> s, no |-> O[s]])]
<1>1. Others(K, L, s) /\ K[s].st # L4SDSCED /\ O = [M EXCEPT ![s] = @ + 1]
  BY DEF Offering
<1> PICK e : e.m = [from |-> s, no |-> M[s] + 1] /\ Grows(K[s], L[s], e) BY DEF Offering
<1>2. /\ L[s].st = K[s].st /\ L[s].idpart = K[s].idpart
      /\ L[s].mbhdtx = Append(K[s].mbhdtx, e)
  BY DEF Grows
<1>3. \A r \in Id : r # s => L[r] = K[r] BY <1>1 DEF Others
<1>4. ~(s > I) BY <1>1, StateIn
<1>5. StageIn(K, I)[s] = "open" BY <1>1, <1>4 DEF StageIn
<1>6. StageIn(L, I) = StageIn(K, I) BY <1>2, <1>3 DEF StageIn
<1>7. PeerIn(L) = PeerIn(K) BY <1>2, <1>3 DEF PeerIn
<1>8. K \in [Id -> Good] /\ M \in [Id -> Nat] BY DEF World, Types
<1>9. K[s].mbhdtx \in Seq(Entry) /\ L[s].mbhdtx \in Seq(Entry)
  BY <1>8 DEF Good, Sound, Shaped, Typed
<1> DEFINE a == ToConfirm(K[s])
           b == ToConfirm(L[s])
           m == [from |-> s, no |-> M[s] + 1]
<1>10. b = Append(a, m)
  <2>1. /\ a \in Seq(Message) /\ Len(a) = Len(K[s].mbhdtx)
        /\ \A j \in 1 .. Len(K[s].mbhdtx) : a[j] = K[s].mbhdtx[j].m
        /\ Len(K[s].mbhdtx) \in Nat
    BY <1>9, ToConfirmType
  <2>2. /\ b \in Seq(Message) /\ Len(b) = Len(L[s].mbhdtx)
        /\ \A j \in 1 .. Len(L[s].mbhdtx) : b[j] = L[s].mbhdtx[j].m
    BY <1>9, ToConfirmType
  <2> DEFINE l == K[s].mbhdtx
             r == L[s].mbhdtx
  <2>3. /\ Len(r) = Len(l) + 1 /\ r[Len(l) + 1] = e
        /\ \A j \in 1 .. Len(l) : r[j] = l[j]
    BY <1>2, <1>9
  <2>4. l \in Seq(Entry) /\ Len(l) \in Nat BY <1>9, <2>1
  <2> HIDE DEF l, r, a, b, m
  <2>5. Len(b) = Len(a) + 1 /\ Len(a) \in Nat BY <2>1, <2>2, <2>3 DEF l, r
  <2>6. \A j \in 1 .. Len(a) : b[j] = a[j] BY <2>1, <2>2, <2>3, <2>5 DEF l, r
  <2>7. b[Len(a) + 1] = m BY <2>1, <2>2, <2>3, <2>5 DEF l, r, m
  <2>8. m \in Message
    <3>1. b[Len(a) + 1] \in Message BY <2>2, <2>5, ElementOfSeq
    <3> QED BY <2>7, <3>1
  <2>9. /\ Append(a, m) \in Seq(Message) /\ Len(Append(a, m)) = Len(a) + 1
        /\ \A j \in 1 .. Len(a) : Append(a, m)[j] = a[j]
        /\ Append(a, m)[Len(a) + 1] = m
    BY <2>1, <2>5, <2>8
  <2>10. \A j \in 1 .. Len(b) : b[j] = Append(a, m)[j]
    <3> SUFFICES ASSUME NEW j \in 1 .. Len(b) PROVE b[j] = Append(a, m)[j] OBVIOUS
    <3>1. j \in 1 .. Len(a) \/ j = Len(a) + 1 BY <2>5
    <3> QED BY <2>6, <2>7, <2>9, <3>1
  <2> QED BY <2>2, <2>5, <2>9, <2>10, SeqEqual
<1>11. PendingIn(L) = [PendingIn(K) EXCEPT ![s] = Append(@, [from |-> s, no |-> O[s]])]
  <2>1. O[s] = M[s] + 1 BY <1>1, <1>8
  <2>2. PendingIn(K)[s] = a /\ PendingIn(L)[s] = b BY <1>1, <1>2 DEF PendingIn
  <2>3. \A r \in Id : r # s => PendingIn(L)[r] = PendingIn(K)[r] BY <1>3 DEF PendingIn
  <2>4. /\ PendingIn(L) = [r \in Id |-> PendingIn(L)[r]]
        /\ PendingIn(K) = [r \in Id |-> PendingIn(K)[r]]
    BY DEF PendingIn
  <2> HIDE DEF a, b
  <2> QED BY <1>10, <2>1, <2>2, <2>3, <2>4
<1> QED BY <1>1, <1>5, <1>6, <1>7, <1>11

LEMMA EndingIn ==
  ASSUME NEW h, NEW K, NEW N, NEW G, NEW M, NEW I, World(h, K, N, G, M, I),
         NEW L \in [Id -> Good], Ending(K, L)
  PROVE  LET over == {s \in Id : StageIn(K, I)[s] = "open" /\ StageIn(L, I)[s] = "ended"}
         IN  /\ StageIn(L, I) = [s \in Id |-> IF s \in over THEN "ended" ELSE StageIn(K, I)[s]]
             /\ PeerIn(L) = [s \in Id |-> IF s \in over THEN 0 ELSE PeerIn(K)[s]]
             /\ PendingIn(L) = [s \in Id |-> IF s \in over THEN <<>> ELSE PendingIn(K)[s]]
<1> DEFINE over == {s \in Id : StageIn(K, I)[s] = "open" /\ StageIn(L, I)[s] = "ended"}
<1>1. ASSUME NEW s \in Id
      PROVE  /\ StageIn(L, I)[s] = IF s \in over THEN "ended" ELSE StageIn(K, I)[s]
             /\ PeerIn(L)[s] = IF s \in over THEN 0 ELSE PeerIn(K)[s]
             /\ PendingIn(L)[s] = IF s \in over THEN <<>> ELSE PendingIn(K)[s]
  <2>1. L[s] = K[s] \/ (L[s].st = L4SDSCED /\ L[s].mbhdtx = <<>>) BY DEF Ending
  <2>2. s > I => K[s].st = L4SDSCED BY StateIn
  <2>3. CASE L[s].st # L4SDSCED
    <3>1. L[s] = K[s] /\ s \notin over BY <2>1, <2>3 DEF StageIn
    <3> QED BY <3>1 DEF StageIn, PeerIn, PendingIn
  <2>4. CASE L[s].st = L4SDSCED /\ K[s].st = L4SDSCED
    <3>1. s \notin over BY <2>4 DEF StageIn
    <3> QED BY <2>4, <3>1 DEF StageIn, PeerIn, PendingIn
  <2>5. CASE L[s].st = L4SDSCED /\ K[s].st # L4SDSCED
    <3>1. s \in over BY <2>2, <2>5 DEF StageIn
    <3> QED BY <2>5, <3>1 DEF StageIn, PeerIn, PendingIn
  <2> QED BY <2>3, <2>4, <2>5
<1> HIDE DEF over
<1>2. /\ StageIn(L, I) = [s \in Id |-> StageIn(L, I)[s]]
      /\ PeerIn(L) = [s \in Id |-> PeerIn(L)[s]]
      /\ PendingIn(L) = [s \in Id |-> PendingIn(L)[s]]
  BY DEF StageIn, PeerIn, PendingIn
<1>3. /\ StageIn(L, I) = [s \in Id |-> IF s \in over THEN "ended" ELSE StageIn(K, I)[s]]
      /\ PeerIn(L) = [s \in Id |-> IF s \in over THEN 0 ELSE PeerIn(K)[s]]
      /\ PendingIn(L) = [s \in Id |-> IF s \in over THEN <<>> ELSE PendingIn(K)[s]]
  BY <1>1, <1>2
<1> QED BY <1>3 DEF over

(* Both worlds of a circuit that works.                                    *)
Works(h, K, N, G, M, I, g, L, P, H, s) ==
  /\ World(h, K, N, G, M, I) /\ World(g, L, P, H, M, I) /\ s \in Id
  /\ Working(K, L, G, H, s)

LEMMA WorkingState ==
  ASSUME NEW h, NEW K, NEW N, NEW G, NEW M, NEW I, NEW g, NEW L, NEW P, NEW H, NEW s,
         Works(h, K, N, G, M, I, g, L, P, H, s)
  PROVE  /\ StageIn(K, I)[s] = "open" /\ StageIn(L, I) = StageIn(K, I)
         /\ PeerIn(L) = PeerIn(K)
         /\ K[s].st = L4SLKSUP \/ K[s].st \in Paired
         /\ K[s].st = L4SLKSUP => L[s].st = L4SLKSUP
         /\ K[s].st \in Paired =>
              /\ L[s].st \in Paired
              /\ PeerIn(K)[s] = h[s].p /\ h[s].p = g[s].p /\ h[s].p \in Id
<1> USE DEF Works
<1>1. /\ Others(K, L, s) /\ K[s].st # L4SDSCED /\ L[s].st # L4SDSCED /\ Mild(K[s], L[s])
  BY DEF Working
<1>2. \A r \in Id : r # s => L[r] = K[r] BY <1>1 DEF Others
<1>3. /\ L[s].st = K[s].st \/ (K[s].st = L4SIXFER /\ L[s].st = L4SDSCRQ)
      /\ L[s].idpart = K[s].idpart
  BY <1>1 DEF Mild
<1>4. K[s].st = L4SLKSUP \/ K[s].st \in Paired BY <1>1, StateIn
<1>5. ~(s > I) BY <1>1, StateIn
<1>6. StageIn(K, I)[s] = "open" BY <1>1, <1>5 DEF StageIn
<1>7. StageIn(L, I) = StageIn(K, I) BY <1>1, <1>2 DEF StageIn
<1>8. L[s].st \in {L4SDSCED, L4SLKSUP} <=> K[s].st \in {L4SDSCED, L4SLKSUP}
  BY <1>3, StatesDiffer
<1>9. PeerIn(L) = PeerIn(K) BY <1>2, <1>3, <1>8 DEF PeerIn
<1>10. K[s].st = L4SLKSUP => L[s].st = L4SLKSUP BY <1>3, StatesDiffer
<1>11. ASSUME K[s].st \in Paired
       PROVE  /\ L[s].st \in Paired
              /\ PeerIn(K)[s] = h[s].p /\ h[s].p = g[s].p /\ h[s].p \in Id
  <2>1. L[s].st \in Paired BY <1>3, <1>11, StatesDiffer
  <2>2. K[s].idpart = h[s].p /\ h[s].p \in Id BY <1>11, OnlyPartner
  <2>3. L[s].idpart = g[s].p BY <2>1, OnlyPartner
  <2>4. PeerIn(K)[s] = K[s].idpart BY <1>11, StatesDiffer DEF PeerIn
  <2> QED BY <1>3, <2>1, <2>2, <2>3, <2>4
<1> QED BY <1>4, <1>6, <1>7, <1>9, <1>10, <1>11

(* Messages are taken.                                                     *)
LEMMA TakingIn ==
  ASSUME NEW h, NEW K, NEW N, NEW G, NEW M, NEW I, NEW g, NEW L, NEW P, NEW H, NEW s,
         Works(h, K, N, G, M, I, g, L, P, H, s), K[s].st \in Paired,
         NEW p, p = PeerIn(K)[s]
  PROVE  \/ H = G
         \/ \E k \in Len(G[s]) + 1 .. M[p] :
              H = [G EXCEPT ![s] = [j \in 1 .. k |->
                     IF j <= Len(@) THEN @[j] ELSE [from |-> p, no |-> j]]]
<1>1. /\ World(h, K, N, G, M, I) /\ World(g, L, P, H, M, I) /\ s \in Id
  BY DEF Works
<1> PICK a \in Seq(Message) : H = [G EXCEPT ![s] = @ \o a] BY DEF Works, Working
<1>2. p = g[s].p /\ p \in Id BY WorkingState
<1>3. G \in [Id -> Seq(Message)] /\ M \in [Id -> Nat] BY <1>1 DEF World, Types
<1>4. H[s] = G[s] \o a BY <1>1, <1>3
<1> DEFINE l == G[s]
<1>5. /\ l \in Seq(Message) /\ Len(l) \in Nat /\ Len(a) \in Nat
      /\ Len(l \o a) = Len(l) + Len(a) /\ l \o a \in Seq(Message)
      /\ \A j \in 1 .. Len(l) : (l \o a)[j] = l[j]
  BY <1>1, <1>3
<1>6. InOrder(g, H, M, s) BY <1>1 DEF World
<1>7. p # 0 BY <1>2 DEF Id
<1>8. /\ \A j \in 1 .. Len(l \o a) : (l \o a)[j] = [from |-> p, no |-> j]
      /\ Len(l \o a) <= M[p]
  BY <1>2, <1>4, <1>6, <1>7 DEF InOrder
<1> HIDE DEF l
<1>9. CASE a = <<>>
  <2>1. l \o <<>> = l BY <1>5, ConcatEmptySeq
  <2>2. H = G BY <1>3, <1>9, <2>1 DEF l
  <2> QED BY <2>2
<1>10. CASE a # <<>>
  <2>1. Len(a) # 0 BY <1>10, EmptySeq
  <2> PICK k : k = Len(l \o a) OBVIOUS
  <2>2. M[p] \in Nat BY <1>2, <1>3
  <2>3. k \in Len(l) + 1 .. M[p] /\ k \in Nat BY <1>5, <1>8, <2>1, <2>2
  <2> DEFINE r == [j \in 1 .. k |-> IF j <= Len(l) THEN l[j] ELSE [from |-> p, no |-> j]]
  <2>4. \A j \in 1 .. k : (l \o a)[j] = r[j]
    <3> SUFFICES ASSUME NEW j \in 1 .. k PROVE (l \o a)[j] = r[j] OBVIOUS
    <3>1. CASE j <= Len(l)
      <4>1. j \in 1 .. Len(l) BY <1>5, <2>3, <3>1
      <4> QED BY <1>5, <3>1, <4>1
    <3>2. CASE ~(j <= Len(l)) BY <1>8, <3>2
    <3> QED BY <3>1, <3>2
  <2>5. l \o a = r
    <3>1. l \o a \in Seq(Message) /\ Len(l \o a) = k BY <1>5
    <3>2. \A j \in 1 .. k : r[j] \in Message
      <4>1. \A j \in 1 .. Len(l \o a) : (l \o a)[j] \in Message BY <3>1, ElementOfSeq
      <4> HIDE DEF r
      <4> QED BY <2>4, <3>1, <4>1
    <3>3. r \in [1 .. k -> Message] BY <3>2
    <3> HIDE DEF r
    <3>4. r \in Seq(Message) /\ Len(r) = k BY <2>3, <3>3
    <3> QED BY <2>4, <3>1, <3>4, SeqEqual
  <2>6. H = [G EXCEPT ![s] = r]
    <3> HIDE DEF r
    <3> QED BY <1>3, <2>5 DEF l
  <2> QED BY <2>3, <2>6 DEF l
<1> QED BY <1>9, <1>10

(* The first messages s waited for are confirmed; p has taken them.        *)
FirstTaken(K, L, G, p, s) ==
  \/ PendingIn(L) = PendingIn(K)
  \/ \E k \in 1 .. Len(PendingIn(K)[s]) :
       /\ \A j \in 1 .. k :
            \E i \in 1 .. Len(G[p]) : G[p][i] = PendingIn(K)[s][j]
       /\ PendingIn(L) = [PendingIn(K) EXCEPT ![s] = SubSeq(@, k + 1, Len(@))]

(* Messages are confirmed: the partner has taken them.                     *)
LEMMA ConfirmingIn ==
  ASSUME NEW h, NEW K, NEW N, NEW G, NEW M, NEW I, NEW g, NEW L, NEW P, NEW H, NEW s,
         Works(h, K, N, G, M, I, g, L, P, H, s), K[s].st \in Paired,
         NEW p, p = PeerIn(K)[s]
  PROVE  FirstTaken(K, L, G, p, s)
<1>1. /\ World(h, K, N, G, M, I) /\ World(g, L, P, H, M, I) /\ s \in Id
  BY DEF Works
<1>2. /\ Others(K, L, s) /\ K[s].st # L4SDSCED /\ L[s].st # L4SDSCED /\ Mild(K[s], L[s])
  BY DEF Works, Working
<1> DEFINE c == K[s]
           d == L[s]
<1> PICK k \in 0 .. Len(c.mbhdtx) :
      /\ Len(d.mbhdtx) = Len(c.mbhdtx) - k
      /\ \A j \in 1 .. Len(d.mbhdtx) : d.mbhdtx[j].m = c.mbhdtx[k + j].m
  BY <1>2 DEF Mild
<1>3. p = h[s].p /\ p = g[s].p /\ p \in Id BY WorkingState
<1>4. c.mbhdtx \in Seq(Entry) /\ d.mbhdtx \in Seq(Entry) BY <1>1, WorldTypes
<1> DEFINE a == ToConfirm(c)
           b == ToConfirm(d)
<1>5. /\ a \in Seq(Message) /\ Len(a) = Len(c.mbhdtx) /\ Len(a) \in Nat
      /\ \A j \in 1 .. Len(a) : a[j] = c.mbhdtx[j].m
      /\ b \in Seq(Message) /\ Len(b) = Len(d.mbhdtx) /\ Len(b) \in Nat
      /\ \A j \in 1 .. Len(b) : b[j] = d.mbhdtx[j].m
  BY <1>4, ToConfirmType
<1>6. PendingIn(K)[s] = a /\ PendingIn(L)[s] = b BY <1>1, <1>2 DEF PendingIn
<1>7. \A r \in Id : r # s => PendingIn(L)[r] = PendingIn(K)[r]
  BY <1>2 DEF PendingIn, Others
<1>8. /\ PendingIn(L) = [r \in Id |-> PendingIn(L)[r]]
      /\ PendingIn(K) = [r \in Id |-> PendingIn(K)[r]]
  BY DEF PendingIn
<1> HIDE DEF a, b
<1>9. k \in Nat /\ k <= Len(a) /\ Len(b) = Len(a) - k BY <1>4, <1>5
<1>10. \A j \in 1 .. Len(b) : b[j] = a[k + j]
  <2> SUFFICES ASSUME NEW j \in 1 .. Len(b) PROVE b[j] = a[k + j] OBVIOUS
  <2>1. k + j \in 1 .. Len(a) BY <1>5, <1>9
  <2>2. b[j] = d.mbhdtx[j].m /\ a[k + j] = c.mbhdtx[k + j].m BY <1>5, <2>1
  <2>3. d.mbhdtx[j].m = c.mbhdtx[k + j].m BY <1>5
  <2> QED BY <2>2, <2>3
<1>11. b = SubSeq(a, k + 1, Len(a))
  <2>1. /\ SubSeq(a, k + 1, Len(a)) \in Seq(Message)
        /\ Len(SubSeq(a, k + 1, Len(a))) = Len(a) - k
        /\ \A j \in 1 .. Len(SubSeq(a, k + 1, Len(a))) : SubSeq(a, k + 1, Len(a))[j] = a[k + j]
    BY <1>5, <1>9, SubSeqTail
  <2> DEFINE r == SubSeq(a, k + 1, Len(a))
  <2> HIDE DEF r
  <2>2. r \in Seq(Message) /\ Len(r) = Len(b) /\ \A j \in 1 .. Len(b) : b[j] = r[j]
    BY <1>9, <1>10, <2>1 DEF r
  <2>3. b = r BY <1>5, <2>2, SeqEqual
  <2> QED BY <2>3 DEF r
<1>12. PendingIn(L) = [PendingIn(K) EXCEPT ![s] = SubSeq(@, k + 1, Len(@))]
  <2> DEFINE r == SubSeq(a, k + 1, Len(a))
  <2>1. PendingIn(K)[s] = a /\ PendingIn(L)[s] = r BY <1>6, <1>11
  <2> HIDE DEF r
  <2>2. PendingIn(L) = [PendingIn(K) EXCEPT ![s] = r] BY <1>1, <1>7, <1>8, <2>1
  <2> QED BY <1>6, <2>2 DEF r
<1>13. CASE k = 0
  <2>1. \A j \in 1 .. Len(b) : b[j] = a[j] BY <1>5, <1>9, <1>10, <1>13
  <2>2. b = a BY <1>5, <1>9, <1>13, <2>1, SeqEqual
  <2>3. PendingIn(L) = PendingIn(K) BY <1>6, <1>7, <1>8, <2>2
  <2> QED BY <2>3 DEF FirstTaken
<1>14. CASE k # 0
  <2>1. k \in 1 .. Len(PendingIn(K)[s]) BY <1>5, <1>6, <1>9, <1>14
  <2>2. \A j \in 1 .. k : \E i \in 1 .. Len(G[p]) : G[p][i] = PendingIn(K)[s][j]
    <3> SUFFICES ASSUME NEW j \in 1 .. k
                 PROVE  \E i \in 1 .. Len(G[p]) : G[p][i] = a[j]
      BY <1>6
    <3> DEFINE B == Base(K, M, s)
    <3>1. /\ Listed(h, K, G, M, s) /\ Listed(g, L, H, M, s) /\ Agreed(h, K, N, s)
          /\ Unborn(h, K, G, M, I, p) /\ InOrder(h, G, M, p)
      BY <1>1, <1>3 DEF World
    <3>2. p # 0 BY <1>3 DEF Id
    <3>3. Base(L, M, s) <= Len(H[p]) BY <1>2, <1>3, <3>1, <3>2 DEF Listed
    <3>4. p # s
      <4>1. h[p].n = Peer(h[s].n) BY <1>2, <1>3, <3>1, <3>2 DEF Agreed
      <4>2. h[s].n \in Node BY <1>1, WorldTypes
      <4> QED BY <4>1, <4>2, PeerType
    <3>5. H[p] = G[p]
      <4>1. G \in [Id -> Seq(Message)] BY <1>1 DEF World, Types
      <4>2. PICK z \in Seq(Message) : H = [G EXCEPT ![s] = @ \o z] BY DEF Works, Working
      <4> QED BY <1>3, <3>4, <4>1, <4>2
    <3>6. B \in Int /\ Len(G[p]) \in Nat /\ M[s] \in Nat BY <1>1, <1>3, WorldTypes
    <3>7. Base(L, M, s) = B + k
      <4>1. Base(L, M, s) = M[s] - Len(b) /\ B = M[s] - Len(a) BY <1>5 DEF Base
      <4>2. \A m, x, y, z \in Int : y = x - z => m - y = (m - x) + z OBVIOUS
      <4>3. Len(a) \in Int /\ Len(b) \in Int /\ k \in Int /\ M[s] \in Int BY <1>5, <1>9, <3>6
      <4>4. M[s] - Len(b) = (M[s] - Len(a)) + k BY <1>9, <4>2, <4>3
      <4> QED BY <4>1, <4>4
    <3>8. B >= 0 /\ c.mbhdtx[j].m = [from |-> s, no |-> B + j] /\ a[j] = c.mbhdtx[j].m
      <4>1. j \in 1 .. Len(a) BY <1>5, <1>9
      <4>2. j \in 1 .. Len(c.mbhdtx) BY <1>5, <4>1
      <4>3. B >= 0 /\ c.mbhdtx[j].m = [from |-> s, no |-> B + j]
        BY <1>2, <3>1, <4>2 DEF Listed
      <4> QED BY <1>5, <4>1, <4>3
    <3> HIDE DEF B
    <3>9. B + j \in 1 .. Len(G[p])
      <4>1. B + k <= Len(G[p]) BY <3>3, <3>5, <3>7
      <4>2. \A x, l \in Int : x >= 0 /\ x + k <= l => x + j \in 1 .. l BY <1>9
      <4> QED BY <3>6, <3>8, <4>1, <4>2
    <3>10. h[p].p = s
      <4>1. G[p] # <<>>
        <5>1. Len(G[p]) # 0 BY <3>6, <3>9
        <5> QED BY <5>1
      <4>2. h[p].p # 0 BY <3>1, <4>1 DEF Unborn
      <4>3. h[p].p \in {0, s} BY <1>2, <1>3, <3>1, <3>2 DEF Agreed
      <4> QED BY <4>2, <4>3
    <3>11. G[p][B + j] = [from |-> s, no |-> B + j] BY <3>1, <3>9, <3>10 DEF InOrder
    <3> QED BY <3>8, <3>9, <3>11
  <2> QED BY <1>12, <2>1, <2>2 DEF FirstTaken
<1> QED BY <1>13, <1>14

(* A circuit that has no partner yet does nothing.                         *)
LEMMA WaitingIn ==
  ASSUME NEW h, NEW K, NEW N, NEW G, NEW M, NEW I, NEW g, NEW L, NEW P, NEW H, NEW s,
         Works(h, K, N, G, M, I, g, L, P, H, s), K[s].st = L4SLKSUP
  PROVE  PendingIn(L) = PendingIn(K) /\ H = G
<1>1. /\ World(h, K, N, G, M, I) /\ World(g, L, P, H, M, I) /\ s \in Id
  BY DEF Works
<1>2. /\ Others(K, L, s) /\ K[s].st # L4SDSCED /\ L[s].st # L4SDSCED /\ Mild(K[s], L[s])
  BY DEF Works, Working
<1>3. L[s].st = L4SLKSUP BY WorkingState
<1> DEFINE c == K[s]
           d == L[s]
<1>4. /\ Base(K, M, s) = 0 /\ G[s] = <<>> /\ Base(L, M, s) = 0 /\ H[s] = <<>>
  BY <1>1, <1>2, <1>3 DEF World, Listed
<1>5. G \in [Id -> Seq(Message)] /\ M[s] \in Nat BY <1>1, WorldTypes DEF World, Types
<1>6. H = G
  <2>1. PICK z \in Seq(Message) : H = [G EXCEPT ![s] = @ \o z] BY DEF Works, Working
  <2>2. H = [G EXCEPT ![s] = H[s]] BY <1>1, <1>5, <2>1
  <2> QED BY <1>4, <1>5, <2>2
<1>7. c.mbhdtx \in Seq(Entry) /\ d.mbhdtx \in Seq(Entry) BY <1>1, WorldTypes
<1>8. Len(c.mbhdtx) \in Nat /\ Len(d.mbhdtx) \in Nat BY <1>7
<1>9. Len(c.mbhdtx) = Len(d.mbhdtx) BY <1>4, <1>5, <1>8 DEF Base
<1>10. \A j \in 1 .. Len(d.mbhdtx) : d.mbhdtx[j].m = c.mbhdtx[j].m
  <2> PICK k \in 0 .. Len(c.mbhdtx) :
        /\ Len(d.mbhdtx) = Len(c.mbhdtx) - k
        /\ \A j \in 1 .. Len(d.mbhdtx) : d.mbhdtx[j].m = c.mbhdtx[k + j].m
    BY <1>2 DEF Mild
  <2>1. k = 0 BY <1>8, <1>9
  <2> QED BY <1>8, <2>1
<1>11. ToConfirm(d) = ToConfirm(c) BY <1>9, <1>10 DEF ToConfirm
<1>12. PendingIn(L) = PendingIn(K) BY <1>2, <1>11 DEF PendingIn, Others
<1> QED BY <1>6, <1>12

-----------------------------------------------------------------------------
(* Each step is one of L4Pipe's, or none.                                  *)

Shows(K, L) ==
  /\ Stages = StageIn(K, used.id) /\ Stages' = StageIn(L, used'.id)
  /\ Partners = PeerIn(K) /\ Partners' = PeerIn(L)
  /\ Unconfirmed = PendingIn(K) /\ Unconfirmed' = PendingIn(L)

Between(h, K, g, L) ==
  /\ World(h, K, net, got, used.msg, used.id)
  /\ World(g, L, net', got', used'.msg, used'.id)
  /\ Shows(K, L)

LEMMA OpeningPipe ==
  ASSUME NEW h, NEW K, NEW g, NEW L, Between(h, K, g, L),
         used'.id = used.id + 1, used'.id \in Id, got' = got, used'.msg = used.msg,
         Opening(K, L, used'.id)
  PROVE  Pipe!Begin(used'.id)
<1> DEFINE J == used'.id
<1>1. World(h, K, net, got, used.msg, used.id) /\ World(g, L, net', got', used.msg, J)
  BY DEF Between
<1>2. /\ StageIn(K, used.id)[J] = "new"
      /\ StageIn(L, J) = [StageIn(K, used.id) EXCEPT ![J] = "open"]
      /\ \E p \in Id \cup {0} :
           /\ p # 0 => p \in Id /\ \A q \in Id : PeerIn(K)[q] # p
           /\ PeerIn(L) = [PeerIn(K) EXCEPT ![J] = p]
      /\ PendingIn(L) = PendingIn(K)
  <2>1. World(g, L, net', got, used.msg, J) BY <1>1
  <2>2. J = used.id + 1 /\ J \in Id /\ Opening(K, L, J) OBVIOUS
  <2> HIDE DEF J
  <2> QED BY <1>1, <2>1, <2>2, OpeningIn
<1>3. /\ Stages = StageIn(K, used.id) /\ Stages' = StageIn(L, J)
      /\ Partners = PeerIn(K) /\ Partners' = PeerIn(L)
      /\ Unconfirmed' = Unconfirmed
  BY <1>2 DEF Between, Shows
<1> QED BY <1>2, <1>3 DEF Pipe!Begin, Pipe!Single

LEMMA MeetingPipe ==
  ASSUME NEW h, NEW K, NEW g, NEW L, Between(h, K, g, L),
         used'.id = used.id, got' = got, used'.msg = used.msg,
         NEW s \in Id, Meeting(K, L, s)
  PROVE  Pipe!Meet(s)
<1>1. World(h, K, net, got, used.msg, used.id) /\ World(g, L, net', got, used.msg, used.id)
  BY DEF Between
<1>2. /\ StageIn(K, used.id)[s] = "open" /\ PeerIn(K)[s] = 0
      /\ \E p \in Id : /\ \A q \in Id : PeerIn(K)[q] # p
                       /\ PeerIn(L) = [PeerIn(K) EXCEPT ![s] = p]
      /\ StageIn(L, used.id) = StageIn(K, used.id) /\ PendingIn(L) = PendingIn(K)
  BY <1>1, MeetingIn
<1>3. /\ Stages = StageIn(K, used.id) /\ Stages' = Stages
      /\ Partners = PeerIn(K) /\ Partners' = PeerIn(L)
      /\ Unconfirmed' = Unconfirmed
  BY <1>2 DEF Between, Shows
<1> QED BY <1>2, <1>3 DEF Pipe!Meet, Pipe!Single

LEMMA OfferingPipe ==
  ASSUME NEW h, NEW K, NEW g, NEW L, Between(h, K, g, L),
         used'.id = used.id, got' = got,
         NEW s \in Id, Offering(K, L, used.msg, used'.msg, s)
  PROVE  Pipe!Offer(s)
<1>1. World(h, K, net, got, used.msg, used.id) /\ L \in [Id -> Good]
  <2>1. World(g, L, net', got', used'.msg, used'.id) BY DEF Between
  <2>2. L \in [Id -> Good] BY <2>1 DEF World, Types
  <2> QED BY <2>2 DEF Between
<1>2. /\ StageIn(K, used.id)[s] = "open" /\ StageIn(L, used.id) = StageIn(K, used.id)
      /\ PeerIn(L) = PeerIn(K) /\ used'.msg = [used.msg EXCEPT ![s] = @ + 1]
      /\ PendingIn(L) =
           [PendingIn(K) EXCEPT ![s] = Append(@, [from |-> s, no |-> used'.msg[s]])]
  BY <1>1, OfferingIn
<1>3. /\ Stages = StageIn(K, used.id) /\ Stages' = Stages /\ Partners' = Partners
      /\ Unconfirmed = PendingIn(K) /\ Unconfirmed' = PendingIn(L)
  BY <1>2 DEF Between, Shows
<1> QED BY <1>2, <1>3 DEF Pipe!Offer, Pipe!Message

LEMMA EndingPipe ==
  ASSUME NEW h, NEW K, NEW g, NEW L, Between(h, K, g, L),
         used'.id = used.id, got' = got, used'.msg = used.msg, Ending(K, L)
  PROVE  Pipe!End \/ UNCHANGED Pipe!vars
<1> DEFINE over == {s \in Id : Stages[s] = "open" /\ Stages'[s] = "ended"}
<1>1. World(h, K, net, got, used.msg, used.id) /\ L \in [Id -> Good]
  <2>1. World(g, L, net', got', used'.msg, used'.id) BY DEF Between
  <2>2. L \in [Id -> Good] BY <2>1 DEF World, Types
  <2> QED BY <2>2 DEF Between
<1>2. /\ Stages = StageIn(K, used.id) /\ Stages' = StageIn(L, used.id)
      /\ Partners = PeerIn(K) /\ Partners' = PeerIn(L)
      /\ Unconfirmed = PendingIn(K) /\ Unconfirmed' = PendingIn(L)
  BY DEF Between, Shows
<1>3. /\ Stages' = [s \in Id |-> IF s \in over THEN "ended" ELSE Stages[s]]
      /\ Partners' = [s \in Id |-> IF s \in over THEN 0 ELSE Partners[s]]
      /\ Unconfirmed' = [s \in Id |-> IF s \in over THEN <<>> ELSE Unconfirmed[s]]
  BY <1>1, <1>2, EndingIn
<1>4. CASE over # {} BY <1>3, <1>4 DEF Pipe!End
<1>5. CASE over = {}
  <2>1. /\ Stages \in [Id -> {"new", "ended", "open"}]
        /\ Partners = [s \in Id |-> Partners[s]]
        /\ Unconfirmed = [s \in Id |-> Unconfirmed[s]]
    BY DEF Stages, Partners, Unconfirmed
  <2>2. Stages' = Stages /\ Partners' = Partners /\ Unconfirmed' = Unconfirmed
    BY <1>3, <1>5, <2>1
  <2> QED BY <2>2 DEF Pipe!vars
<1> QED BY <1>4, <1>5

LEMMA WorkingPipe ==
  ASSUME NEW h, NEW K, NEW g, NEW L, Between(h, K, g, L),
         used'.id = used.id, used'.msg = used.msg,
         NEW s \in Id, Working(K, L, got, got', s)
  PROVE  Pipe!Work(s) \/ UNCHANGED Pipe!vars
<1> DEFINE W == Works(h, K, net, got, used.msg, used.id, g, L, net', got', s)
<1>1. W BY DEF Between, Works
<1>2. /\ StageIn(K, used.id)[s] = "open" /\ StageIn(L, used.id) = StageIn(K, used.id)
      /\ PeerIn(L) = PeerIn(K)
      /\ K[s].st = L4SLKSUP \/ K[s].st \in Paired
      /\ K[s].st \in Paired => PeerIn(K)[s] = h[s].p /\ h[s].p \in Id
  BY <1>1, WorkingState
<1>3. /\ Stages = StageIn(K, used.id) /\ Stages' = Stages
      /\ Partners = PeerIn(K) /\ Partners' = Partners
      /\ Unconfirmed = PendingIn(K) /\ Unconfirmed' = PendingIn(L)
  BY <1>2 DEF Between, Shows
<1>4. CASE K[s].st = L4SLKSUP
  <2>1. PendingIn(L) = PendingIn(K) /\ got' = got BY <1>1, <1>4, WaitingIn
  <2> QED BY <1>3, <2>1 DEF Pipe!vars
<1>5. CASE K[s].st \in Paired
  <2>1. PICK p : p = PeerIn(K)[s] OBVIOUS
  <2>2. \/ got' = got
        \/ \E k \in Len(got[s]) + 1 .. used.msg[p] :
             got' = [got EXCEPT ![s] = [j \in 1 .. k |->
                       IF j <= Len(@) THEN @[j] ELSE [from |-> p, no |-> j]]]
    BY <1>1, <1>5, <2>1, TakingIn
  <2>3. FirstTaken(K, L, got, p, s) BY <1>1, <1>5, <2>1, ConfirmingIn
  <2> HIDE DEF W
  <2>4. Partners[s] = p BY <1>3, <2>1
  <2>5. Pipe!Take(s) \/ UNCHANGED got BY <2>2, <2>4 DEF Pipe!Take, Pipe!Message
  <2>6. Pipe!Confirm(s) \/ UNCHANGED Unconfirmed BY <1>3, <2>3, <2>4 DEF Pipe!Confirm, FirstTaken
  <2>7. p # 0
    <3>1. p \in Id BY <1>2, <1>5, <2>1
    <3> QED BY <3>1 DEF Id
  <2>8. Stages[s] = "open" /\ Partners[s] # 0 BY <1>2, <1>3, <2>4, <2>7
  <2> QED BY <1>3, <2>5, <2>6, <2>8 DEF Pipe!Work
<1> QED BY <1>2, <1>4, <1>5

LEMMA NextPipe ==
  ASSUME OrderedNetwork, IInv, [Next]_vars
  PROVE  [Pipe!Next]_(Pipe!vars)
<1>1. Inv /\ Inv' BY NextInv DEF IInv
<1>2. PICK h : Here(h) BY IInvHere
<1>3. CASE UNCHANGED vars
  <2>1. cir' = cir /\ net' = net /\ got' = got /\ used' = used BY <1>3 DEF vars
  <2>2. Here(h)' BY <1>2, <2>1 DEF Here
  <2>3. Stages' = Stages /\ Partners' = Partners /\ Unconfirmed' = Unconfirmed
    BY <1>1, <1>2, <2>1, <2>2, Seen, SeenNext
  <2> QED BY <2>1, <2>3 DEF Pipe!vars
<1>4. CASE Next
  <2>1. PICK g : Follows(h, g) BY <1>1, <1>2, <1>4, NextWorld
  <2> DEFINE K == Of(h, cir)
             L == Of(g, cir')
  <2>2. Here(g)' /\ Step(K, L, got, got', used.msg, used'.msg, used.id, used'.id)
    BY <2>1 DEF Follows
  <2>3. Between(h, K, g, L)
    <3>1. Shows(K, L) BY <1>1, <1>2, <2>2, Seen, SeenNext DEF Shows
    <3>2. World(h, K, net, got, used.msg, used.id) BY <1>2 DEF Here
    <3>3. World(g, L, net', got', used'.msg, used'.id) BY <2>2 DEF Here
    <3> QED BY <3>1, <3>2, <3>3 DEF Between
  <2> HIDE DEF K, L
  <2>4. CASE used'.id = used.id + 1 /\ used'.id \in Id /\ got' = got
             /\ used'.msg = used.msg /\ Opening(K, L, used'.id)
    BY <2>3, <2>4, OpeningPipe DEF Pipe!Next
  <2>5. CASE used'.id = used.id /\ got' = got /\ used'.msg = used.msg
             /\ \E s \in Id : Meeting(K, L, s)
    BY <2>3, <2>5, MeetingPipe DEF Pipe!Next
  <2>6. CASE used'.id = used.id /\ got' = got
             /\ \E s \in Id : Offering(K, L, used.msg, used'.msg, s)
    BY <2>3, <2>6, OfferingPipe DEF Pipe!Next
  <2>7. CASE used'.id = used.id /\ used'.msg = used.msg
             /\ \E s \in Id : Working(K, L, got, got', s)
    BY <2>3, <2>7, WorkingPipe DEF Pipe!Next
  <2>8. CASE used'.id = used.id /\ got' = got /\ used'.msg = used.msg /\ Ending(K, L)
    BY <2>3, <2>8, EndingPipe DEF Pipe!Next
  <2> QED BY <2>2, <2>4, <2>5, <2>6, <2>7, <2>8 DEF Step
<1> QED BY <1>3, <1>4

LEMMA InitPipe == ASSUME Init PROVE Pipe!Init
<1>1. \A n \in Node, i \in Index : cir[n][i] = Blank BY DEF Init
<1>2. \A s \in Id : Where(s) = {} BY <1>1, BlankIs DEF Where
<1>3. used.id = 0 /\ used.msg = [s \in Id |-> 0] /\ got = [s \in Id |-> <<>>] BY DEF Init
<1>4. Stages = [s \in Id |-> "new"]
  <2>1. \A s \in Id : s > used.id BY <1>3 DEF Id
  <2> QED BY <2>1 DEF Stages
<1>5. Partners = [s \in Id |-> 0] BY <1>2 DEF Partners
<1>6. Unconfirmed = [s \in Id |-> <<>>] BY <1>2 DEF Unconfirmed
<1> QED BY <1>3, <1>4, <1>5, <1>6 DEF Pipe!Init

(* Level 4 keeps what it promises to level 7 (L4Pipe): what l4rx() hands   *)
(* over at a circuit is, from its first message on, in order, once and     *)
(* without a gap, what was queued at its partner, and a message leaves the *)
(* list of its sender (chksts()) only when it was handed over.  So it is   *)
(* for every window up to half of the numbers, every number of circuits    *)
(* and retries, with users who come and go, busy ends, lost datagrams and  *)
(* restarts, over a network that neither repeats nor reorders.             *)
THEOREM ImplementsPipe == ASSUME OrderedNetwork PROVE Spec => PipeSpec
<1>1. Init => Pipe!Init BY InitPipe
<1>2. IInv /\ [Next]_vars => [Pipe!Next]_(Pipe!vars) BY NextPipe
<1>3. Spec => []IInv BY AlwaysIInv
<1> QED BY <1>1, <1>2, <1>3, PTL DEF Spec, PipeSpec, Pipe!Spec

-----------------------------------------------------------------------------
(* Only a connected circuit keeps messages that came too early.            *)

Swept(c) == c.st # L4SIXFER => c.mbhdos = [o \in 1 .. Mod - 1 |-> NoMessage]

AllSwept == \A n \in Node, i \in Index : Swept(cir[n][i])

LEMMA SweptEnd ==
  ASSUME NEW c, Shaped(c)
  PROVE  /\ Swept(L4nsta(c))
         /\ ClrCir(c).mbhdos = [o \in 1 .. Mod - 1 |-> NoMessage]
<1> DEFINE none == [o \in 1 .. Mod - 1 |-> NoMessage]
           d == ClrCir(c)
<1>1. IsRec(c, CircuitFields) BY DEF Shaped
<1>2. d.mbhdos = none BY <1>1 DEF ClrCir, IsRec, CircuitFields
<1>3. IsRec(d, CircuitFields) BY ClrCirShaped DEF Shaped
<1> HIDE DEF d, none
<1>4. L4nsta(c) = [d EXCEPT !.st = L4SDSCED, !.mbhdtx = <<>>, !.numrx = 0]
  BY DEF L4nsta, d
<1>5. L4nsta(c).mbhdos = none BY <1>2, <1>3, <1>4 DEF IsRec, CircuitFields
<1> QED BY <1>2, <1>5 DEF Swept, d, none

(* What leaves state and mbhdos alone.                                     *)
Saves(c, d) == d.st = c.st /\ d.mbhdos = c.mbhdos

LEMMA SavesSwept == ASSUME NEW c, NEW d, Saves(c, d), Swept(c) PROVE Swept(d)
BY DEF Saves, Swept

LEMMA SavesIs ==
  ASSUME NEW c, Shaped(c)
  PROVE  /\ Saves(c, AckSent(c))
         /\ \A v : Saves(c, [c EXCEPT !.traout = v])
         /\ \A v : Saves(c, [c EXCEPT !.l4flag = v])
         /\ \A v : Saves(c, [c EXCEPT !.l4flag = v, !.l4rs = 0])
         /\ \A v, w : Saves(c, [c EXCEPT !.traout = v, !.l4try = w])
         /\ \A v, w : Saves(c, [c EXCEPT !.mbhdtx = v, !.l4flag = w])
<1>1. IsRec(c, CircuitFields) BY DEF Shaped
<1>2. Saves(c, AckSent(c)) BY <1>1 DEF Saves, AckSent, IsRec, CircuitFields
<1>3. ASSUME NEW v, NEW w
      PROVE  /\ Saves(c, [c EXCEPT !.traout = v])
             /\ Saves(c, [c EXCEPT !.l4flag = v])
             /\ Saves(c, [c EXCEPT !.l4flag = v, !.l4rs = 0])
             /\ Saves(c, [c EXCEPT !.traout = v, !.l4try = w])
             /\ Saves(c, [c EXCEPT !.mbhdtx = v, !.l4flag = w])
  BY <1>1 DEF Saves, IsRec, CircuitFields
<1> QED BY <1>2, <1>3

LEMMA SweptEndCir == ASSUME NEW x, Ctx(x) PROVE Swept(EndCir(x).c)
<1> DEFINE c == ClrCir(x.c)
           x1 == [x EXCEPT !.c = c]
           y == SDisrq(x1)
           d == [c EXCEPT !.traout = TRUE]
           e == [d EXCEPT !.st = L4SDSCRQ]
           none == [o \in 1 .. Mod - 1 |-> NoMessage]
<1>1. Shaped(c) /\ c.mbhdos = none BY ClrCirShaped, SweptEnd DEF Ctx
<1>2. EndCir(x) = [y EXCEPT !.c.st = L4SDSCRQ] BY DEF EndCir
<1> HIDE DEF c, none
<1>3. Ctx(x1) /\ x1.c = c BY <1>1, SetCircuit
<1> HIDE DEF x1
<1>4. Ctx(y) /\ y.c = d BY <1>3, SDisrqType
<1>5. d.mbhdos = none /\ Shaped(d)
  <2>1. Saves(c, d) BY <1>1, SavesIs
  <2>2. Shaped(d) BY <1>1, TimerType
  <2> QED BY <1>1, <2>1, <2>2 DEF Saves
<1> HIDE DEF y, d
<1>6. e.mbhdos = none BY <1>5 DEF Shaped, IsRec, CircuitFields
<1>7. EndCir(x).c = e BY <1>2, <1>4 DEF Ctx, IsRec, ContextFields
<1> HIDE DEF e
<1> QED BY <1>6, <1>7 DEF Swept, none

LEMMA SweptInftra ==
  ASSUME NEW x, Ctx(x), Sound(x.c), Swept(x.c), NEW f \in Frame
  PROVE  Swept(RxInftra(x, f).c)
<1> DEFINE y == Chksts(x, f)
           ofs == (f.a - y.c.l4vr) % Mod
           kept == [y.c EXCEPT !.mbhdos[ofs] = IF @ = NoMessage THEN f.m ELSE @,
                               !.l4rs = IF @ = 0 THEN 1 ELSE @,
                               !.acktim = @ \/ y.c.l4rs = 0]
<1>1. RxInftra(x, f) = IF x.c.st # L4SIXFER THEN x
                       ELSE IF ~Passes(y.c, ofs) THEN [y EXCEPT !.c.acktim = TRUE]
                       ELSE IF ofs = 0 THEN Takfrm(y, f, InRow(y.c))
                       ELSE [y EXCEPT !.c = kept]
  BY DEF RxInftra
<1>2. CASE x.c.st # L4SIXFER BY <1>1, <1>2
<1>3. CASE x.c.st = L4SIXFER
  <2>1. Ctx(y) /\ Sound(y.c) /\ y.c.st = L4SIXFER BY <1>3, ChkstsSound DEF Result
  <2>2. Takfrm(y, f, InRow(y.c)).c.st = L4SIXFER BY <2>1, InRowType, TakfrmSound
  <2>3. IsRec(y, ContextFields) /\ IsRec(y.c, CircuitFields) BY <2>1 DEF Ctx, Sound, Shaped
  <2> HIDE DEF y, ofs
  <2>4. kept.st = L4SIXFER BY <2>1, <2>3 DEF IsRec, CircuitFields
  <2>5. [y EXCEPT !.c.acktim = TRUE].c.st = L4SIXFER
    BY <2>1, <2>3 DEF IsRec, ContextFields, CircuitFields
  <2> HIDE DEF kept
  <2>6. [y EXCEPT !.c = kept].c = kept BY <2>3 DEF IsRec, ContextFields
  <2> QED BY <1>1, <1>3, <2>2, <2>4, <2>5, <2>6 DEF Swept
<1> QED BY <1>2, <1>3

LEMMA SweptKnown ==
  ASSUME NEW x, Ctx(x), Sound(x.c), Swept(x.c), NEW f \in Frame, f.op # "CONREQ"
  PROVE  Swept(RxKnown(x, f).c)
<1>1. Shaped(x.c) /\ Swept(L4nsta(x.c)) BY SweptEnd DEF Ctx
<1>2. IsRec(x, ContextFields) BY DEF Ctx
<1>3. f.op \in DOMAIN Opcode BY DEF Frame, Datagram
<1>4. CASE f.op = "CONACK"
  <2> DEFINE d == ClrCir(x.c)
             c == [d EXCEPT !.window = f.win, !.idpart = f.b, !.idxpar = f.a, !.st = L4SIXFER]
  <2>1. RxKnown(x, f) = IF x.c.st # L4SLKSUP THEN x
                        ELSE [x EXCEPT !.c = IF f.choke THEN L4nsta(x.c) ELSE c]
    BY <1>4 DEF RxKnown, RxConack
  <2>2. IsRec(d, CircuitFields) BY <1>1, ClrCirShaped DEF Shaped
  <2> HIDE DEF d
  <2>3. c.st = L4SIXFER BY <2>2 DEF IsRec, CircuitFields
  <2>4. Swept(c) BY <2>3 DEF Swept
  <2> HIDE DEF c
  <2> QED BY <1>1, <1>2, <2>1, <2>4 DEF IsRec, ContextFields
<1>5. CASE f.op = "DISREQ"
  <2> DEFINE y == Send(x, ToPartner(x.c, "DISACK"))
  <2>1. RxKnown(x, f) = [y EXCEPT !.c = L4nsta(x.c)] BY <1>5 DEF RxKnown
  <2>2. IsRec(y, ContextFields) BY <1>2 DEF Send, IsRec
  <2> HIDE DEF y
  <2>3. RxKnown(x, f).c = L4nsta(x.c) BY <2>1, <2>2 DEF IsRec, ContextFields
  <2> QED BY <1>1, <2>3
<1>6. CASE f.op = "DISACK"
  <2>1. RxKnown(x, f) = IF x.c.st = L4SDSCRQ THEN [x EXCEPT !.c = L4nsta(x.c)] ELSE x
    BY <1>6 DEF RxKnown
  <2>2. [x EXCEPT !.c = L4nsta(x.c)].c = L4nsta(x.c) BY <1>2 DEF IsRec, ContextFields
  <2> QED BY <1>1, <2>1, <2>2
<1>7. CASE f.op = "INFTRA"
  <2>1. RxKnown(x, f) = RxInftra(x, f) BY <1>7 DEF RxKnown
  <2> QED BY <2>1, SweptInftra
<1>8. CASE f.op = "INFACK"
  <2>1. RxKnown(x, f) = IF x.c.st = L4SIXFER THEN Chksts(x, f) ELSE x
    BY <1>8 DEF RxKnown
  <2>2. CASE x.c.st = L4SIXFER
    <3>1. Chksts(x, f).c.st = L4SIXFER BY <2>2, ChkstsSound
    <3> QED BY <2>1, <2>2, <3>1 DEF Swept
  <2> QED BY <2>1, <2>2
<1> QED BY <1>3, <1>4, <1>5, <1>6, <1>7, <1>8 DEF Opcode

LEMMA SweptConreq ==
  ASSUME NEW x, Ctx(x), NEW f \in Frame, NEW id
  PROVE  Swept(RxConreq(x, f, id).c)
<1> DEFINE d == ClrCir(x.c)
           c == [d EXCEPT !.idxpar = f.idx, !.idpart = f.id, !.ideige = id,
                          !.window = Least(f.win, Trawir[x.n]), !.st = L4SIXFER]
           y == [x EXCEPT !.c = c]
<1>1. IsRec(d, CircuitFields) BY ClrCirShaped DEF Ctx, Shaped
<1>2. RxConreq(x, f, id) = [y EXCEPT !.out = Append(@, ConAck(y))] BY DEF RxConreq, Send
<1> HIDE DEF d
<1>3. c.st = L4SIXFER BY <1>1 DEF IsRec, CircuitFields
<1> HIDE DEF c
<1>4. y.c = c /\ IsRec(y, ContextFields) BY DEF Ctx, IsRec, ContextFields
<1> HIDE DEF y
<1>5. RxConreq(x, f, id).c = c BY <1>2, <1>4 DEF IsRec, ContextFields
<1> QED BY <1>3, <1>5 DEF Swept

LEMMA SweptRest ==
  ASSUME NEW x, Ctx(x), Sound(x.c), Swept(x.c), NEW k \in 0 .. x.c.numrx, NEW mem, NEW early
  PROVE  Swept(L4rest(x, k, mem, early).c)
<1> DEFINE c == Clr4rx(x.c, k)
           y == [x EXCEPT !.c = c]
           cb == [c EXCEPT !.l4flag = c.l4flag \cup {"BUSY"}, !.l4rs = 0]
           cf == [c EXCEPT !.l4flag = c.l4flag \ {"BUSY"}]
           busy == [y EXCEPT !.c = cb]
           free == [y EXCEPT !.c = cf]
<1>1. Shaped(x.c) /\ IsRec(x, ContextFields) BY DEF Ctx
<1>2. Shaped(c) /\ c.st = x.c.st BY <1>1, TakenAlike DEF Alike
<1>3. L4rest(x, k, mem, early) =
        IF "DIMM" \in x.c.l4flag THEN [x EXCEPT !.c = L4nsta(x.c)]
        ELSE IF x.c.st # L4SIXFER THEN x
        ELSE IF "DSLE" \in x.c.l4flag /\ x.c.mbhdtx = <<>> THEN EndCir(x)
        ELSE IF "BUSY" \in c.l4flag
          THEN IF mem = "high" /\ Room(c) THEN SndAck(free) ELSE y
        ELSE IF mem = "low" THEN SndAck(busy)
        ELSE IF c.acktim /\ early /\ RxUnack(c) >= c.window \div 2 /\ Room(c)
          THEN SndAck(y)
        ELSE y
  BY DEF L4rest
<1> HIDE DEF c
<1>4. Ctx(y) /\ y.c = c BY <1>2, SetCircuit
<1> HIDE DEF y
<1>5. cb.st = c.st /\ cf.st = c.st BY <1>2, SavesIs DEF Saves
<1>6. Shaped(cb) /\ Shaped(cf)
  <2>1. c.l4flag \in SUBSET Flags BY <1>2 DEF Shaped, Typed
  <2>2. c.l4flag \cup {"BUSY"} \in SUBSET Flags /\ c.l4flag \ {"BUSY"} \in SUBSET Flags
    BY <2>1 DEF Flags
  <2>3. "PBUSY" \in c.l4flag \cup {"BUSY"} => "PBUSY" \in c.l4flag OBVIOUS
  <2>4. "PBUSY" \in c.l4flag \ {"BUSY"} => "PBUSY" \in c.l4flag OBVIOUS
  <2>5. Alike(c, cb) BY <1>2, <2>2, <2>3, BusyAlike
  <2>6. Alike(c, cf) BY <1>2, <2>2, <2>4, BusyAlike
  <2> QED BY <2>5, <2>6 DEF Alike
<1> HIDE DEF cb, cf
<1>7. Ctx(busy) /\ busy.c = cb /\ Ctx(free) /\ free.c = cf BY <1>4, <1>6, SetCircuit
<1> HIDE DEF busy, free
<1>8. /\ SndAck(y).c = AckSent(c) /\ SndAck(busy).c = AckSent(cb)
      /\ SndAck(free).c = AckSent(cf)
  BY <1>4, <1>7, SndAckType
<1>9. AckSent(c).st = c.st /\ AckSent(cb).st = c.st /\ AckSent(cf).st = c.st
  BY <1>2, <1>5, <1>6, SavesIs DEF Saves
<1>10. Swept([x EXCEPT !.c = L4nsta(x.c)].c)
  <2>1. [x EXCEPT !.c = L4nsta(x.c)].c = L4nsta(x.c) BY <1>1 DEF IsRec, ContextFields
  <2> QED BY <1>1, <2>1, SweptEnd
<1>11. Swept(EndCir(x).c) BY SweptEndCir
<1>12. x.c.st = L4SIXFER =>
         Swept(SndAck(free).c) /\ Swept(y.c) /\ Swept(SndAck(busy).c) /\ Swept(SndAck(y).c)
  BY <1>2, <1>4, <1>8, <1>9 DEF Swept
<1> QED BY <1>3, <1>10, <1>11, <1>12

LEMMA SweptTimeout ==
  ASSUME NEW x, Ctx(x), Sound(x.c), Swept(x.c)
  PROVE  Swept(Timeout(x).c) /\ Shaped(Timeout(x).c)
<1> DEFINE c == [x.c EXCEPT !.traout = FALSE]
           d == [c EXCEPT !.l4try = Tries(c)]
           y == [x EXCEPT !.c = d]
           e == [c EXCEPT !.l4flag = c.l4flag \ {"PBUSY"}]
<1>1. Shaped(x.c) /\ IsRec(x, ContextFields) BY DEF Ctx
<1>2. Timeout(x) = IF c.st = L4SIXFER THEN [x EXCEPT !.c = e]
                   ELSE IF Tries(c) >= Retry THEN [x EXCEPT !.c = L4nsta(c)]
                   ELSE IF c.st = L4SLKSUP THEN SConrq(y) ELSE SDisrq(y)
  BY DEF Timeout, Unchoked
<1>3. Shaped(c) /\ Saves(x.c, c) BY <1>1, TimerType, SavesIs
<1> HIDE DEF c
<1>4. Swept(c) BY <1>3, SavesSwept
<1>5. Swept(e)
  <2>1. Saves(c, e) BY <1>3, SavesIs
  <2> QED BY <1>4, <2>1, SavesSwept
<1>6. Swept(L4nsta(c)) BY <1>3, SweptEnd
<1>7. Saves(c, d) BY <1>3 DEF Saves, Shaped, IsRec, CircuitFields
<1>8. IsRec(y, ContextFields) /\ y.c = d BY <1>1 DEF IsRec, ContextFields
<1>9. Shaped(Timeout(x).c) BY TimeoutSound DEF Result, Ctx
<1>10. SConrq(y).c = [y.c EXCEPT !.traout = TRUE] /\ SDisrq(y).c = [y.c EXCEPT !.traout = TRUE]
  BY <1>8 DEF SConrq, SDisrq, Send, IsRec, ContextFields
<1>11. Saves(c, [d EXCEPT !.traout = TRUE])
  BY <1>3 DEF Saves, Shaped, IsRec, CircuitFields
<1> HIDE DEF d
<1>12. Swept(SConrq(y).c) /\ Swept(SDisrq(y).c) BY <1>4, <1>8, <1>10, <1>11, SavesSwept
<1> HIDE DEF y, e
<1>13. /\ [x EXCEPT !.c = e].c = e /\ [x EXCEPT !.c = L4nsta(c)].c = L4nsta(c)
  BY <1>1 DEF IsRec, ContextFields
<1> QED BY <1>2, <1>5, <1>6, <1>9, <1>12, <1>13

LEMMA SweptRepeat ==
  ASSUME NEW x, Ctx(x), Sound(x.c), x.c.st = L4SIXFER, NEW j
  PROVE  Swept(Repeat(x, j).c)
<1> DEFINE tries == x.c.mbhdtx[j].l4trie + 1
           y == [x EXCEPT !.c.mbhdtx[j].l4trie = tries]
           a == (x.c.l4rxvs + j - 1) % Mod
           m == x.c.mbhdtx[j].m
<1>1. Shaped(x.c) /\ IsRec(x, ContextFields) /\ IsRec(x.c, CircuitFields) BY DEF Ctx, Shaped
<1>2. Repeat(x, j) = IF tries >= Retry THEN [x EXCEPT !.c = L4nsta(x.c)] ELSE SndFrm(y, a, m)
  BY DEF Repeat
<1> HIDE DEF tries, a, m
<1>3. y.c.st = L4SIXFER /\ IsRec(y, ContextFields) /\ IsRec(y.c, CircuitFields)
  BY <1>1 DEF IsRec, ContextFields, CircuitFields
<1> HIDE DEF y
<1>4. SndFrm(y, a, m).c = AckSent(y.c) BY <1>3 DEF SndFrm, Send, IsRec, ContextFields
<1>5. AckSent(y.c).st = L4SIXFER BY <1>3 DEF AckSent, IsRec, CircuitFields
<1>6. [x EXCEPT !.c = L4nsta(x.c)].c = L4nsta(x.c) BY <1>1 DEF IsRec, ContextFields
<1>7. Swept(L4nsta(x.c)) BY <1>1, SweptEnd
<1>8. Swept(SndFrm(y, a, m).c) BY <1>4, <1>5 DEF Swept
<1> QED BY <1>2, <1>6, <1>7, <1>8

LEMMA SweptAckDue ==
  ASSUME NEW x, Ctx(x), Swept(x.c)
  PROVE  Swept(AckDue(x).c)
<1> DEFINE c == [x.c EXCEPT !.l4flag = x.c.l4flag \cup {"BUSY"}, !.l4rs = 0]
           y == [x EXCEPT !.c = c]
<1>1. Shaped(x.c) /\ IsRec(x, ContextFields) BY DEF Ctx
<1>2. AckDue(x) = SndAck(y) \/ AckDue(x) = SndAck(x) BY DEF AckDue
<1>3. SndAck(x).c = AckSent(x.c) BY SndAckType
<1>4. Saves(x.c, c) /\ IsRec(c, CircuitFields)
  BY <1>1, SavesIs DEF Shaped, IsRec
<1> HIDE DEF c
<1>5. y.c = c /\ IsRec(y, ContextFields) BY <1>1 DEF IsRec, ContextFields
<1> HIDE DEF y
<1>6. SndAck(y).c = AckSent(c) BY <1>5 DEF SndAck, Send, IsRec, ContextFields
<1>7. Saves(c, AckSent(c)) BY <1>4 DEF Saves, AckSent, IsRec, CircuitFields
<1>8. Swept(AckSent(c)) BY <1>4, <1>7, SavesSwept
<1>9. Swept(AckSent(x.c)) BY <1>1, SavesIs, SavesSwept
<1> QED BY <1>2, <1>3, <1>6, <1>8, <1>9

LEMMA SweptNoActivity ==
  ASSUME NEW x, Ctx(x)
  PROVE  Swept(NoActivity(x).c)
<1> DEFINE c == [x.c EXCEPT !.l4vs = (x.c.l4vs + 1) % Mod]
           y == [x EXCEPT !.c = c]
           z == SndFrm(y, x.c.l4vs, Notice(x.c.ideige))
<1>1. /\ IsRec(x.c, CircuitFields) /\ Typed(x.c) /\ IsRec(x, ContextFields)
  BY DEF Ctx, Shaped
<1>2. x.c.l4vs \in Nat /\ x.c.l4vs + 1 \in Int BY <1>1, ModType DEF Typed
<1>3. (x.c.l4vs + 1) % Mod \in 0 .. Mod - 1 BY <1>2, ModType, ModRange
<1>4. Shaped(c)
  <2> PICK v \in 0 .. Mod - 1 : v = (x.c.l4vs + 1) % Mod BY <1>3
  <2>1. c = [x.c EXCEPT !.l4vs = v] OBVIOUS
  <2> HIDE DEF c
  <2> QED BY <1>1, <2>1 DEF Shaped, IsRec, CircuitFields, Typed
<1>5. [x EXCEPT !.c.l4vs = (@ + 1) % Mod] = y BY <1>1 DEF IsRec, ContextFields
<1>6. NoActivity(x) = EndCir(z) BY <1>5 DEF NoActivity
<1> HIDE DEF c
<1>7. Ctx(y) BY <1>4, SetCircuit
<1> HIDE DEF y
<1>8. Notice(x.c.ideige) \in Message BY <1>1 DEF Notice, Message, Typed
<1>9. Ctx(z) BY <1>2, <1>7, <1>8, SndFrmType
<1> HIDE DEF z
<1> QED BY <1>6, <1>9, SweptEndCir

LEMMA SweptTrasrv ==
  ASSUME NEW x, Ctx(x), Sound(x.c), Swept(x.c), NEW t,
         x.c.st = L4SIXFER /\ t.open # 0 => t.open \in 1 .. Fropen(x.c)
  PROVE  Swept(Trasrv(x, t).c)
<1> DEFINE up == x.c.st = L4SIXFER
           afterT == IF "traout" \in t.due /\ x.c.traout THEN Timeout(x)
                     ELSE IF up /\ ~x.c.traout /\ t.open # 0 THEN Repeat(x, t.open)
                     ELSE x
           afterA == IF up /\ "acktim" \in t.due /\ afterT.c.acktim THEN AckDue(afterT)
                     ELSE afterT
<1>1. Trasrv(x, t) = IF up /\ "tranoa" \in t.due THEN NoActivity(afterA) ELSE afterA
  BY DEF Trasrv
<1>2. Ctx(Timeout(x)) /\ Swept(Timeout(x).c) BY TimeoutSound, SweptTimeout DEF Result
<1>3. up /\ t.open # 0 => Ctx(Repeat(x, t.open)) /\ Sound(Repeat(x, t.open).c)
  BY RepeatSound DEF Result
<1>4. up => Swept(Repeat(x, t.open).c) BY SweptRepeat
<1>5. Sound(Timeout(x).c) BY TimeoutSound DEF Result
<1>6. Ctx(afterT) /\ Sound(afterT.c) /\ Swept(afterT.c) BY <1>2, <1>3, <1>4, <1>5
<1> HIDE DEF afterT
<1>7. Ctx(AckDue(afterT)) BY <1>6, AckDueSound DEF Result
<1>8. Swept(AckDue(afterT).c) BY <1>6, SweptAckDue
<1>9. Ctx(afterA) /\ Swept(afterA.c) BY <1>6, <1>7, <1>8
<1> HIDE DEF afterA
<1>10. Swept(NoActivity(afterA).c) BY <1>9, SweptNoActivity
<1> QED BY <1>1, <1>9, <1>10

LEMMA SweptTx ==
  ASSUME NEW x, Ctx(x), Sound(x.c), Swept(x.c)
  PROVE  Swept(L4tx(x).c)
<1> DEFINE c == x.c
           d == AckSent(c)
           tx == [j \in 1 .. Len(c.mbhdtx) |->
                    [c.mbhdtx[j] EXCEPT !.l4trie =
                       IF j \in Fropen(c) + 1 .. Fropen(c) + CanSend(c) THEN 0 ELSE @]]
           vs == (d.l4vs + CanSend(c)) % Mod
           e == [d EXCEPT !.l4vs = vs, !.mbhdtx = tx]
<1>1. CASE CanSend(c) = 0
  <2>1. L4tx(x) = x BY <1>1 DEF L4tx
  <2> QED BY <2>1
<1>2. CASE CanSend(c) # 0
  <2>1. c.st = L4SIXFER BY <1>2 DEF CanSend
  <2>2. L4tx(x).c = e BY <1>2 DEF L4tx, Ctx, IsRec, ContextFields
  <2>3. IsRec(c, CircuitFields) BY DEF Ctx, Shaped
  <2>4. IsRec(d, CircuitFields) /\ d.st = c.st BY <2>3 DEF AckSent, IsRec, CircuitFields
  <2> HIDE DEF d, tx, vs
  <2>5. e.st = c.st BY <2>4 DEF IsRec, CircuitFields
  <2> HIDE DEF e
  <2> QED BY <2>1, <2>2, <2>5 DEF Swept
<1> QED BY <1>1, <1>2

-----------------------------------------------------------------------------

LEMMA SweptBecame ==
  ASSUME Inv, AllSwept, NEW x, x.n \in Node, x.i \in Index, Swept(x.c), NEW rest,
         Became(x, rest)
  PROVE  AllSwept'
<1>1. cir' = [cir EXCEPT ![x.n][x.i] = x.c] BY DEF Became
<1>2. cir \in [Node -> [Index -> Good]] BY InvTypes
<1> SUFFICES ASSUME NEW n \in Node, NEW i \in Index PROVE Swept(cir'[n][i])
  BY DEF AllSwept, Swept
<1>3. Swept(cir[n][i]) BY DEF AllSwept
<1>4. cir'[n][i] = IF n = x.n /\ i = x.i THEN x.c ELSE cir[n][i] BY <1>1, <1>2
<1> QED BY <1>3, <1>4

LEMMA SweptDone ==
  ASSUME Inv, AllSwept, NEW x, x.n \in Node, x.i \in Index, Swept(x.c), Done(x)
  PROVE  AllSwept'
BY SweptBecame DEF Done

LEMMA SweptContext ==
  ASSUME Inv, AllSwept, NEW n \in Node, NEW i \in Index
  PROVE  LET x == Context(n, i)
         IN  /\ Ctx(x) /\ Sound(x.c) /\ Swept(x.c) /\ Shaped(x.c)
             /\ x.c = cir[n][i] /\ x.n = n /\ x.i = i
BY ContextType DEF AllSwept

LEMMA SweptConnect ==
  ASSUME Inv, AllSwept, NEW n \in Node, Connect(n)
  PROVE  AllSwept'
<1> DEFINE i == FirstFree(n)
           c0 == ClrCir(cir[n][i])
           d == [c0 EXCEPT !.ideige = used.id + 1, !.st = L4SLKSUP]
           x == [Context(n, i) EXCEPT !.c = d]
           y == SConrq(x)
           none == [o \in 1 .. Mod - 1 |-> NoMessage]
<1>1. Free(n) # {} /\ Done(y) BY DEF Connect
<1>2. i \in Index BY <1>1, FirstFreeType
<1> HIDE DEF i
<1>3. Ctx(Context(n, i)) /\ Shaped(cir[n][i]) /\ Context(n, i).n = n /\ Context(n, i).i = i
  BY <1>2, ContextType
<1>4. IsRec(c0, CircuitFields) /\ c0.mbhdos = none
  BY <1>3, ClrCirShaped, SweptEnd DEF Shaped
<1> HIDE DEF c0, none
<1>5. IsRec(d, CircuitFields) /\ d.mbhdos = none BY <1>4 DEF IsRec, CircuitFields
<1> HIDE DEF d
<1>6. x.c = d /\ IsRec(x, ContextFields) /\ x.n = n /\ x.i = i
  BY <1>3 DEF Ctx, IsRec, ContextFields
<1> HIDE DEF x
<1>7. y.c = [x.c EXCEPT !.traout = TRUE] /\ y.n = n /\ y.i = i
  BY <1>6 DEF SConrq, Send, IsRec, ContextFields
<1>8. y.c.mbhdos = none BY <1>5, <1>6, <1>7 DEF IsRec, CircuitFields
<1> HIDE DEF y
<1>9. Swept(y.c) BY <1>8 DEF Swept, none
<1> QED BY <1>1, <1>2, <1>7, <1>9, SweptDone

LEMMA SweptDisconnect ==
  ASSUME Inv, AllSwept, NEW n \in Node, NEW i \in Index, Disconnect(n, i)
  PROVE  AllSwept'
<1> DEFINE x == Context(n, i)
           c == [x.c EXCEPT !.l4flag = x.c.l4flag \cup {"DSLE"}, !.numrx = 0]
           d == [x.c EXCEPT !.l4flag = x.c.l4flag \cup {"DIMM"}]
           p == [x EXCEPT !.c = c]
           q == [x EXCEPT !.c = d]
           f == [ConAck(x) EXCEPT !.choke = TRUE]
           r == Send(q, f)
<1>1. Ctx(x) /\ Swept(x.c) /\ Shaped(x.c) /\ x.n = n /\ x.i = i BY SweptContext
<1>2. Done(IF x.c.st = L4SIXFER THEN p ELSE r)
  <2>1. [[x EXCEPT !.c.l4flag = @ \cup {"DSLE"}] EXCEPT !.c.numrx = 0] = p
    BY <1>1 DEF Ctx, Shaped, IsRec, ContextFields, CircuitFields
  <2>2. [x EXCEPT !.c.l4flag = @ \cup {"DIMM"}] = q
    BY <1>1 DEF Ctx, Shaped, IsRec, ContextFields, CircuitFields
  <2> QED BY <2>1, <2>2 DEF Disconnect
<1> HIDE DEF x
<1>3. Saves(x.c, c) /\ Saves(x.c, d)
  BY <1>1 DEF Saves, Shaped, IsRec, CircuitFields
<1>4. Swept(c) /\ Swept(d) BY <1>1, <1>3, SavesSwept
<1> HIDE DEF c, d, f
<1>5. p.c = c /\ p.n = n /\ p.i = i BY <1>1 DEF Ctx, IsRec, ContextFields
<1>6. r.c = d /\ r.n = n /\ r.i = i BY <1>1 DEF Send, Ctx, IsRec, ContextFields
<1> HIDE DEF p, q, r
<1>7. CASE x.c.st = L4SIXFER BY <1>2, <1>4, <1>5, <1>7, SweptDone
<1>8. CASE x.c.st # L4SIXFER BY <1>2, <1>4, <1>6, <1>8, SweptDone
<1> QED BY <1>7, <1>8

LEMMA SweptQueue ==
  ASSUME Inv, AllSwept, NEW n \in Node, NEW i \in Index, Queue(n, i)
  PROVE  AllSwept'
<1> DEFINE x == Context(n, i)
           e == [m |-> [from |-> x.c.ideige, no |-> used.msg[x.c.ideige] + 1], l4trie |-> 0]
           tx == Append(x.c.mbhdtx, e)
           flag == IF Len(tx) >= TxCut THEN x.c.l4flag \cup {"DIMM"} ELSE x.c.l4flag
           d == [x.c EXCEPT !.mbhdtx = tx, !.l4flag = flag]
           y == [x EXCEPT !.c = d]
<1>1. Ctx(x) /\ Swept(x.c) /\ Shaped(x.c) /\ x.c = cir[n][i] /\ x.n = n /\ x.i = i
  BY SweptContext
<1>2. Done(y) BY <1>1 DEF Queue
<1> HIDE DEF x, tx, flag
<1>3. Saves(x.c, d) BY <1>1, SavesIs
<1>4. Swept(d) BY <1>1, <1>3, SavesSwept
<1> HIDE DEF d
<1>5. y.c = d /\ y.n = n /\ y.i = i BY <1>1 DEF Ctx, IsRec, ContextFields
<1> HIDE DEF y
<1> QED BY <1>2, <1>4, <1>5, SweptDone

LEMMA SweptReceive ==
  ASSUME Inv, AllSwept, NEW n \in Node, Receive(n)
  PROVE  AllSwept'
<1> DEFINE f == Head(net[n])
           y == L4rx(n, f)
           none == Context(n, 1)
<1>1. /\ net[n] # <<>>
      /\ New(n, f) => used.id < MaxId
      /\ Became(y, Tail(net[n]))
  BY DEF Receive, CanReceive
<1>2. f \in Frame
  <2>1. net[n] # <<>> BY <1>1
  <2> QED BY <2>1, HeadTailType
<1> HIDE DEF f
<1>3. 1 \in Index BY TableAssumption DEF Index
<1>4. /\ Ctx(none) /\ Swept(none.c) /\ IsRec(none, ContextFields)
      /\ none.n = n /\ none.i = 1
  BY <1>3, SweptContext DEF Ctx
<1>5. y = IF New(n, f) THEN RxConreq(Context(n, FirstFree(n)), f, used.id + 1)
          ELSE IF f.op = "CONREQ"
            THEN IF CalledBy(n, f) # {} THEN none ELSE Send(none, Busy(f))
          ELSE IF Known(n, f) = {} THEN [none EXCEPT !.out = Unknown(f)]
          ELSE RxKnown(Context(n, f.idx), f)
  BY DEF L4rx
<1>6. y.n \in Node /\ y.i \in Index
  <2>1. New(n, f) => used.id < MaxId BY <1>1
  <2>2. Ctx(y) BY <1>2, <2>1, L4rxSound
  <2> QED BY <2>2 DEF Ctx
<1>7. Swept(y.c)
  <2>1. CASE New(n, f)
    <3>1. FirstFree(n) \in Index BY <2>1, FirstFreeType DEF New
    <3>2. Ctx(Context(n, FirstFree(n))) BY <3>1, ContextType
    <3>3. Swept(RxConreq(Context(n, FirstFree(n)), f, used.id + 1).c)
      BY <1>2, <3>2, SweptConreq
    <3> QED BY <1>5, <2>1, <3>3
  <2>2. CASE ~New(n, f) /\ f.op = "CONREQ"
    <3> HIDE DEF none
    <3>1. Send(none, Busy(f)).c = none.c BY <1>4 DEF Send, IsRec, ContextFields
    <3> QED BY <1>4, <1>5, <2>2, <3>1
  <2>3. CASE ~New(n, f) /\ f.op # "CONREQ" /\ Known(n, f) = {}
    <3> HIDE DEF none
    <3>1. [none EXCEPT !.out = Unknown(f)].c = none.c BY <1>4 DEF IsRec, ContextFields
    <3> QED BY <1>4, <1>5, <2>3, <3>1
  <2>4. CASE ~New(n, f) /\ f.op # "CONREQ" /\ Known(n, f) # {}
    <3>1. f.idx \in Index BY <2>4 DEF Known
    <3> DEFINE x == Context(n, f.idx)
    <3>2. Ctx(x) /\ Sound(x.c) /\ Swept(x.c) BY <3>1, SweptContext
    <3>3. y = RxKnown(x, f) BY <1>5, <2>4
    <3> HIDE DEF x, y
    <3>4. Swept(RxKnown(x, f).c) BY <1>2, <2>4, <3>2, SweptKnown
    <3> QED BY <3>3, <3>4
  <2> QED BY <2>1, <2>2, <2>3, <2>4
<1> HIDE DEF y
<1> QED BY <1>1, <1>6, <1>7, SweptBecame

LEMMA SweptL4 ==
  ASSUME Inv, AllSwept, NEW n \in Node, NEW i \in Index, L4(n, i)
  PROVE  AllSwept'
<1> DEFINE x == Context(n, i)
<1>1. Ctx(x) /\ Sound(x.c) /\ Swept(x.c) /\ x.c = cir[n][i] /\ x.n = n /\ x.i = i
  BY SweptContext
<1> HIDE DEF x
<1>2. ASSUME NEW y, Result(x, y), Swept(y.c), Done(y) PROVE AllSwept'
  <2>1. y.n \in Node /\ y.i \in Index BY <1>2 DEF Result, Ctx
  <2> QED BY <1>2, <2>1, SweptDone
<1>3. ASSUME NEW k \in 0 .. cir[n][i].numrx, NEW mem, NEW early, Rest(n, i, k, mem, early)
      PROVE  AllSwept'
  <2> DEFINE y == L4rest(x, k, mem, early)
  <2>1. Done(y) BY <1>3 DEF Rest, Acted, x
  <2>2. k \in 0 .. x.c.numrx BY <1>1
  <2>3. Result(x, y) BY <1>1, <2>2, L4restSound
  <2>4. Swept(y.c) BY <1>1, <2>2, SweptRest
  <2> HIDE DEF y
  <2> QED BY <1>2, <2>1, <2>3, <2>4
<1>4. CASE Tx(n, i)
  <2> DEFINE y == L4tx(x)
  <2>1. Done(y) /\ CanSend(x.c) > 0 BY <1>1, <1>4 DEF Tx, x
  <2>2. x.c.st # L4SDSCED BY <2>1, StatesDiffer DEF CanSend
  <2>3. Result(x, y) BY <1>1, <2>2, L4txSound
  <2>4. Swept(y.c) BY <1>1, SweptTx
  <2> HIDE DEF y
  <2> QED BY <1>2, <2>1, <2>3, <2>4
<1>5. ASSUME NEW due, NEW open \in Open(n, i), Second(n, i, due, open)
      PROVE  AllSwept'
  <2> DEFINE t == [due |-> due, open |-> open]
             y == Trasrv(x, t)
  <2>1. Done(y) BY <1>5 DEF Second, Acted, x
  <2>2. x.c.st = L4SIXFER /\ t.open # 0 => t.open \in 1 .. Fropen(x.c)
    <3>1. Fropen(x.c) \in 0 .. Mod - 1 BY <1>1, FropenType DEF Ctx
    <3> QED BY <1>1, <1>5, <3>1, ModType DEF Open
  <2> HIDE DEF t
  <2>3. Result(x, y) BY <1>1, <2>2, TrasrvSound
  <2>4. Swept(y.c) BY <1>1, <2>2, SweptTrasrv
  <2> HIDE DEF y
  <2> QED BY <1>2, <2>1, <2>3, <2>4
<1> QED BY <1>3, <1>4, <1>5 DEF L4

LEMMA NextSwept == Inv /\ AllSwept /\ [Next]_vars => AllSwept'
<1> SUFFICES ASSUME Inv, AllSwept, [Next]_vars PROVE AllSwept' OBVIOUS
<1>1. cir \in [Node -> [Index -> Good]] BY InvTypes
<1>2. CASE cir' = cir BY <1>2 DEF AllSwept, Swept
<1>3. CASE UNCHANGED vars BY <1>2, <1>3 DEF vars
<1>4. CASE Next
  <2> PICK n \in Node :
        \/ Connect(n) \/ Receive(n)
        \/ Lose(n) \/ Duplicate(n) \/ Swap(n) \/ Restart(n)
        \/ \E i \in Index : Disconnect(n, i) \/ Queue(n, i) \/ L4(n, i)
    BY <1>4 DEF Next
  <2>1. CASE Connect(n) BY <2>1, SweptConnect
  <2>2. CASE Receive(n) BY <2>2, SweptReceive
  <2>3. CASE Lose(n) \/ Duplicate(n) \/ Swap(n) BY <1>2, <2>3 DEF Lose, Duplicate, Swap
  <2>4. CASE Restart(n)
    <3>1. cir' = [cir EXCEPT ![n] = [i \in Index |-> Blank]] BY <2>4 DEF Restart
    <3>2. Swept(Blank) BY DEF Swept, Blank
    <3> SUFFICES ASSUME NEW m \in Node, NEW i \in Index PROVE Swept(cir'[m][i])
      BY DEF AllSwept, Swept
    <3>3. cir'[m][i] = IF m = n THEN Blank ELSE cir[m][i] BY <1>1, <3>1
    <3> QED BY <3>2, <3>3 DEF AllSwept
  <2>5. ASSUME NEW i \in Index, Disconnect(n, i) \/ Queue(n, i) \/ L4(n, i)
        PROVE  AllSwept'
    BY <2>5, SweptDisconnect, SweptQueue, SweptL4
  <2> QED BY <2>1, <2>2, <2>3, <2>4, <2>5
<1> QED BY <1>3, <1>4

LEMMA InPlace == ASSUME IInv, AllSwept PROVE StoredInPlace
<1> SUFFICES ASSUME NEW n \in Node, NEW i \in Index, NEW o \in 1 .. Mod - 1,
                    cir[n][i].mbhdos[o] # NoMessage
             PROVE  cir[n][i].mbhdos[o] =
                      [from |-> cir[n][i].idpart, no |-> Len(got[cir[n][i].ideige]) + o + 1]
  BY DEF StoredInPlace
<1> DEFINE c == cir[n][i]
           s == c.ideige
<1>1. PICK h : Here(h) BY IInvHere
<1> DEFINE K == Of(h, cir)
<1>2. c.st = L4SIXFER BY DEF AllSwept, Swept
<1>3. s \in 1 .. used.id /\ h[s].n = n /\ h[s].i = i
  BY <1>1, <1>2, StatesDiffer DEF Here, Registered
<1>4. s \in Id
  <2>1. used.id \in 0 .. MaxId BY InvTypes DEF IInv
  <2> QED BY <1>3, <2>1, BoundTypes DEF Id
<1>5. K[s] = c BY <1>2, <1>3, <1>4, StatesDiffer DEF Of
<1> HIDE DEF K, s, c
<1>6. Placed(h, K, got, used.msg, s) /\ Partner(h, K, s) BY <1>1, <1>4 DEF Here, World, K
<1>7. c.idpart = h[s].p BY <1>2, <1>5, <1>6, StatesDiffer DEF Partner
<1>8. c.mbhdos[o] = [from |-> h[s].p, no |-> Len(got[s]) + o + 1]
  BY <1>2, <1>5, <1>6 DEF Placed, c
<1> QED BY <1>7, <1>8 DEF c, s

(* A message that l4rx() keeps because it came too early is kept in the    *)
(* place of its number: o places after the one that is awaited, and from   *)
(* the circuit this one is connected to.  What an earlier connection left  *)
(* there would be handed to the next one; clrcir() throws it away.         *)
THEOREM StoredAlwaysInPlace == ASSUME OrderedNetwork PROVE Spec => []StoredInPlace
<1>1. Init => AllSwept
  <2>1. Init => \A n \in Node, i \in Index : cir[n][i] = Blank BY DEF Init
  <2>2. Swept(Blank) BY DEF Swept, Blank
  <2> QED BY <2>1, <2>2 DEF AllSwept
<1>2. IInv /\ AllSwept /\ [Next]_vars => AllSwept' BY NextSwept DEF IInv
<1>3. Spec => []IInv BY AlwaysIInv
<1>4. IInv /\ AllSwept => StoredInPlace BY InPlace
<1> QED BY <1>1, <1>2, <1>3, <1>4, PTL DEF Spec
=============================================================================
