--------------------------- MODULE L4WorldProofs ----------------------------
(***************************************************************************)
(* The inductive invariant of level 4 over an ordered network: datagrams   *)
(* may be lost, but are neither repeated nor overtaken, and the timers     *)
(* outlast them.  The window is at most half of the sequence numbers.      *)
(* Shown here: what the handlers do to one circuit keeps the World.        *)
(*                                                                         *)
(* The invariant speaks of circuits by their number, K[s], not by their    *)
(* place in a table, and of what was agreed on when they met: h[s] says    *)
(* at which node and index circuit s was opened, with which partner p and  *)
(* which window w.  The partner of a caller is known from the moment its   *)
(* CONREQ is answered, and forgotten when the CONACK is lost.              *)
(*                                                                         *)
(* Sequence numbers are modulo Mod, but no message and no acknowledgement  *)
(* that is under way is further than a window from what its receiver       *)
(* expects.  Base(K, M, s) is how many messages of s have been confirmed.  *)
(***************************************************************************)
EXTENDS L4Proofs, FiniteSetTheorems

(* What the theorems ask of the network, the timers and the windows.  No   *)
(* no-activity timeout: its notice takes the number of a message.          *)
OrderedNetwork ==
  /\ Patient /\ MaxDup = 0 /\ MaxSwap = 0 /\ MaxIdle = 0
  /\ \A n \in Node : 2 * Trawir[n] <= Mod

-----------------------------------------------------------------------------
(* Arithmetic.                                                             *)

LEMMA DivMod ==
  ASSUME NEW m \in Nat \ {0}, NEW x \in Int
  PROVE  x = m * (x \div m) + (x % m) /\ x % m \in 0 .. m - 1 /\ x \div m \in Int
OBVIOUS

LEMMA Multiple ==
  ASSUME NEW m \in Nat \ {0}, NEW z \in 0 .. m - 1, NEW q \in Int
  PROVE  (z + m * q) % m = z
<1> DEFINE x == z + m * q
           d == q - x \div m
           y == x % m
<1>1. x \in Int OBVIOUS
<1>2. x = m * (x \div m) + y /\ y \in 0 .. m - 1 /\ x \div m \in Int BY <1>1, DivMod
<1>3. d \in Int BY <1>2
<1>4. m * q - m * (x \div m) = m * d BY <1>2
<1>5. y - z = m * d BY <1>2, <1>4
<1>6. m * d < m /\ m * d > -m BY <1>2, <1>5
<1> HIDE DEF d, y, x
<1>7. d = 0
  <2>1. CASE d >= 1
    <3>1. m * d >= m BY <2>1, <1>3
    <3> QED BY <3>1, <1>6, <1>3
  <2>2. CASE d <= -1
    <3>1. m * d <= -m BY <2>2, <1>3
    <3> QED BY <3>1, <1>6, <1>3
  <2> QED BY <1>3, <2>1, <2>2
<1>8. y = z BY <1>2, <1>5, <1>7
<1> QED BY <1>8 DEF y, x

LEMMA Congruent ==
  ASSUME NEW m \in Nat \ {0}, NEW x \in Int, NEW q \in Int
  PROVE  (x + m * q) % m = x % m
<1> DEFINE d == x \div m
           z == x % m
<1>1. x = m * d + z /\ z \in 0 .. m - 1 /\ d \in Int BY DivMod
<1> HIDE DEF d, z
<1>2. x + m * q = z + m * (d + q) BY <1>1
<1>3. (z + m * (d + q)) % m = z BY <1>1, Multiple
<1> QED BY <1>2, <1>3 DEF z

LEMMA ModMod ==
  ASSUME NEW m \in Nat \ {0}, NEW x \in Int, NEW y \in Int
  PROVE  /\ ((x % m) - y) % m = (x - y) % m
         /\ (x - (y % m)) % m = (x - y) % m
         /\ ((x % m) + y) % m = (x + y) % m
<1>1. ASSUME NEW u \in Int, NEW q \in Int, NEW v, v = u + m * q
      PROVE  v % m = u % m
  BY <1>1, Congruent
<1> DEFINE d == x \div m
           e == y \div m
           r == x % m
           t == y % m
<1>2. x = m * d + r /\ r \in Int /\ d \in Int BY DivMod
<1>3. y = m * e + t /\ t \in Int /\ e \in Int BY DivMod
<1> HIDE DEF d, e, r, t
<1>4. r - y = (x - y) + m * (0 - d) BY <1>2
<1>5. x - t = (x - y) + m * e BY <1>3
<1>6. r + y = (x + y) + m * (0 - d) BY <1>2
<1>7. x - y \in Int /\ x + y \in Int /\ 0 - d \in Int BY <1>2
<1>8. (r - y) % m = (x - y) % m BY <1>1, <1>4, <1>7
<1>9. (x - t) % m = (x - y) % m BY <1>1, <1>3, <1>5, <1>7
<1>10. (r + y) % m = (x + y) % m BY <1>1, <1>6, <1>7
<1> QED BY <1>8, <1>9, <1>10 DEF r, t

LEMMA ModInt ==
  /\ \A x \in Int : x % Mod \in 0 .. Mod - 1 /\ x % Mod \in Int
  /\ \A x, y \in Int : ((x % Mod) + y) % Mod = (x + y) % Mod
<1>1. \A x \in Int : x % Mod \in 0 .. Mod - 1 /\ x % Mod \in Int BY ModType, ModRange
<1>2. \A x, y \in Int : ((x % Mod) + y) % Mod = (x + y) % Mod BY ModType, ModMod
<1> QED BY <1>1, <1>2

(* The distance of x % Mod from y is that of x, if it is less than Mod.    *)
LEMMA Near ==
  ASSUME NEW x \in Int, NEW y \in Int, y <= x, x - y < Mod
  PROVE  ((x % Mod) - y) % Mod = x - y
<1>1. ((x % Mod) - y) % Mod = (x - y) % Mod BY ModType, ModMod
<1>2. x - y \in 0 .. Mod - 1 BY ModType
<1> QED BY <1>1, <1>2, ModType, ModSmall

(* When y moves forward, what is not passed comes as much nearer.          *)
LEMMA Nearer ==
  ASSUME NEW x \in Int, NEW y \in Int, NEW k \in Nat, k <= (x - y) % Mod
  PROVE  (x - (y + k)) % Mod = ((x - y) % Mod) - k
<1> DEFINE v == (x - y) % Mod
<1>1. v \in 0 .. Mod - 1 BY ModType, ModRange
<1>0. x - y \in Int OBVIOUS
<1>2. (v - k) % Mod = ((x - y) - k) % Mod
  <2>1. \A z \in Int, j \in Int : ((z % Mod) - j) % Mod = (z - j) % Mod BY ModType, ModMod
  <2> QED BY <1>0, <2>1
<1> HIDE DEF v
<1>3. v - k \in 0 .. Mod - 1
  <2>1. k <= v BY DEF v
  <2> QED BY <1>1, <2>1, ModType
<1>4. (v - k) % Mod = v - k BY <1>3, ModType, ModSmall
<1>5. (x - y) - k = x - (y + k) OBVIOUS
<1> QED BY <1>2, <1>4, <1>5 DEF v

LEMMA PeerType ==
  /\ \A n \in Node : Peer(n) \in Node /\ Peer(n) # n /\ Peer(Peer(n)) = n
  /\ \A n, m \in Node : m = n \/ m = Peer(n)
<1>1. PICK a \in Node : TRUE
  <2>1. Node # {} BY NodeAssumption, FS_EmptySet
  <2> QED BY <2>1
<1>2. IsFiniteSet(Node \ {a}) /\ Cardinality(Node \ {a}) = 1
  <2>1. Cardinality(Node \ {a}) = Cardinality(Node) - 1
    BY <1>1, NodeAssumption, FS_RemoveElement
  <2> QED BY <2>1, <1>1, NodeAssumption, FS_RemoveElement
<1>3. PICK b : Node \ {a} = {b} BY <1>2, FS_Singleton
<1>4. Node = {a, b} /\ a # b BY <1>1, <1>3
<1>5. Peer(a) = b /\ Peer(b) = a BY <1>4 DEF Peer
<1> QED BY <1>4, <1>5

(* A sequence without its first k elements.                                *)
LEMMA SubSeqTail ==
  ASSUME NEW S, NEW l \in Seq(S), NEW k \in Nat, k <= Len(l)
  PROVE  /\ SubSeq(l, k + 1, Len(l)) \in Seq(S)
         /\ Len(SubSeq(l, k + 1, Len(l))) = Len(l) - k
         /\ \A j \in 1 .. Len(SubSeq(l, k + 1, Len(l))) :
              SubSeq(l, k + 1, Len(l))[j] = l[k + j] /\ k + j \in 1 .. Len(l)
<1> DEFINE t == SubSeq(l, k + 1, Len(l))
<1>0. Len(l) \in Nat BY LenProperties
<1>1. \A j \in k + 1 .. Len(l) : l[j] \in S BY <1>0, ElementOfSeq
<1>2. /\ t \in Seq(S)
      /\ Len(t) = IF k + 1 <= Len(l) THEN Len(l) - (k + 1) + 1 ELSE 0
      /\ \A j \in 1 .. Len(l) - (k + 1) + 1 : t[j] = l[(k + 1) + j - 1]
  BY <1>0, <1>1, SubSeqProperties
<1> HIDE DEF t
<1>3. Len(t) = Len(l) - k BY <1>0, <1>2
<1>4. ASSUME NEW j \in 1 .. Len(t) PROVE t[j] = l[k + j] /\ k + j \in 1 .. Len(l)
  <2>1. (k + 1) + j - 1 = k + j OBVIOUS
  <2>2. j \in 1 .. Len(l) - (k + 1) + 1 BY <1>0, <1>3
  <2>3. t[j] = l[k + j] BY <1>2, <2>1, <2>2
  <2> QED BY <1>0, <1>3, <2>3
<1> QED BY <1>2, <1>3, <1>4 DEF t

-----------------------------------------------------------------------------
(* The invariant.                                                          *)

Paired == {L4SIXFER, L4SDSCRQ}

Reg == [n : Node, i : Index, p : 0 .. MaxId, w : 0 .. Mod - 1]

(* The circuits of the tables C by number.                                 *)
Of(h, C) ==
  [s \in Id |-> LET c == C[h[s].n][h[s].i]
                IN  IF c.st # L4SDSCED /\ c.ideige = s THEN c ELSE Blank]

(* Free circuits have nothing to send, and the others are where h says.    *)
Registered(h, C, I) ==
  \A n \in Node, i \in Index :
    LET c == C[n][i]
    IN  IF c.st = L4SDSCED THEN c.mbhdtx = <<>>
        ELSE c.ideige \in 1 .. I /\ h[c.ideige].n = n /\ h[c.ideige].i = i

(* A datagram that asks for a partner or brings one.                       *)
Opens(f, s) == f.op = "CONACK" /\ ~f.choke /\ f.id = s
Token(f) == f.op = "CONREQ" \/ (f.op = "CONACK" /\ ~f.choke)

(* The number of a message.                                                *)
Numbered(f) == f.a = (f.m.no - 1) % Mod

Carries(f) == f.op \in {"INFTRA", "INFACK"}

Base(K, M, s) == M[s] - Len(K[s].mbhdtx)

IsUp(K, s) == K[s].st = L4SIXFER

(* Will circuit s read l[j]?  It must be connected by then.                *)
Heard(l, up, s, j) ==
  /\ Carries(l[j]) /\ l[j].id = s
  /\ up \/ \E i \in 1 .. j - 1 : Opens(l[i], s)

Types(h, K, N, G, M, I) ==
  /\ h \in [Id -> Reg] /\ K \in [Id -> Good] /\ N \in [Node -> Seq(Frame)]
  /\ G \in [Id -> Seq(Message)] /\ M \in [Id -> Nat] /\ I \in 0 .. MaxId

(* Nothing is known of a circuit before it opens.                          *)
Unborn(h, K, G, M, I, s) ==
  /\ h[s].p <= I
  /\ s > I => K[s].st = L4SDSCED /\ h[s].p = 0 /\ M[s] = 0
  /\ h[s].p = 0 => G[s] = <<>>

(* A circuit has taken the messages of its partner from the first one on.  *)
InOrder(h, G, M, s) ==
  LET q == h[s].p
  IN  /\ \A k \in 1 .. Len(G[s]) : G[s][k] = [from |-> q, no |-> k]
      /\ q # 0 => Len(G[s]) <= M[q]

(* Partners agree, and no other circuit has the same one.                  *)
Agreed(h, K, N, s) ==
  LET q == h[s].p
  IN  q # 0 =>
        /\ h[s].w >= 1 /\ 2 * h[s].w <= Mod
        /\ K[s].st # L4SDSCED =>
             /\ h[q].n = Peer(h[s].n) /\ h[q].p \in {0, s}
             /\ h[q].p = s => h[q].w = h[s].w
             /\ \A r \in Id : K[r].st # L4SDSCED /\ h[r].p = q => r = s
        /\ K[s].st = L4SLKSUP =>
             \E j \in 1 .. Len(N[h[s].n]) : Opens(N[h[s].n][j], s)

(* What the circuit says of its partner.                                   *)
Partner(h, K, s) ==
  LET q == h[s].p
  IN  /\ K[s].st \in Paired => q # 0 /\ K[s].idpart = q /\ K[s].idxpar = h[q].i
      /\ K[s].st = L4SIXFER => K[s].window = h[s].w

(* A circuit that is asked for, or answered, is not connected; it is older *)
(* than the one that answered.                                             *)
Asked(h, K, G, I, n, f) ==
  /\ Carries(f) => f.id <= I
  /\ Token(f) =>
    /\ f.id \in 1 .. I /\ G[f.id] = <<>> /\ K[f.id].st \notin Paired
    /\ f.idx = h[f.id].i
    /\ f.op = "CONREQ" => h[f.id].n = Peer(n) /\ h[f.id].p = 0
    /\ f.op = "CONACK" =>
         /\ h[f.id].n = n /\ f.b \in 1 .. I /\ f.id < f.b /\ h[f.id].p = f.b
         /\ h[f.b].n = Peer(n) /\ h[f.b].p = f.id /\ f.a = h[f.b].i
         /\ h[f.id].w = f.win /\ h[f.b].w = f.win

Once(N) ==
  \A n, m \in Node : \A j \in 1 .. Len(N[n]), k \in 1 .. Len(N[m]) :
    Token(N[n][j]) /\ Token(N[m][k]) /\ N[n][j].id = N[m][k].id => n = m /\ j = k

(* The list holds all messages not yet confirmed, and the partner is not   *)
(* further behind or ahead of what is confirmed than a window.             *)
Listed(h, K, G, M, s) ==
  LET c == K[s]
      b == Base(K, M, s)
      q == h[s].p
  IN  c.st # L4SDSCED =>
        /\ b >= 0
        /\ \A j \in 1 .. Len(c.mbhdtx) : c.mbhdtx[j].m = [from |-> s, no |-> b + j]
        /\ c.st = L4SLKSUP => b = 0 /\ G[s] = <<>>
        /\ q # 0 => b <= Len(G[q]) /\ Len(G[q]) <= b + h[s].w

(* The numbers of a connected circuit, and the messages that came too      *)
(* early.                                                                  *)
Placed(h, K, G, M, s) ==
  LET c == K[s]
      q == h[s].p
      R == Len(G[s])
  IN  c.st = L4SIXFER =>
        /\ c.l4rxvs = Base(K, M, s) % Mod /\ c.l4vr = R % Mod
        /\ \A o \in 1 .. Mod - 1 : c.mbhdos[o] # NoMessage =>
             /\ c.mbhdos[o] = [from |-> q, no |-> R + o + 1]
             /\ o < h[s].w /\ R + o + 1 <= M[q]
             /\ K[q].st # L4SDSCED => R + o + 1 <= Base(K, M, q) + h[s].w

(* The acknowledgements on their way to s: what they confirm was taken,    *)
(* and each one confirms at least as much as those before it.              *)
Ahead(K, M, s, f) == (f.b - Base(K, M, s)) % Mod

Confirming(h, K, N, G, M, s, j) ==
  LET l == N[h[s].n]
  IN  /\ Ahead(K, M, s, l[j]) <= Len(G[h[s].p]) - Base(K, M, s)
      /\ \A i \in 1 .. j - 1 :
           Heard(l, IsUp(K, s), s, i) => Ahead(K, M, s, l[i]) <= Ahead(K, M, s, l[j])

Confirms(h, K, N, G, M, s) ==
  K[s].st # L4SDSCED =>
    \A j \in 1 .. Len(N[h[s].n]) :
      Heard(N[h[s].n], IsUp(K, s), s, j) => Confirming(h, K, N, G, M, s, j)

(* The messages on their way to s: each one is at most a window behind     *)
(* what s has taken or kept, and those before it; and less than a window   *)
(* ahead of what s expects.                                                *)
Arriving(h, K, N, G, M, s, j) ==
  LET l  == N[h[s].n]
      q  == h[s].p
      w  == h[s].w
      R  == Len(G[s])
      no == l[j].m.no
  IN  /\ l[j].m.from = q /\ no \in 1 .. M[q] /\ Numbered(l[j])
      /\ R - w <= no - 1 /\ no - 1 < R + w
      /\ IsUp(K, s) => \A o \in 1 .. Mod - 1 :
           K[s].mbhdos[o] # NoMessage => R + o + 1 - w <= no - 1
      /\ \A i \in 1 .. j - 1 :
           Heard(l, IsUp(K, s), s, i) /\ l[i].op = "INFTRA" => l[i].m.no - w <= no - 1
      /\ K[q].st # L4SDSCED => no <= Base(K, M, q) + w

Arrives(h, K, N, G, M, s) ==
  K[s].st # L4SDSCED =>
    \A j \in 1 .. Len(N[h[s].n]) :
      Heard(N[h[s].n], IsUp(K, s), s, j) /\ N[h[s].n][j].op = "INFTRA"
        => Arriving(h, K, N, G, M, s, j)

(* All of it for a world: circuits K, datagrams N, messages taken G and    *)
(* offered M, circuits opened I.                                           *)
World(h, K, N, G, M, I) ==
  /\ Types(h, K, N, G, M, I)
  /\ \A s \in Id : /\ Unborn(h, K, G, M, I, s) /\ InOrder(h, G, M, s)
                   /\ Agreed(h, K, N, s) /\ Partner(h, K, s)
                   /\ Listed(h, K, G, M, s) /\ Placed(h, K, G, M, s)
                   /\ Confirms(h, K, N, G, M, s) /\ Arrives(h, K, N, G, M, s)
  /\ \A n \in Node : \A j \in 1 .. Len(N[n]) : Asked(h, K, G, I, n, N[n][j])
  /\ Once(N)

IInv ==
  /\ Inv
  /\ \E h \in [Id -> Reg] :
       Registered(h, cir, used.id) /\ World(h, Of(h, cir), net, got, used.msg, used.id)

LEMMA StatesDiffer ==
  /\ L4SDSCED # L4SLKSUP /\ L4SDSCED # L4SIXFER /\ L4SDSCED # L4SDSCRQ
  /\ L4SLKSUP # L4SIXFER /\ L4SLKSUP # L4SDSCRQ /\ L4SIXFER # L4SDSCRQ
  /\ L4SIXFER \in Paired /\ L4SDSCRQ \in Paired
  /\ L4SDSCED \notin Paired /\ L4SLKSUP \notin Paired
BY DEF L4SDSCED, L4SLKSUP, L4SIXFER, L4SDSCRQ, Paired

LEMMA WorldTypes ==
  ASSUME NEW h, NEW K, NEW N, NEW G, NEW M, NEW I, World(h, K, N, G, M, I), NEW s \in Id
  PROVE  /\ h[s].n \in Node /\ h[s].i \in Index /\ h[s].w \in 0 .. Mod - 1
         /\ h[s].p \in 0 .. MaxId /\ (h[s].p # 0 => h[s].p \in Id)
         /\ K[s] \in Good /\ M[s] \in Nat /\ G[s] \in Seq(Message) /\ Len(G[s]) \in Nat
         /\ K[s].mbhdtx \in Seq(Entry) /\ Len(K[s].mbhdtx) \in Nat /\ Base(K, M, s) \in Int
         /\ N[h[s].n] \in Seq(Frame) /\ Len(N[h[s].n]) \in Nat
<1>1. h[s] \in Reg /\ K[s] \in Good /\ M[s] \in Nat /\ G[s] \in Seq(Message)
  BY DEF World, Types
<1>2. h[s].n \in Node /\ h[s].i \in Index /\ h[s].w \in 0 .. Mod - 1 /\ h[s].p \in 0 .. MaxId
  BY <1>1 DEF Reg
<1>3. N[h[s].n] \in Seq(Frame) BY <1>2 DEF World, Types
<1>4. K[s].mbhdtx \in Seq(Entry) BY <1>1 DEF Good, Sound, Shaped, Typed
<1>5. Len(K[s].mbhdtx) \in Nat /\ Len(G[s]) \in Nat /\ Len(N[h[s].n]) \in Nat
  BY <1>1, <1>3, <1>4, LenProperties
<1> QED BY <1>1, <1>2, <1>3, <1>4, <1>5, BoundTypes DEF Id, Base

(* Whoever hears something has a partner.                                  *)
LEMMA OpenPartner ==
  ASSUME NEW h, NEW K, NEW N, NEW G, NEW M, NEW I, World(h, K, N, G, M, I), NEW s \in Id,
         IsUp(K, s) \/ \E i \in 1 .. Len(N[h[s].n]) : Opens(N[h[s].n][i], s)
  PROVE  h[s].p \in Id
<1>1. CASE IsUp(K, s)
  <2>1. Partner(h, K, s) BY DEF World
  <2> QED BY <1>1, <2>1, WorldTypes, StatesDiffer DEF Partner, IsUp
<1>2. CASE ~IsUp(K, s)
  <2>1. PICK i \in 1 .. Len(N[h[s].n]) : Opens(N[h[s].n][i], s) BY <1>2
  <2>2. h[s].n \in Node BY WorldTypes
  <2>3. Asked(h, K, G, I, h[s].n, N[h[s].n][i]) BY <2>2 DEF World
  <2>4. h[s].p = N[h[s].n][i].b /\ N[h[s].n][i].b \in 1 .. I
    BY <2>1, <2>3 DEF Asked, Opens, Token
  <2>5. I \in 0 .. MaxId BY DEF World, Types
  <2> QED BY <2>4, <2>5, WorldTypes
<1> QED BY <1>1, <1>2

LEMMA HeardPartner ==
  ASSUME NEW h, NEW K, NEW N, NEW G, NEW M, NEW I, World(h, K, N, G, M, I),
         NEW s \in Id, NEW j \in 1 .. Len(N[h[s].n]),
         Heard(N[h[s].n], IsUp(K, s), s, j)
  PROVE  h[s].p \in Id
<1>1. Len(N[h[s].n]) \in Nat BY WorldTypes
<1>2. \A i \in 1 .. j - 1 : i \in 1 .. Len(N[h[s].n]) BY <1>1
<1> QED BY <1>2, OpenPartner DEF Heard

-----------------------------------------------------------------------------
(* Steps that ask for nothing: circuits end, or change where the invariant *)
(* does not look.                                                          *)

Weaker(c, d) ==
  \/ d.st = L4SDSCED
  \/ /\ d.st = c.st \/ (c.st = L4SIXFER /\ d.st = L4SDSCRQ)
     /\ d.idpart = c.idpart /\ d.idxpar = c.idxpar
     /\ Len(d.mbhdtx) = Len(c.mbhdtx)
     /\ \A j \in 1 .. Len(c.mbhdtx) : d.mbhdtx[j].m = c.mbhdtx[j].m
     /\ d.st = L4SIXFER => /\ d.window = c.window /\ d.mbhdos = c.mbhdos
                           /\ d.l4rxvs = c.l4rxvs /\ d.l4vr = c.l4vr

LEMMA Weaken ==
  ASSUME NEW h, NEW K, NEW N, NEW G, NEW M, NEW I, World(h, K, N, G, M, I),
         NEW L \in [Id -> Good], \A s \in Id : Weaker(K[s], L[s])
  PROVE  World(h, L, N, G, M, I)
<1>1. Types(h, L, N, G, M, I) BY DEF World, Types
<1>2. ASSUME NEW s \in Id
      PROVE  /\ L[s].st # L4SDSCED => K[s].st # L4SDSCED /\ Base(L, M, s) = Base(K, M, s)
             /\ L[s].st \in Paired => K[s].st \in Paired
             /\ L[s].st = L4SLKSUP => K[s].st = L4SLKSUP
             /\ L[s].st = L4SIXFER => K[s].st = L4SIXFER
  BY StatesDiffer DEF Weaker, Base, Paired
<1>3. ASSUME NEW s \in Id
      PROVE  /\ Unborn(h, L, G, M, I, s) /\ InOrder(h, G, M, s)
             /\ Agreed(h, L, N, s) /\ Partner(h, L, s)
             /\ Listed(h, L, G, M, s) /\ Placed(h, L, G, M, s)
             /\ Confirms(h, L, N, G, M, s) /\ Arrives(h, L, N, G, M, s)
  <2> DEFINE q == h[s].p
  <2>0. q # 0 => q \in Id
    <3>1. q \in 0 .. MaxId BY DEF World, Types, Reg
    <3> QED BY <3>1, BoundTypes DEF Id
  <2>1. Unborn(h, L, G, M, I, s) BY <1>2 DEF World, Unborn
  <2>2. InOrder(h, G, M, s) BY DEF World
  <2>3. Agreed(h, L, N, s)
    <3>1. Agreed(h, K, N, s) BY DEF World
    <3> QED BY <1>2, <3>1 DEF Agreed
  <2>4. Partner(h, L, s)
    <3>1. Partner(h, K, s) BY DEF World
    <3> QED BY <1>2, <3>1, StatesDiffer DEF Partner, Weaker
  <2>5. Listed(h, L, G, M, s)
    <3>1. Listed(h, K, G, M, s) BY DEF World
    <3> QED BY <1>2, <3>1 DEF Listed, Weaker
  <2>6. Placed(h, L, G, M, s)
    <3>1. Placed(h, K, G, M, s) /\ Partner(h, K, s) BY DEF World
    <3>2. L[s].st = L4SIXFER => q # 0 BY <1>2, <3>1, StatesDiffer DEF Partner
    <3> HIDE DEF q
    <3>3. ASSUME L[s].st = L4SIXFER
          PROVE  L[s].l4rxvs = K[s].l4rxvs /\ L[s].l4vr = K[s].l4vr /\ L[s].mbhdos = K[s].mbhdos
                 /\ K[s].st = L4SIXFER /\ Base(L, M, s) = Base(K, M, s)
      BY <1>2, <3>3, StatesDiffer DEF Weaker
    <3>4. L[q].st # L4SDSCED /\ q # 0 => K[q].st # L4SDSCED /\ Base(L, M, q) = Base(K, M, q)
      BY <1>2, <2>0
    <3> QED BY <3>1, <3>2, <3>3, <3>4 DEF Placed, q
  <2>7. L[s].st # L4SDSCED =>
          \A l, i : Heard(l, IsUp(L, s), s, i) => Heard(l, IsUp(K, s), s, i)
    BY <1>2 DEF Heard, IsUp
  <2>8. Confirms(h, L, N, G, M, s)
    <3>1. SUFFICES ASSUME L[s].st # L4SDSCED, NEW j \in 1 .. Len(N[h[s].n]),
                          Heard(N[h[s].n], IsUp(L, s), s, j)
                   PROVE  Confirming(h, L, N, G, M, s, j)
      BY DEF Confirms
    <3>2. Confirming(h, K, N, G, M, s, j) BY <1>2, <2>7, <3>1 DEF World, Confirms
    <3> QED BY <1>2, <2>7, <3>1, <3>2 DEF Confirming, Ahead
  <2>9. Arrives(h, L, N, G, M, s)
    <3>1. SUFFICES ASSUME L[s].st # L4SDSCED, NEW j \in 1 .. Len(N[h[s].n]),
                          Heard(N[h[s].n], IsUp(L, s), s, j), N[h[s].n][j].op = "INFTRA"
                   PROVE  Arriving(h, L, N, G, M, s, j)
      BY DEF Arrives
    <3>2. Heard(N[h[s].n], IsUp(K, s), s, j) /\ Arriving(h, K, N, G, M, s, j)
      BY <1>2, <2>7, <3>1 DEF World, Arrives
    <3>3. q \in Id BY <3>2, HeardPartner
    <3>4. L[q].st # L4SDSCED => K[q].st # L4SDSCED /\ Base(L, M, q) = Base(K, M, q)
      BY <1>2, <3>3
    <3>5. IsUp(L, s) => IsUp(K, s) /\ L[s].mbhdos = K[s].mbhdos
      BY <1>2, StatesDiffer DEF IsUp, Weaker
    <3> HIDE DEF q
    <3> QED BY <2>7, <3>1, <3>2, <3>4, <3>5 DEF Arriving, q
  <2> QED BY <2>1, <2>2, <2>3, <2>4, <2>5, <2>6, <2>8, <2>9
<1>4. ASSUME NEW n \in Node, NEW j \in 1 .. Len(N[n])
      PROVE  Asked(h, L, G, I, n, N[n][j])
  <2>1. Asked(h, K, G, I, n, N[n][j]) BY DEF World
  <2>2. N[n][j].id \in 1 .. I => N[n][j].id \in Id BY <1>1, BoundTypes DEF Types, Id
  <2> QED BY <1>2, <2>1, <2>2 DEF Asked
<1> QED BY <1>1, <1>3, <1>4 DEF World

-----------------------------------------------------------------------------
(* Circuit s sends to its partner: a datagram that carries an              *)
(* acknowledgement confirms all s has taken, and a message is one of the   *)
(* window above what has been confirmed.                                   *)

Fair(h, K, G, M, s, f) ==
  /\ ~Token(f)
  /\ Carries(f) =>
      /\ IsUp(K, s) /\ f.id = h[s].p /\ f.b = Len(G[s]) % Mod
      /\ f.op = "INFTRA" =>
          /\ f.m.from = s /\ f.m.no \in 1 .. M[s] /\ Numbered(f)
          /\ Base(K, M, s) < f.m.no /\ f.m.no <= Base(K, M, s) + h[s].w

LEMMA Post ==
  ASSUME NEW h, NEW K, NEW N, NEW G, NEW M, NEW I, World(h, K, N, G, M, I),
         NEW s \in Id, NEW out \in Seq(Frame),
         \A k \in 1 .. Len(out) : Fair(h, K, G, M, s, out[k])
  PROVE  World(h, K, [N EXCEPT ![Peer(h[s].n)] = @ \o out], G, M, I)
<1> DEFINE m == Peer(h[s].n)
           P == [N EXCEPT ![m] = @ \o out]
           q == h[s].p
<1>1. m \in Node /\ Peer(m) = h[s].n BY WorldTypes, PeerType
<1>2. N[m] \in Seq(Frame) /\ Len(N[m]) \in Nat /\ Len(out) \in Nat
  BY <1>1, LenProperties DEF World, Types
<1>3. /\ P \in [Node -> Seq(Frame)] /\ P[m] = N[m] \o out /\ Len(P[m]) = Len(N[m]) + Len(out)
      /\ \A n \in Node : n # m => P[n] = N[n]
  BY <1>1, <1>2, ConcatProperties DEF World, Types
<1>4. ASSUME NEW n \in Node, NEW j \in 1 .. Len(P[n])
      PROVE  \/ j \in 1 .. Len(N[n]) /\ \A i \in 1 .. j : P[n][i] = N[n][i]
             \/ /\ n = m /\ j > Len(N[n]) /\ j - Len(N[n]) \in 1 .. Len(out)
                /\ P[n][j] = out[j - Len(N[n])]
                /\ \A i \in 1 .. Len(N[n]) : P[n][i] = N[n][i]
  <2>1. CASE n # m BY <1>3, <2>1
  <2>2. CASE n = m
    <3>1. \A i \in 1 .. Len(N[m]) : (N[m] \o out)[i] = N[m][i] BY <1>2, ConcatProperties
    <3>2. \A i \in Len(N[m]) + 1 .. Len(N[m]) + Len(out) :
            (N[m] \o out)[i] = out[i - Len(N[m])]
      BY <1>2, ConcatProperties
    <3>3. CASE j <= Len(N[m]) BY <1>2, <2>2, <1>3, <3>1, <3>3
    <3>4. CASE j > Len(N[m]) BY <1>2, <2>2, <1>3, <3>1, <3>2, <3>4
    <3> QED BY <1>2, <2>2, <1>3, <3>3, <3>4
  <2> QED BY <2>1, <2>2
<1>5. \A n \in Node : \A i \in 1 .. Len(N[n]) : i \in 1 .. Len(P[n]) /\ P[n][i] = N[n][i]
  <2> SUFFICES ASSUME NEW n \in Node, NEW i \in 1 .. Len(N[n])
               PROVE  i \in 1 .. Len(P[n]) /\ P[n][i] = N[n][i]
    OBVIOUS
  <2>1. CASE n # m BY <1>3, <2>1
  <2>2. CASE n = m
    <3>1. (N[m] \o out)[i] = N[m][i] BY <1>2, <2>2, ConcatProperties
    <3> QED BY <1>2, <1>3, <2>2, <3>1
  <2> QED BY <2>1, <2>2
<1> HIDE DEF P
<1>6. Types(h, K, P, G, M, I) BY <1>3 DEF World, Types
<1>7. ASSUME NEW n \in Node, NEW j \in 1 .. Len(P[n]), Token(P[n][j])
      PROVE  j \in 1 .. Len(N[n]) /\ P[n][j] = N[n][j]
  <2>1. CASE j \in 1 .. Len(N[n]) /\ \A i \in 1 .. j : P[n][i] = N[n][i] BY <2>1
  <2>2. CASE j - Len(N[n]) \in 1 .. Len(out) /\ P[n][j] = out[j - Len(N[n])]
    BY <1>7, <2>2 DEF Fair
  <2> QED BY <1>4, <2>1, <2>2
<1>8. Once(P)
  <2> SUFFICES ASSUME NEW n \in Node, NEW k \in Node, NEW i \in 1 .. Len(P[n]),
                      NEW j \in 1 .. Len(P[k]), Token(P[n][i]), Token(P[k][j]),
                      P[n][i].id = P[k][j].id
               PROVE  n = k /\ i = j
    BY DEF Once
  <2>1. i \in 1 .. Len(N[n]) /\ P[n][i] = N[n][i] BY <1>7
  <2>2. j \in 1 .. Len(N[k]) /\ P[k][j] = N[k][j] BY <1>7
  <2> QED BY <2>1, <2>2 DEF World, Once
<1>9. IsUp(K, s) => q \in Id /\ q <= I
  <2>1. Unborn(h, K, G, M, I, s) BY DEF World
  <2> QED BY <2>1, OpenPartner DEF Unborn
<1>10. ASSUME NEW n \in Node, NEW j \in 1 .. Len(P[n])
       PROVE  Asked(h, K, G, I, n, P[n][j])
  <2>1. CASE j \in 1 .. Len(N[n]) /\ P[n][j] = N[n][j] BY <2>1 DEF World
  <2>2. CASE n = m /\ j - Len(N[n]) \in 1 .. Len(out) /\ P[n][j] = out[j - Len(N[n])]
    <3>1. Fair(h, K, G, M, s, P[n][j]) BY <2>2
    <3> QED BY <1>9, <3>1 DEF Fair, Asked
  <2> QED BY <1>4, <2>1, <2>2
<1>11. ASSUME NEW r \in Id, Agreed(h, K, N, r) PROVE Agreed(h, K, P, r)
  <2>1. h[r].n \in Node BY WorldTypes
  <2> QED BY <1>5, <1>11, <2>1 DEF Agreed
<1> DEFINE Old(r, j) == j \in 1 .. Len(N[h[r].n]) /\ \A i \in 1 .. j : P[h[r].n][i] = N[h[r].n][i]
           Late(r, j) == /\ h[r].n = m /\ j > Len(N[m]) /\ r = q /\ h[q].p = s /\ IsUp(K, s)
                         /\ Fair(h, K, G, M, s, P[m][j]) /\ Carries(P[m][j])
(* What r hears was under way already, or it is new and r is the partner.  *)
<1>12. ASSUME NEW r \in Id, K[r].st # L4SDSCED, NEW j \in 1 .. Len(P[h[r].n]),
              Heard(P[h[r].n], IsUp(K, r), r, j)
       PROVE  \/ Old(r, j) /\ Heard(N[h[r].n], IsUp(K, r), r, j)
              \/ Late(r, j)
  <2> DEFINE n == h[r].n
  <2>1. n \in Node BY WorldTypes
  <2> HIDE DEF n
  <2>2. CASE j \in 1 .. Len(N[n]) /\ \A i \in 1 .. j : P[n][i] = N[n][i]
    <3>1. Heard(P[n], IsUp(K, r), r, j) BY <1>12 DEF n
    <3>2. \A i \in 1 .. j - 1 : P[n][i] = N[n][i] BY <2>2
    <3>3. P[n][j] = N[n][j] BY <2>2
    <3>4. Heard(N[n], IsUp(K, r), r, j) BY <3>1, <3>2, <3>3 DEF Heard
    <3> QED BY <2>2, <3>4 DEF n
  <2>3. CASE /\ n = m /\ j > Len(N[n]) /\ j - Len(N[n]) \in 1 .. Len(out)
             /\ P[n][j] = out[j - Len(N[n])]
             /\ \A i \in 1 .. Len(N[n]) : P[n][i] = N[n][i]
    <3>1. Fair(h, K, G, M, s, P[n][j]) BY <2>3
    <3>2. Carries(P[n][j]) /\ P[n][j].id = r BY <1>12 DEF Heard, n
    <3>3. IsUp(K, s) /\ r = q BY <3>1, <3>2 DEF Fair
    <3>4. IsUp(K, r) \/ \E i \in 1 .. Len(N[n]) : Opens(N[n][i], r)
      <4>1. CASE IsUp(K, r) BY <4>1
      <4>2. CASE ~IsUp(K, r)
        <5>1. PICK i \in 1 .. j - 1 : Opens(P[n][i], r) BY <1>12, <4>2 DEF Heard, n
        <5>2. i \in 1 .. Len(P[n])
          <6>1. Len(P[n]) \in Nat BY <1>2, <1>3, <2>3
          <6> QED BY <6>1 DEF n
        <5>3. Token(P[n][i]) BY <5>1 DEF Opens, Token
        <5>4. i \in 1 .. Len(N[n]) /\ P[n][i] = N[n][i] BY <1>7, <2>1, <5>2, <5>3
        <5> QED BY <5>1, <5>4
      <4> QED BY <4>1, <4>2
    <3>5. h[r].p \in Id BY <3>4, OpenPartner DEF n
    <3>6. Agreed(h, K, N, s) /\ K[s].st # L4SDSCED BY <3>3, StatesDiffer DEF World, IsUp
    <3>7. h[q].p = s BY <3>3, <3>5, <3>6, BoundTypes DEF Agreed, Id
    <3> QED BY <2>3, <3>1, <3>2, <3>3, <3>7 DEF n
  <2> QED BY <1>4, <2>1, <2>2, <2>3 DEF n
<1> HIDE DEF m, q
(* Partners have the same window.                                          *)
<1>13. ASSUME NEW r \in Id, NEW j, Late(r, j)
       PROVE  h[r].p = s /\ h[s].p = r /\ h[r].w = h[s].w /\ s # 0 /\ K[s].st # L4SDSCED
  <2>1. h[r].p = s /\ h[s].p = r /\ K[s].st # L4SDSCED BY <1>13, StatesDiffer DEF q, IsUp
  <2>2. Agreed(h, K, N, s) /\ r # 0 /\ s # 0 BY BoundTypes DEF World, Id
  <2> QED BY <2>1, <2>2 DEF Agreed
<1>14. ASSUME NEW r \in Id, K[r].st # L4SDSCED, NEW j, Late(r, j)
       PROVE  Ahead(K, M, r, P[h[r].n][j]) = Len(G[h[r].p]) - Base(K, M, r)
  <2>1. h[r].p = s /\ s # 0 /\ h[r].w \in 0 .. Mod - 1 /\ Base(K, M, r) \in Int /\ Len(G[s]) \in Nat
    BY <1>13, <1>14, WorldTypes
  <2>2. Base(K, M, r) <= Len(G[s]) /\ Len(G[s]) <= Base(K, M, r) + h[r].w
    BY <1>14, <2>1 DEF World, Listed
  <2>3. P[h[r].n][j].b = Len(G[s]) % Mod BY <1>14 DEF Fair
  <2>4. Len(G[s]) - Base(K, M, r) < Mod BY <2>1, <2>2, ModType
  <2> QED BY <2>1, <2>2, <2>3, <2>4, Near DEF Ahead
<1> HIDE DEF Old, Late
<1>15. ASSUME NEW r \in Id PROVE Confirms(h, K, P, G, M, r)
  <2> DEFINE l == P[h[r].n]
             up == IsUp(K, r)
  <2>1. SUFFICES ASSUME K[r].st # L4SDSCED, NEW j \in 1 .. Len(l), Heard(l, up, r, j)
                 PROVE  Confirming(h, K, P, G, M, r, j)
    BY DEF Confirms
  <2>2. Len(l) \in Nat /\ \A i \in 1 .. j - 1 : i \in 1 .. Len(l)
    <3>1. h[r].n \in Node BY WorldTypes
    <3>2. l \in Seq(Frame) BY <3>1, <1>3
    <3> QED BY <3>2, LenProperties
  <2>3. ASSUME NEW i \in 1 .. Len(l), Heard(l, up, r, i), Old(r, i)
        PROVE  Heard(N[h[r].n], up, r, i) /\ N[h[r].n][i] = l[i] /\ i \in 1 .. Len(N[h[r].n])
    BY <2>3 DEF Old, Heard
  <2>4. ASSUME NEW i \in 1 .. Len(l), Heard(l, up, r, i)
        PROVE  Ahead(K, M, r, l[i]) <= Len(G[h[r].p]) - Base(K, M, r)
    <3>1. CASE Old(r, i)
      <4>1. Confirming(h, K, N, G, M, r, i) BY <2>1, <2>3, <2>4, <3>1 DEF World, Confirms
      <4> QED BY <2>3, <2>4, <3>1, <4>1 DEF Confirming
    <3>2. CASE Late(r, i)
      <4>1. h[r].p \in Id BY <1>13, <3>2, WorldTypes DEF Late
      <4>2. Len(G[h[r].p]) - Base(K, M, r) \in Int BY <4>1, WorldTypes
      <4> QED BY <1>14, <2>1, <3>2, <4>2
    <3> QED BY <1>12, <2>1, <2>4, <3>1, <3>2
  <2>5. ASSUME NEW i \in 1 .. j - 1, Heard(l, up, r, i)
        PROVE  Ahead(K, M, r, l[i]) <= Ahead(K, M, r, l[j])
    <3>1. CASE Old(r, j)
      <4>1. Old(r, i) BY <3>1 DEF Old
      <4>2. Confirming(h, K, N, G, M, r, j) BY <2>1, <2>3, <3>1 DEF World, Confirms
      <4> QED BY <2>1, <2>2, <2>3, <2>5, <3>1, <4>1, <4>2 DEF Confirming
    <3>2. CASE Late(r, j) BY <1>14, <2>1, <2>2, <2>4, <2>5, <3>2
    <3> QED BY <1>12, <2>1, <3>1, <3>2
  <2> QED BY <2>1, <2>4, <2>5 DEF Confirming
<1>16. ASSUME NEW r \in Id PROVE Arrives(h, K, P, G, M, r)
  <2> DEFINE l == P[h[r].n]
             up == IsUp(K, r)
             w == h[r].w
             R == Len(G[r])
  <2>1. SUFFICES ASSUME K[r].st # L4SDSCED, NEW j \in 1 .. Len(l), Heard(l, up, r, j),
                        l[j].op = "INFTRA"
                 PROVE  Arriving(h, K, P, G, M, r, j)
    BY DEF Arrives
  <2>2. Len(l) \in Nat /\ \A i \in 1 .. j - 1 : i \in 1 .. Len(l)
    <3>1. h[r].n \in Node BY WorldTypes
    <3>2. l \in Seq(Frame) BY <3>1, <1>3
    <3> QED BY <3>2, LenProperties
  <2>3. ASSUME NEW i \in 1 .. Len(l), Heard(l, up, r, i), Old(r, i)
        PROVE  Heard(N[h[r].n], up, r, i) /\ N[h[r].n][i] = l[i] /\ i \in 1 .. Len(N[h[r].n])
    BY <2>3 DEF Old, Heard
  <2>4. CASE Old(r, j)
    <3>1. Arriving(h, K, N, G, M, r, j) BY <2>1, <2>3, <2>4 DEF World, Arrives
    <3>0. Len(N[h[r].n]) \in Nat BY WorldTypes
    <3>2. \A i \in 1 .. j - 1 : Old(r, i) BY <2>4, <3>0 DEF Old
    <3>3. \A i \in 1 .. j - 1 : Heard(l, up, r, i) =>
            Heard(N[h[r].n], up, r, i) /\ N[h[r].n][i] = l[i]
      BY <2>2, <2>3, <3>2
    <3>4. N[h[r].n][j] = l[j] BY <2>1, <2>3, <2>4
    <3> HIDE DEF l, up
    <3> QED BY <3>1, <3>3, <3>4 DEF Arriving, l, up
  <2>5. CASE Late(r, j)
    <3>1. /\ h[r].p = s /\ h[s].p = r /\ h[r].w = h[s].w /\ s # 0 /\ K[s].st # L4SDSCED
          /\ Fair(h, K, G, M, s, l[j]) /\ Carries(l[j])
      BY <1>13, <2>5 DEF Late
    <3> DEFINE b == Base(K, M, s)
               no == l[j].m.no
    <3>2. /\ l[j].m.from = s /\ no \in 1 .. M[s] /\ Numbered(l[j])
          /\ b < no /\ no <= b + w
      BY <2>1, <3>1 DEF Fair
    <3>3. R \in Nat /\ b \in Int /\ w \in 0 .. Mod - 1 /\ M[s] \in Nat BY WorldTypes
    <3>4. b <= R /\ R <= b + w BY <3>1, BoundTypes DEF World, Listed, Id
    <3>5. ASSUME NEW i \in 1 .. Len(l), Heard(l, up, r, i), l[i].op = "INFTRA"
          PROVE  l[i].m.no <= b + w /\ l[i].m.no \in Nat
      <4>1. CASE Old(r, i)
        <5>1. Arriving(h, K, N, G, M, r, i) BY <2>1, <2>3, <3>5, <4>1 DEF World, Arrives
        <5>2. N[h[r].n][i] = l[i] BY <2>3, <3>5, <4>1
        <5>3. l[i].m.no \in 1 .. M[s] /\ l[i].m.no <= b + w BY <3>1, <5>1, <5>2 DEF Arriving
        <5> QED BY <3>3, <5>3
      <4>2. CASE Late(r, i)
        <5>1. Fair(h, K, G, M, s, l[i]) /\ Carries(l[i]) BY <4>2 DEF Late
        <5>2. l[i].m.no \in 1 .. M[s] /\ l[i].m.no <= b + w BY <3>1, <3>5, <5>1 DEF Fair
        <5> QED BY <3>3, <5>2
      <4> QED BY <1>12, <2>1, <3>5, <4>1, <4>2
    <3>6. ASSUME up, NEW o \in 1 .. Mod - 1, K[r].mbhdos[o] # NoMessage
          PROVE  R + o + 1 <= b + w
      BY <3>1, <3>6 DEF World, Placed, IsUp
    <3> HIDE DEF b, no, w, R, l, up
    <3>10. no \in Int /\ b \in Int /\ w \in Int /\ R \in Int /\ b < no /\ no <= b + w
      BY <3>2, <3>3, ModType
    <3>7. R - w <= no - 1 /\ no - 1 < R + w BY <3>4, <3>10
    <3>8. ASSUME up, NEW o \in 1 .. Mod - 1, K[r].mbhdos[o] # NoMessage
          PROVE  R + o + 1 - w <= no - 1
      <4>1. R + o + 1 <= b + w BY <3>6, <3>8
      <4> QED BY <3>10, <4>1, ModType
    <3>9. ASSUME NEW i \in 1 .. j - 1, Heard(l, up, r, i), l[i].op = "INFTRA"
          PROVE  l[i].m.no - w <= no - 1
      <4>1. l[i].m.no <= b + w /\ l[i].m.no \in Nat BY <2>2, <3>5, <3>9
      <4> QED BY <3>10, <4>1
    <3> QED BY <3>1, <3>2, <3>7, <3>8, <3>9 DEF Arriving, l, up, b, no, w, R
  <2> QED BY <1>12, <2>1, <2>4, <2>5
<1> QED BY <1>6, <1>8, <1>10, <1>11, <1>15, <1>16 DEF World, P, m

-----------------------------------------------------------------------------
(* Node n reads the first datagram that is on its way to it.               *)

After(N, n) == [N EXCEPT ![n] = Tail(@)]

(* The place in N of what is at j in After(N, n)[k].                       *)
Back(n, k, j) == IF k = n THEN j + 1 ELSE j

LEMMA PopType ==
  ASSUME NEW N \in [Node -> Seq(Frame)], NEW n \in Node, N[n] # <<>>
  PROVE  /\ After(N, n) \in [Node -> Seq(Frame)]
         /\ 1 \in 1 .. Len(N[n]) /\ Head(N[n]) = N[n][1] /\ Head(N[n]) \in Frame
         /\ \A k \in Node : /\ Len(N[k]) \in Nat /\ Len(After(N, n)[k]) \in Nat
                            /\ k # n => After(N, n)[k] = N[k]
         /\ \A k \in Node : \A j \in 1 .. Len(After(N, n)[k]) :
              Back(n, k, j) \in 1 .. Len(N[k]) /\ After(N, n)[k][j] = N[k][Back(n, k, j)]
         /\ \A k \in Node : \A j \in 1 .. Len(N[k]) : (k = n /\ j = 1) \/
              \E i \in 1 .. Len(After(N, n)[k]) : After(N, n)[k][i] = N[k][j]
<1> DEFINE P == After(N, n)
<1>1. N[n] \in Seq(Frame) OBVIOUS
<1>2. /\ Tail(N[n]) \in Seq(Frame) /\ Len(Tail(N[n])) = Len(N[n]) - 1 /\ Len(N[n]) >= 1
      /\ \A j \in 1 .. Len(Tail(N[n])) : Tail(N[n])[j] = N[n][j + 1]
      /\ Len(N[n]) \in Nat /\ Head(N[n]) = N[n][1]
  BY <1>1, HeadTailProperties, EmptySeq, LenProperties
<1>3. P = [N EXCEPT ![n] = Tail(N[n])] BY DEF After
<1> HIDE DEF P
<1>4. P \in [Node -> Seq(Frame)] /\ P[n] = Tail(N[n]) /\ \A k \in Node : k # n => P[k] = N[k]
  BY <1>2, <1>3
<1>5. 1 \in 1 .. Len(N[n]) /\ N[n][1] \in Frame BY <1>1, <1>2
<1>6. \A k \in Node : Len(N[k]) \in Nat /\ Len(P[k]) \in Nat BY <1>4, LenProperties
<1>7. ASSUME NEW k \in Node, NEW j \in 1 .. Len(P[k])
      PROVE  Back(n, k, j) \in 1 .. Len(N[k]) /\ P[k][j] = N[k][Back(n, k, j)]
  <2>1. CASE k = n
    <3>1. j \in 1 .. Len(Tail(N[n])) /\ Back(n, k, j) = j + 1 BY <1>4, <2>1 DEF Back
    <3>2. j + 1 \in 1 .. Len(N[n]) BY <1>2, <3>1
    <3> QED BY <1>2, <1>4, <2>1, <3>1, <3>2
  <2>2. CASE k # n BY <1>4, <2>2 DEF Back
  <2> QED BY <2>1, <2>2
<1>8. ASSUME NEW k \in Node, NEW j \in 1 .. Len(N[k]), ~(k = n /\ j = 1)
      PROVE  \E i \in 1 .. Len(P[k]) : P[k][i] = N[k][j]
  <2>1. CASE k = n
    <3>1. j - 1 \in 1 .. Len(P[n]) BY <1>2, <1>4, <1>8, <2>1
    <3>2. P[n][j - 1] = N[n][(j - 1) + 1] BY <1>2, <1>4, <3>1
    <3>3. (j - 1) + 1 = j OBVIOUS
    <3> QED BY <2>1, <3>1, <3>2, <3>3
  <2>2. CASE k # n BY <1>4, <2>2
  <2> QED BY <2>1, <2>2
<1> QED BY <1>2, <1>4, <1>5, <1>6, <1>7, <1>8 DEF P

(* d is what a circuit c becomes that f brings a partner.                  *)
Opened(c, d, f, s) ==
  /\ Opens(f, s) /\ c.st = L4SLKSUP /\ d.st = L4SIXFER /\ d.mbhdtx = c.mbhdtx
  /\ d.l4rxvs = 0 /\ d.l4vr = 0
  /\ d.window = f.win /\ d.idpart = f.b /\ d.idxpar = f.a
  /\ d.mbhdos = [o \in 1 .. Mod - 1 |-> NoMessage]

(* What circuits have still to hear is right when the datagram is gone.    *)
LEMMA Popped ==
  ASSUME NEW h, NEW K, NEW N, NEW G, NEW M, NEW I, World(h, K, N, G, M, I),
         NEW n \in Node, N[n] # <<>>, NEW L \in [Id -> Good],
         \A s \in Id : L[s] = K[s] \/ (Opened(K[s], L[s], Head(N[n]), s) /\ h[s].n = n)
  PROVE  /\ Types(h, L, After(N, n), G, M, I) /\ Once(After(N, n))
         /\ \A s \in Id : Confirms(h, L, After(N, n), G, M, s) /\ Arrives(h, L, After(N, n), G, M, s)
         /\ \A s \in Id : Base(L, M, s) = Base(K, M, s) /\ (L[s].st = L4SDSCED <=> K[s].st = L4SDSCED)
<1> DEFINE P == After(N, n)
<1>0. N \in [Node -> Seq(Frame)] BY DEF World, Types
<1>1. /\ P \in [Node -> Seq(Frame)]
      /\ Head(N[n]) = N[n][1]
      /\ \A k \in Node : Len(N[k]) \in Nat /\ Len(P[k]) \in Nat
      /\ \A k \in Node : \A j \in 1 .. Len(P[k]) :
            Back(n, k, j) \in 1 .. Len(N[k]) /\ P[k][j] = N[k][Back(n, k, j)]
  BY <1>0, PopType
<1> HIDE DEF P
<1>2. Types(h, L, P, G, M, I) BY <1>1 DEF World, Types
<1>3. Once(P)
  <2> SUFFICES ASSUME NEW a \in Node, NEW b \in Node, NEW i \in 1 .. Len(P[a]),
                      NEW j \in 1 .. Len(P[b]), Token(P[a][i]), Token(P[b][j]),
                      P[a][i].id = P[b][j].id
               PROVE  a = b /\ i = j
    BY DEF Once
  <2>0. /\ Back(n, a, i) \in 1 .. Len(N[a]) /\ P[a][i] = N[a][Back(n, a, i)]
        /\ Back(n, b, j) \in 1 .. Len(N[b]) /\ P[b][j] = N[b][Back(n, b, j)]
    BY <1>1
  <2>1. Once(N) BY DEF World
  <2> DEFINE u == Back(n, a, i)
             v == Back(n, b, j)
  <2>2. Token(N[a][u]) /\ Token(N[b][v]) /\ N[a][u].id = N[b][v].id BY <2>0
  <2>3. u \in 1 .. Len(N[a]) /\ v \in 1 .. Len(N[b]) BY <2>0
  <2> HIDE DEF u, v
  <2>4. a = b /\ u = v BY <2>1, <2>2, <2>3 DEF Once
  <2> QED BY <2>4 DEF Back, u, v
<1>4. \A s \in Id : Base(L, M, s) = Base(K, M, s) /\ (L[s].st = L4SDSCED <=> K[s].st = L4SDSCED)
  BY StatesDiffer DEF Base, Opened
(* Who hears a datagram would have heard it before.                        *)
<1>5. ASSUME NEW s \in Id, NEW j \in 1 .. Len(P[h[s].n]), Heard(P[h[s].n], IsUp(L, s), s, j)
      PROVE  /\ Back(n, h[s].n, j) \in 1 .. Len(N[h[s].n])
             /\ P[h[s].n][j] = N[h[s].n][Back(n, h[s].n, j)]
             /\ Heard(N[h[s].n], IsUp(K, s), s, Back(n, h[s].n, j))
  <2> DEFINE a == h[s].n
             b == Back(n, a, j)
  <2>1. a \in Node BY WorldTypes
  <2>2. b \in 1 .. Len(N[a]) /\ P[a][j] = N[a][b] BY <1>1, <2>1
  <2>3. IsUp(K, s) \/ \E i \in 1 .. b - 1 : Opens(N[a][i], s)
    <3>1. CASE L[s] = K[s] /\ IsUp(L, s) BY <3>1 DEF IsUp
    <3>2. CASE \E i \in 1 .. j - 1 : Opens(P[a][i], s)
      <4>1. PICK i \in 1 .. j - 1 : Opens(P[a][i], s) BY <3>2
      <4>2. i \in 1 .. Len(P[a]) BY <1>1, <2>1
      <4>3. P[a][i] = N[a][Back(n, a, i)] BY <1>1, <2>1, <4>2
      <4>4. Back(n, a, i) \in 1 .. b - 1 BY DEF Back
      <4> QED BY <4>1, <4>3, <4>4
    <3>3. CASE L[s] # K[s]
      <4>1. Opens(N[n][1], s) /\ a = n BY <1>1, <3>3 DEF Opened
      <4>2. 1 \in 1 .. b - 1 BY <4>1 DEF Back
      <4> QED BY <4>1, <4>2
    <3> QED BY <1>5, <3>1, <3>2, <3>3 DEF Heard
  <2> QED BY <1>5, <2>2, <2>3 DEF Heard
<1>6. ASSUME NEW s \in Id PROVE Confirms(h, L, P, G, M, s)
  <2>1. SUFFICES ASSUME L[s].st # L4SDSCED, NEW j \in 1 .. Len(P[h[s].n]),
                        Heard(P[h[s].n], IsUp(L, s), s, j)
                 PROVE  Confirming(h, L, P, G, M, s, j)
    BY DEF Confirms
  <2> DEFINE b == Back(n, h[s].n, j)
  <2>2. Confirming(h, K, N, G, M, s, b) BY <1>4, <1>5, <2>1 DEF World, Confirms
  <2>3. ASSUME NEW i \in 1 .. j - 1, Heard(P[h[s].n], IsUp(L, s), s, i)
        PROVE  /\ Back(n, h[s].n, i) \in 1 .. b - 1
               /\ P[h[s].n][i] = N[h[s].n][Back(n, h[s].n, i)]
               /\ Heard(N[h[s].n], IsUp(K, s), s, Back(n, h[s].n, i))
    <3>1. i \in 1 .. Len(P[h[s].n])
      <4>1. h[s].n \in Node BY WorldTypes
      <4> QED BY <1>1, <4>1
    <3>2. Back(n, h[s].n, i) \in 1 .. b - 1 BY DEF Back
    <3> QED BY <1>5, <2>3, <3>1, <3>2
  <2>4. P[h[s].n][j] = N[h[s].n][b] BY <1>5, <2>1
  <2>5. Base(L, M, s) = Base(K, M, s) BY <1>4
  <2> HIDE DEF b
  <2> QED BY <2>2, <2>3, <2>4, <2>5 DEF Confirming, Ahead
<1>7. ASSUME NEW s \in Id PROVE Arrives(h, L, P, G, M, s)
  <2>1. SUFFICES ASSUME L[s].st # L4SDSCED, NEW j \in 1 .. Len(P[h[s].n]),
                        Heard(P[h[s].n], IsUp(L, s), s, j), P[h[s].n][j].op = "INFTRA"
                 PROVE  Arriving(h, L, P, G, M, s, j)
    BY DEF Arrives
  <2> DEFINE b == Back(n, h[s].n, j)
  <2>2. Arriving(h, K, N, G, M, s, b) BY <1>4, <1>5, <2>1 DEF World, Arrives
  <2>3. ASSUME NEW i \in 1 .. j - 1, Heard(P[h[s].n], IsUp(L, s), s, i)
        PROVE  /\ Back(n, h[s].n, i) \in 1 .. b - 1
               /\ P[h[s].n][i] = N[h[s].n][Back(n, h[s].n, i)]
               /\ Heard(N[h[s].n], IsUp(K, s), s, Back(n, h[s].n, i))
    <3>1. i \in 1 .. Len(P[h[s].n])
      <4>1. h[s].n \in Node BY WorldTypes
      <4> QED BY <1>1, <4>1
    <3>2. Back(n, h[s].n, i) \in 1 .. b - 1 BY DEF Back
    <3> QED BY <1>5, <2>3, <3>1, <3>2
  <2>4. P[h[s].n][j] = N[h[s].n][b] BY <1>5, <2>1
  <2>5. h[s].p \in Id
    <3>1. b \in 1 .. Len(N[h[s].n]) /\ Heard(N[h[s].n], IsUp(K, s), s, b) BY <1>5, <2>1
    <3> QED BY <3>1, HeardPartner
  <2>6. /\ Base(L, M, h[s].p) = Base(K, M, h[s].p)
        /\ L[h[s].p].st # L4SDSCED => K[h[s].p].st # L4SDSCED
    BY <1>4, <2>5
  <2>7. ASSUME IsUp(L, s), NEW o \in 1 .. Mod - 1, L[s].mbhdos[o] # NoMessage
        PROVE  IsUp(K, s) /\ L[s].mbhdos[o] = K[s].mbhdos[o]
    BY <2>7 DEF Opened, IsUp
  <2> HIDE DEF b
  <2> QED BY <2>2, <2>3, <2>4, <2>6, <2>7 DEF Arriving
<1> QED BY <1>2, <1>3, <1>4, <1>6, <1>7 DEF P

(* The head of N[n] is the only one of its kind.                           *)
LEMMA OnlyHead ==
  ASSUME NEW h, NEW K, NEW N, NEW G, NEW M, NEW I, World(h, K, N, G, M, I),
         NEW n \in Node, N[n] # <<>>, Token(Head(N[n])),
         NEW k \in Node, NEW j \in 1 .. Len(After(N, n)[k]), Token(After(N, n)[k][j])
  PROVE  After(N, n)[k][j].id # Head(N[n]).id
<1>1. N \in [Node -> Seq(Frame)] /\ Once(N) BY DEF World, Types
<1>2. /\ 1 \in 1 .. Len(N[n]) /\ Head(N[n]) = N[n][1]
      /\ Back(n, k, j) \in 1 .. Len(N[k]) /\ After(N, n)[k][j] = N[k][Back(n, k, j)]
  BY <1>1, PopType
<1>3. ~(k = n /\ Back(n, k, j) = 1) BY DEF Back
<1> QED BY <1>1, <1>2, <1>3 DEF Once

(* A datagram is read, or lost.  If it brings a circuit its partner, the   *)
(* circuit meets it.                                                       *)
LEMMA Read ==
  ASSUME NEW h, NEW K, NEW N, NEW G, NEW M, NEW I, World(h, K, N, G, M, I),
         NEW n \in Node, N[n] # <<>>, NEW L \in [Id -> Good],
         \A s \in Id : L[s] = K[s] \/ (Opened(K[s], L[s], Head(N[n]), s) /\ h[s].n = n),
         \A s \in Id : Opens(Head(N[n]), s) => L[s].st # L4SLKSUP
  PROVE  World(h, L, After(N, n), G, M, I)
<1> DEFINE P == After(N, n)
           f == Head(N[n])
<1>0. N \in [Node -> Seq(Frame)] BY DEF World, Types
<1>1. /\ f = N[n][1] /\ 1 \in 1 .. Len(N[n])
      /\ \A k \in Node : \A j \in 1 .. Len(P[k]) :
            Back(n, k, j) \in 1 .. Len(N[k]) /\ P[k][j] = N[k][Back(n, k, j)]
      /\ \A k \in Node : \A j \in 1 .. Len(N[k]) : (k = n /\ j = 1) \/
            \E i \in 1 .. Len(P[k]) : P[k][i] = N[k][j]
  BY <1>0, PopType
<1>2. /\ Types(h, L, P, G, M, I) /\ Once(P)
      /\ \A s \in Id : Confirms(h, L, P, G, M, s) /\ Arrives(h, L, P, G, M, s)
      /\ \A s \in Id : Base(L, M, s) = Base(K, M, s) /\ (L[s].st = L4SDSCED <=> K[s].st = L4SDSCED)
  BY Popped
<1>3. Asked(h, K, G, I, n, f) BY <1>1 DEF World
<1> HIDE DEF P, f
<1>4. ASSUME NEW s \in Id, L[s] # K[s]
      PROVE  /\ Opened(K[s], L[s], f, s)
             /\ f.b \in 1 .. I /\ h[s].p = f.b /\ f.a = h[f.b].i /\ h[s].w = f.win
             /\ G[s] = <<>>
  <2>1. Opened(K[s], L[s], f, s) BY <1>4 DEF f
  <2> QED BY <1>3, <2>1 DEF Opened, Opens, Asked, Token
<1>5. ASSUME NEW s \in Id
      PROVE  /\ Unborn(h, L, G, M, I, s) /\ InOrder(h, G, M, s)
             /\ Agreed(h, L, P, s) /\ Partner(h, L, s)
             /\ Listed(h, L, G, M, s) /\ Placed(h, L, G, M, s)
  <2>1. Unborn(h, L, G, M, I, s) BY <1>2 DEF World, Unborn
  <2>2. InOrder(h, G, M, s) BY DEF World
  <2>3. Agreed(h, L, P, s)
    <3>1. Agreed(h, K, N, s) BY DEF World
    <3>2. ASSUME h[s].p # 0, L[s].st = L4SLKSUP
          PROVE  \E j \in 1 .. Len(P[h[s].n]) : Opens(P[h[s].n][j], s)
      <4>1. K[s].st = L4SLKSUP BY <1>4, <3>2, StatesDiffer DEF Opened
      <4>2. PICK j \in 1 .. Len(N[h[s].n]) : Opens(N[h[s].n][j], s)
        BY <3>1, <3>2, <4>1, StatesDiffer DEF Agreed
      <4>3. ~(h[s].n = n /\ j = 1) BY <1>1, <3>2, <4>2 DEF f
      <4>4. h[s].n \in Node BY WorldTypes
      <4> QED BY <1>1, <4>2, <4>3, <4>4
    <3> QED BY <1>2, <3>1, <3>2 DEF Agreed
  <2>4. Partner(h, L, s)
    <3>1. Partner(h, K, s) BY DEF World
    <3>2. CASE L[s] = K[s] BY <3>1, <3>2 DEF Partner
    <3>3. CASE L[s] # K[s]
      <4>1. f.b # 0
        <5>1. I \in 0 .. MaxId BY DEF World, Types
        <5> QED BY <1>4, <3>3, <5>1
      <4> QED BY <1>4, <3>3, <4>1 DEF Partner, Opened
    <3> QED BY <3>2, <3>3
  <2>5. Listed(h, L, G, M, s)
    <3>1. Listed(h, K, G, M, s) BY DEF World
    <3>2. L[s].mbhdtx = K[s].mbhdtx /\ (L[s].st = L4SLKSUP => K[s].st = L4SLKSUP)
      BY <1>4 DEF Opened
    <3> QED BY <1>2, <3>1, <3>2 DEF Listed
  <2>6. Placed(h, L, G, M, s)
    <3>1. CASE L[s] = K[s]
      <4>1. Placed(h, K, G, M, s) BY DEF World
      <4>2. K[s].st = L4SIXFER => h[s].p \in Id BY OpenPartner DEF IsUp
      <4>3. h[s].p \in Id => /\ Base(L, M, h[s].p) = Base(K, M, h[s].p)
                              /\ L[h[s].p].st # L4SDSCED => K[h[s].p].st # L4SDSCED
        BY <1>2
      <4> QED BY <1>2, <3>1, <4>1, <4>2, <4>3 DEF Placed
    <3>2. CASE L[s] # K[s]
      <4>1. Base(K, M, s) = 0 BY <1>4, <3>2, StatesDiffer DEF World, Listed, Opened
      <4>2. Len(G[s]) = 0 BY <1>4, <3>2
      <4>3. 0 % Mod = 0 BY ModType, ModSmall
      <4>4. \A o \in 1 .. Mod - 1 : L[s].mbhdos[o] = NoMessage
        <5>1. Opened(K[s], L[s], f, s) BY <1>4, <3>2
        <5>2. L[s].mbhdos = [o \in 1 .. Mod - 1 |-> NoMessage] BY <5>1 DEF Opened
        <5> QED BY <5>2
      <4>5. L[s].l4rxvs = 0 /\ L[s].l4vr = 0 BY <1>4, <3>2 DEF Opened
      <4> QED BY <1>2, <4>1, <4>2, <4>3, <4>4, <4>5 DEF Placed
    <3> QED BY <3>1, <3>2
  <2> QED BY <2>1, <2>2, <2>3, <2>4, <2>5, <2>6
<1>6. ASSUME NEW k \in Node, NEW j \in 1 .. Len(P[k])
      PROVE  Asked(h, L, G, I, k, P[k][j])
  <2>1. Asked(h, K, G, I, k, P[k][j]) BY <1>1 DEF World
  <2>2. ASSUME Token(P[k][j]) PROVE P[k][j].id \in Id /\ L[P[k][j].id] = K[P[k][j].id]
    <3>1. P[k][j].id \in Id BY <1>2, <2>1, <2>2, BoundTypes DEF Asked, Types, Id
    <3>2. Token(f) => P[k][j].id # f.id BY <2>2, OnlyHead DEF P, f
    <3> QED BY <1>4, <3>1, <3>2 DEF Opened, Opens, Token
  <2> QED BY <2>1, <2>2 DEF Asked
<1> QED BY <1>2, <1>5, <1>6 DEF World, P

(* A CONACK is lost: the caller waits for another one.                     *)
LEMMA Forgotten ==
  ASSUME NEW h, NEW K, NEW N, NEW G, NEW M, NEW I, World(h, K, N, G, M, I),
         NEW n \in Node, N[n] # <<>>, NEW t \in Id, Opens(Head(N[n]), t)
  PROVE  World([h EXCEPT ![t].p = 0], K, After(N, n), G, M, I)
<1> DEFINE P == After(N, n)
           f == Head(N[n])
           g == [h EXCEPT ![t].p = 0]
<1>0. N \in [Node -> Seq(Frame)] /\ h \in [Id -> Reg] BY DEF World, Types
<1>1. /\ f = N[n][1] /\ 1 \in 1 .. Len(N[n])
      /\ \A k \in Node : \A j \in 1 .. Len(P[k]) :
            Back(n, k, j) \in 1 .. Len(N[k]) /\ P[k][j] = N[k][Back(n, k, j)]
      /\ \A k \in Node : \A j \in 1 .. Len(N[k]) : (k = n /\ j = 1) \/
            \E i \in 1 .. Len(P[k]) : P[k][i] = N[k][j]
      /\ \A k \in Node : Len(P[k]) \in Nat
  BY <1>0, PopType
<1>2. /\ Types(h, K, P, G, M, I) /\ Once(P)
      /\ \A s \in Id : Confirms(h, K, P, G, M, s) /\ Arrives(h, K, P, G, M, s)
  <2>1. K \in [Id -> Good] BY DEF World, Types
  <2> QED BY <2>1, Popped
<1>3. /\ Token(f) /\ f.id = t /\ G[t] = <<>> /\ K[t].st \notin Paired
      /\ h[t].p = f.b /\ t < f.b /\ f.b \in 1 .. I
  <2>1. Asked(h, K, G, I, n, f) BY <1>1 DEF World
  <2> QED BY <2>1 DEF Asked, Opens, Token
<1>4. /\ g \in [Id -> Reg]
      /\ \A s \in Id : g[s].n = h[s].n /\ g[s].i = h[s].i /\ g[s].w = h[s].w
      /\ \A s \in Id : s # t => g[s] = h[s]
      /\ g[t].p = 0
  <2> DEFINE e == [h[t] EXCEPT !.p = 0]
  <2>1. h[t] \in Reg /\ 0 \in 0 .. MaxId BY <1>0, BoundTypes
  <2>2. e \in Reg /\ e.n = h[t].n /\ e.i = h[t].i /\ e.w = h[t].w /\ e.p = 0 BY <2>1 DEF Reg
  <2>3. g = [h EXCEPT ![t] = e] OBVIOUS
  <2> HIDE DEF e, g
  <2> QED BY <1>0, <2>2, <2>3
<1> HIDE DEF P, f, g
<1>5. ASSUME NEW s \in Id
      PROVE  /\ Unborn(g, K, G, M, I, s) /\ InOrder(g, G, M, s)
             /\ Agreed(g, K, P, s) /\ Partner(g, K, s)
             /\ Listed(g, K, G, M, s) /\ Placed(g, K, G, M, s)
             /\ Confirms(g, K, P, G, M, s) /\ Arrives(g, K, P, G, M, s)
  <2>0. /\ Unborn(h, K, G, M, I, s) /\ InOrder(h, G, M, s)
        /\ Agreed(h, K, N, s) /\ Partner(h, K, s)
        /\ Listed(h, K, G, M, s) /\ Placed(h, K, G, M, s)
    BY DEF World
  <2>1. CASE s = t
    <3>1. Unborn(g, K, G, M, I, s)
      <4>1. I \in 0 .. MaxId BY DEF World, Types
      <4> QED BY <1>3, <1>4, <2>0, <2>1, <4>1 DEF Unborn
    <3>2. InOrder(g, G, M, s) BY <1>3, <1>4, <2>1 DEF InOrder
    <3>3. Agreed(g, K, P, s) BY <1>4, <2>1 DEF Agreed
    <3>4. Partner(g, K, s) BY <1>3, <2>1, StatesDiffer DEF Partner
    <3>5. Listed(g, K, G, M, s) BY <1>4, <2>0, <2>1 DEF Listed
    <3>6. Placed(g, K, G, M, s) BY <1>3, <2>1, StatesDiffer DEF Placed
    <3>7. ASSUME NEW j \in 1 .. Len(P[g[s].n]) PROVE ~Heard(P[g[s].n], IsUp(K, s), s, j)
      <4>1. ~IsUp(K, s) BY <1>3, <2>1, StatesDiffer DEF IsUp
      <4>2. ASSUME NEW i \in 1 .. j - 1, Opens(P[g[s].n][i], s) PROVE FALSE
        <5>1. g[s].n \in Node BY <1>4 DEF Reg
        <5>2. i \in 1 .. Len(P[g[s].n]) BY <1>1, <5>1
        <5> QED BY <1>3, <2>1, <4>2, <5>1, <5>2, OnlyHead DEF Opens, Token, P, f
      <4> QED BY <4>1, <4>2 DEF Heard
    <3> QED BY <3>1, <3>2, <3>3, <3>4, <3>5, <3>6, <3>7 DEF Confirms, Arrives
  <2>2. CASE s # t
    <3> DEFINE q == h[s].p
    <3>0. g[s] = h[s] BY <1>4, <2>2
    <3>1. Unborn(g, K, G, M, I, s) BY <2>0, <3>0 DEF Unborn
    <3>2. InOrder(g, G, M, s) BY <2>0, <3>0 DEF InOrder
    <3>3. Agreed(g, K, P, s)
      <4>0. q # 0 => q \in Id BY WorldTypes
      <4>1. ASSUME q # 0, K[s].st # L4SDSCED
            PROVE  /\ g[q].n = Peer(g[s].n) /\ g[q].p \in {0, s}
                   /\ g[q].p = s => g[q].w = g[s].w
                   /\ \A r \in Id : K[r].st # L4SDSCED /\ g[r].p = q => r = s
        <5>1. /\ h[q].n = Peer(h[s].n) /\ h[q].p \in {0, s}
              /\ h[q].p = s => h[q].w = h[s].w
              /\ \A r \in Id : K[r].st # L4SDSCED /\ h[r].p = q => r = s
          BY <2>0, <4>1 DEF Agreed
        <5>2. g[q].p = 0 \/ g[q].p = h[q].p BY <1>4, <4>0, <4>1
        <5>3. s # 0 BY BoundTypes DEF Id
        <5>4. ASSUME NEW r \in Id, K[r].st # L4SDSCED, g[r].p = q PROVE r = s
          BY <1>4, <4>1, <5>1, <5>4
        <5>5. g[q].n = h[q].n /\ (g[q].p # 0 => g[q] = h[q]) BY <1>4, <4>0, <4>1
        <5>6. g[q].n = Peer(g[s].n) BY <3>0, <5>1, <5>5
        <5>7. g[q].p \in {0, s} BY <5>1, <5>2
        <5>8. g[q].p = s => g[q].w = g[s].w BY <3>0, <5>1, <5>3, <5>5
        <5> QED BY <5>4, <5>6, <5>7, <5>8
      <4>2. ASSUME q # 0, K[s].st = L4SLKSUP
            PROVE  \E j \in 1 .. Len(P[g[s].n]) : Opens(P[g[s].n][j], s)
        <5>1. PICK j \in 1 .. Len(N[h[s].n]) : Opens(N[h[s].n][j], s)
          BY <2>0, <4>2, StatesDiffer DEF Agreed
        <5>2. ~(h[s].n = n /\ j = 1) BY <1>1, <1>3, <2>2, <5>1 DEF Opens
        <5>3. h[s].n \in Node BY WorldTypes
        <5>4. PICK i \in 1 .. Len(P[h[s].n]) : P[h[s].n][i] = N[h[s].n][j]
          BY <1>1, <5>2, <5>3
        <5> QED BY <3>0, <5>1, <5>4
      <4> QED BY <2>0, <3>0, <4>1, <4>2 DEF Agreed
    <3>4. Partner(g, K, s)
      <4>0. q # 0 => q \in Id BY WorldTypes
      <4> QED BY <1>4, <2>0, <3>0, <4>0 DEF Partner
    <3>5. Listed(g, K, G, M, s) BY <2>0, <3>0 DEF Listed
    <3>6. Placed(g, K, G, M, s) BY <2>0, <3>0 DEF Placed
    <3>7. Confirms(g, K, P, G, M, s) BY <1>2, <3>0 DEF Confirms, Confirming
    <3>8. Arrives(g, K, P, G, M, s) BY <1>2, <3>0 DEF Arrives, Arriving
    <3> QED BY <3>1, <3>2, <3>3, <3>4, <3>5, <3>6, <3>7, <3>8
  <2> QED BY <2>1, <2>2
<1>6. ASSUME NEW k \in Node, NEW j \in 1 .. Len(P[k])
      PROVE  Asked(g, K, G, I, k, P[k][j])
  <2> DEFINE e == P[k][j]
  <2>1. Asked(h, K, G, I, k, e) BY <1>1 DEF World
  <2>2. I \in 0 .. MaxId BY DEF World, Types
  <2> HIDE DEF e
  <2>3. Carries(e) => e.id <= I BY <2>1 DEF Asked
  <2>4. ASSUME Token(e) PROVE e.id \in Id /\ e.id # t /\ (e.op = "CONACK" => e.b \in Id /\ e.b # t)
    <3>1. e.id \in Id BY <2>1, <2>2, <2>4, BoundTypes DEF Asked, Id
    <3>2. e.id # t BY <1>3, <2>4, OnlyHead DEF P, f, e
    <3>3. ASSUME e.op = "CONACK" PROVE e.b \in Id /\ e.b # t
      <4>1. e.b \in 1 .. I /\ e.id < e.b /\ h[e.b].p = e.id BY <2>1, <2>4, <3>3 DEF Asked
      <4>2. e.b \in Id BY <2>2, <4>1, BoundTypes DEF Id
      <4>3. e.b # t
        <5>1. SUFFICES ASSUME e.b = t PROVE FALSE OBVIOUS
        <5>2. e.id = f.b /\ e.id < t BY <1>3, <4>1, <5>1
        <5> QED BY <1>3, <2>2, <3>1, <5>2, BoundTypes DEF Id
      <4> QED BY <4>2, <4>3
    <3> QED BY <3>1, <3>2, <3>3
  <2> QED BY <1>4, <2>1, <2>3, <2>4 DEF Asked, e
<1>7. Types(g, K, P, G, M, I) BY <1>2, <1>4 DEF Types
<1> QED BY <1>2, <1>5, <1>6, <1>7 DEF World, P, g

-----------------------------------------------------------------------------
(* A connected circuit s moves: it has messages confirmed, takes some or   *)
(* keeps one.  What the invariant says of s is enough.                     *)

Moves(h, K, N, G, M, s, d, g) ==
  LET L == [K EXCEPT ![s] = d]
      H == [G EXCEPT ![s] = g]
      q == h[s].p
      l == N[h[s].n]
  IN  /\ d.st = L4SIXFER
      /\ d.idpart = K[s].idpart /\ d.idxpar = K[s].idxpar /\ d.window = K[s].window
      /\ Len(g) >= Len(G[s]) /\ Base(L, M, s) >= Base(K, M, s)
      /\ K[q].st # L4SDSCED /\ h[q].p = s => Len(g) <= Base(K, M, q) + h[s].w
      /\ InOrder(h, H, M, s) /\ Listed(h, L, H, M, s) /\ Placed(h, L, H, M, s)
      /\ \A j \in 1 .. Len(l) : Heard(l, IsUp(K, s), s, j) =>
           /\ Confirming(h, L, N, H, M, s, j)
           /\ l[j].op = "INFTRA" => Arriving(h, L, N, H, M, s, j)

LEMMA Moved ==
  ASSUME NEW h, NEW K, NEW N, NEW G, NEW M, NEW I, World(h, K, N, G, M, I),
         NEW s \in Id, IsUp(K, s), NEW d \in Good, NEW g \in Seq(Message),
         Moves(h, K, N, G, M, s, d, g)
  PROVE  World(h, [K EXCEPT ![s] = d], N, [G EXCEPT ![s] = g], M, I)
<1> DEFINE L == [K EXCEPT ![s] = d]
           H == [G EXCEPT ![s] = g]
<1>0. /\ d.st = L4SIXFER
      /\ d.idpart = K[s].idpart /\ d.idxpar = K[s].idxpar /\ d.window = K[s].window
      /\ Len(g) >= Len(G[s]) /\ Base(L, M, s) >= Base(K, M, s)
      /\ K[h[s].p].st # L4SDSCED /\ h[h[s].p].p = s => Len(g) <= Base(K, M, h[s].p) + h[s].w
      /\ InOrder(h, H, M, s) /\ Listed(h, L, H, M, s) /\ Placed(h, L, H, M, s)
      /\ \A j \in 1 .. Len(N[h[s].n]) : Heard(N[h[s].n], IsUp(K, s), s, j) =>
           /\ Confirming(h, L, N, H, M, s, j)
           /\ N[h[s].n][j].op = "INFTRA" => Arriving(h, L, N, H, M, s, j)
  BY DEF Moves
<1>1. K \in [Id -> Good] /\ G \in [Id -> Seq(Message)] BY DEF World, Types
<1>2. L \in [Id -> Good] /\ L[s] = d /\ \A r \in Id : r # s => L[r] = K[r]
  BY <1>1
<1>3. H \in [Id -> Seq(Message)] /\ H[s] = g /\ \A r \in Id : r # s => H[r] = G[r]
  BY <1>1
<1> HIDE DEF L, H
<1>4. /\ \A r \in Id : L[r].st = K[r].st
      /\ \A r \in Id : IsUp(L, r) = IsUp(K, r)
  <2>1. \A r \in Id : L[r].st = K[r].st BY <1>0, <1>2 DEF IsUp
  <2> QED BY <2>1 DEF IsUp
<1>5. /\ \A r \in Id : Base(L, M, r) \in Int /\ Base(K, M, r) \in Int
      /\ \A r \in Id : Base(L, M, r) >= Base(K, M, r)
      /\ \A r \in Id : r # s => Base(L, M, r) = Base(K, M, r)
  <2>1. \A r \in Id : Base(K, M, r) \in Int BY WorldTypes
  <2>2. d.mbhdtx \in Seq(Entry) BY DEF Good, Sound, Shaped, Typed
  <2>3. M[s] \in Nat /\ Len(d.mbhdtx) \in Nat BY <2>2, WorldTypes, LenProperties
  <2>4. Base(L, M, s) \in Int BY <1>2, <2>3 DEF Base
  <2>5. \A r \in Id : r # s => Base(L, M, r) = Base(K, M, r) BY <1>2 DEF Base
  <2>6. ASSUME NEW r \in Id
        PROVE  Base(L, M, r) \in Int /\ Base(L, M, r) >= Base(K, M, r)
    <3>1. CASE r = s BY <1>0, <2>4, <3>1
    <3>2. CASE r # s
      <4>1. Base(L, M, r) = Base(K, M, r) /\ Base(K, M, r) \in Int BY <2>1, <2>5, <3>2
      <4> HIDE DEF Base
      <4> QED BY <4>1
    <3> QED BY <3>1, <3>2
  <2> QED BY <2>1, <2>5, <2>6
<1>6. /\ \A r \in Id : Len(H[r]) \in Nat /\ Len(G[r]) \in Nat /\ Len(H[r]) >= Len(G[r])
  <2>1. \A r \in Id : Len(H[r]) \in Nat /\ Len(G[r]) \in Nat BY <1>1, <1>3, LenProperties
  <2> QED BY <1>0, <1>3, <2>1
<1>7. ASSUME NEW r \in Id PROVE h[r].p # 0 => h[r].p \in Id BY WorldTypes
<1>8. ASSUME NEW r \in Id, r # s
      PROVE  /\ InOrder(h, H, M, r) /\ Listed(h, L, H, M, r) /\ Placed(h, L, H, M, r)
             /\ Confirms(h, L, N, H, M, r) /\ Arrives(h, L, N, H, M, r)
  <2> DEFINE q == h[r].p
  <2>0. L[r] = K[r] /\ H[r] = G[r] /\ Base(L, M, r) = Base(K, M, r) BY <1>2, <1>3, <1>5, <1>8
  <2>1. InOrder(h, H, M, r) BY <2>0 DEF World, InOrder
  <2>2. Listed(h, L, H, M, r)
    <3>1. Listed(h, K, G, M, r) BY DEF World
    <3>2. ASSUME L[r].st # L4SDSCED, q # 0
          PROVE  Base(L, M, r) <= Len(H[q]) /\ Len(H[q]) <= Base(L, M, r) + h[r].w
      <4>1. Base(K, M, r) <= Len(G[q]) /\ Len(G[q]) <= Base(K, M, r) + h[r].w
        BY <2>0, <3>1, <3>2 DEF Listed
      <4>2. CASE q # s
        <5>1. H[q] = G[q] BY <1>3, <1>7, <3>2, <4>2
        <5> QED BY <2>0, <4>1, <5>1
      <4>3. CASE q = s
        <5>1. h[s].p \in {0, r} /\ (h[s].p = r => h[s].w = h[r].w)
          BY <2>0, <3>2, <4>3 DEF World, Agreed
        <5>2. h[s].p \in Id BY OpenPartner
        <5>3. h[s].p = r BY <5>1, <5>2, BoundTypes DEF Id
        <5>4. Len(H[q]) <= Base(K, M, r) + h[r].w BY <1>0, <1>3, <2>0, <3>2, <4>3, <5>1, <5>3
        <5>5. Len(H[q]) >= Len(G[q]) BY <1>6, <4>3
        <5>6. Len(H[q]) \in Nat /\ Len(G[q]) \in Nat /\ Base(K, M, r) \in Int
          BY <1>5, <1>6, <4>3
        <5> QED BY <2>0, <4>1, <5>4, <5>5, <5>6
      <4> QED BY <4>2, <4>3
    <3> QED BY <2>0, <3>1, <3>2 DEF Listed
  <2>3. Placed(h, L, H, M, r)
    <3>1. Placed(h, K, G, M, r) BY DEF World
    <3>2. L[r].st = L4SIXFER => q \in Id BY <2>0, OpenPartner DEF IsUp
    <3>3. ASSUME NEW o \in 1 .. Mod - 1, L[r].mbhdos[o] # NoMessage, L[q].st # L4SDSCED,
                 L[r].st = L4SIXFER
          PROVE  Len(H[r]) + o + 1 <= Base(L, M, q) + h[r].w
      <4>1. Len(G[r]) + o + 1 <= Base(K, M, q) + h[r].w
        BY <1>4, <2>0, <3>1, <3>2, <3>3 DEF Placed
      <4>2. Base(L, M, q) >= Base(K, M, q) /\ Base(L, M, q) \in Int /\ Base(K, M, q) \in Int
        BY <1>5, <3>2, <3>3
      <4>3. h[r].w \in Int /\ Len(G[r]) \in Int /\ o \in Int BY ModType, WorldTypes
      <4> QED BY <2>0, <4>1, <4>2, <4>3
    <3> QED BY <2>0, <3>1, <3>3 DEF Placed
  <2>4. Confirms(h, L, N, H, M, r)
    <3>1. SUFFICES ASSUME L[r].st # L4SDSCED, NEW j \in 1 .. Len(N[h[r].n]),
                          Heard(N[h[r].n], IsUp(L, r), r, j)
                   PROVE  Confirming(h, L, N, H, M, r, j)
      BY DEF Confirms
    <3>2. Confirming(h, K, N, G, M, r, j) BY <1>4, <3>1 DEF World, Confirms
    <3>3. q \in Id BY <1>4, <3>1, HeardPartner
    <3>4. Len(H[q]) - Base(K, M, r) >= Len(G[q]) - Base(K, M, r)
      <4>1. \A x, y \in Nat, z \in Int : x >= y => x - z >= y - z OBVIOUS
      <4>2. Len(H[q]) \in Nat /\ Len(G[q]) \in Nat /\ Len(H[q]) >= Len(G[q]) BY <1>6, <3>3
      <4>3. Base(K, M, r) \in Int BY <1>5
      <4> QED BY <4>1, <4>2, <4>3
    <3>5. Ahead(K, M, r, N[h[r].n][j]) <= Len(H[q]) - Base(K, M, r)
      <4>1. N[h[r].n][j] \in Frame BY WorldTypes
      <4>2. N[h[r].n][j].b \in Nat BY <4>1 DEF Frame, Datagram
      <4>3. N[h[r].n][j].b - Base(K, M, r) \in Int
        <5>1. \A x \in Nat, y \in Int : x - y \in Int OBVIOUS
        <5>2. Base(K, M, r) \in Int BY <1>5
        <5> QED BY <4>2, <5>1, <5>2
      <4>4. Ahead(K, M, r, N[h[r].n][j]) \in Int
        <5> DEFINE z == N[h[r].n][j].b - Base(K, M, r)
        <5>1. z \in Int BY <4>3
        <5>2. Ahead(K, M, r, N[h[r].n][j]) = z % Mod BY DEF Ahead
        <5> HIDE DEF z
        <5>3. z % Mod \in 0 .. Mod - 1 BY <5>1, ModType, ModRange
        <5> QED BY <5>2, <5>3
      <4>5. Len(H[q]) - Base(K, M, r) \in Int /\ Len(G[q]) - Base(K, M, r) \in Int
        <5>1. Len(H[q]) \in Nat /\ Len(G[q]) \in Nat BY <1>6, <3>3
        <5>2. Base(K, M, r) \in Int BY <1>5
        <5> DEFINE x == Len(H[q])
                   y == Len(G[q])
                   z == Base(K, M, r)
        <5>3. x \in Nat /\ y \in Nat /\ z \in Int BY <5>1, <5>2
        <5> HIDE DEF x, y, z
        <5>4. x - z \in Int /\ y - z \in Int BY <5>3
        <5> QED BY <5>4 DEF x, y, z
      <4>6. Ahead(K, M, r, N[h[r].n][j]) <= Len(G[q]) - Base(K, M, r) BY <3>2 DEF Confirming
      <4> QED BY <3>4, <4>4, <4>5, <4>6
    <3> QED BY <1>4, <2>0, <3>2, <3>5 DEF Confirming, Ahead
  <2>5. Arrives(h, L, N, H, M, r)
    <3>1. SUFFICES ASSUME L[r].st # L4SDSCED, NEW j \in 1 .. Len(N[h[r].n]),
                          Heard(N[h[r].n], IsUp(L, r), r, j), N[h[r].n][j].op = "INFTRA"
                   PROVE  Arriving(h, L, N, H, M, r, j)
      BY DEF Arrives
    <3>2. Arriving(h, K, N, G, M, r, j) BY <1>4, <3>1 DEF World, Arrives
    <3>3. q \in Id BY <1>4, <3>1, HeardPartner
    <3>4. K[q].st # L4SDSCED => N[h[r].n][j].m.no <= Base(L, M, q) + h[r].w
      <4>1. M[q] \in Nat /\ h[r].w \in Nat BY <3>3, WorldTypes
      <4>2. N[h[r].n][j].m.no \in 1 .. M[q] BY <3>2 DEF Arriving
      <4>3. K[q].st # L4SDSCED => N[h[r].n][j].m.no <= Base(K, M, q) + h[r].w
        BY <3>2 DEF Arriving
      <4>4. N[h[r].n][j].m.no \in Nat BY <4>1, <4>2
      <4>5. Base(L, M, q) >= Base(K, M, q) /\ Base(L, M, q) \in Int /\ Base(K, M, q) \in Int
        BY <1>5, <3>3
      <4>6. \A no, x, y, w \in Int : no <= x + w /\ y >= x => no <= y + w OBVIOUS
      <4> SUFFICES ASSUME K[q].st # L4SDSCED
                   PROVE  N[h[r].n][j].m.no <= Base(L, M, q) + h[r].w
        OBVIOUS
      <4>7. h[r].w \in Int /\ N[h[r].n][j].m.no \in Int BY <4>1, <4>4
      <4>8. N[h[r].n][j].m.no <= Base(K, M, q) + h[r].w BY <4>3
      <4> QED BY <4>5, <4>6, <4>7, <4>8
    <3> QED BY <1>4, <2>0, <3>2, <3>3, <3>4 DEF Arriving
  <2> QED BY <2>1, <2>2, <2>3, <2>4, <2>5
<1>9. Confirms(h, L, N, H, M, s) /\ Arrives(h, L, N, H, M, s)
  BY <1>0, <1>4 DEF Confirms, Arrives
<1>10. ASSUME NEW r \in Id
       PROVE  Unborn(h, L, H, M, I, r) /\ Agreed(h, L, N, r) /\ Partner(h, L, r)
  <2>1. Unborn(h, L, H, M, I, r)
    <3>1. r = s => h[r].p # 0 BY OpenPartner, BoundTypes DEF Id
    <3>2. r # s => H[r] = G[r] BY <1>3
    <3> QED BY <1>4, <3>1, <3>2 DEF World, Unborn
  <2>2. Agreed(h, L, N, r) BY <1>4 DEF World, Agreed
  <2>3. Partner(h, L, r)
    <3>1. Partner(h, K, r) BY DEF World
    <3>2. r # s => L[r] = K[r] BY <1>2
    <3> QED BY <1>0, <1>2, <1>4, <3>1, <3>2 DEF Partner
  <2> QED BY <2>1, <2>2, <2>3
<1>11. ASSUME NEW k \in Node, NEW j \in 1 .. Len(N[k])
       PROVE  Asked(h, L, H, I, k, N[k][j])
  <2>1. Asked(h, K, G, I, k, N[k][j]) BY DEF World
  <2>2. ASSUME Token(N[k][j])
        PROVE  /\ L[N[k][j].id].st = K[N[k][j].id].st
               /\ H[N[k][j].id] = G[N[k][j].id]
    <3>1. N[k][j].id \in 1 .. I /\ K[N[k][j].id].st \notin Paired BY <2>1, <2>2 DEF Asked
    <3>2. I \in 0 .. MaxId BY DEF World, Types
    <3>3. N[k][j].id \in Id BY <3>1, <3>2, BoundTypes DEF Id
    <3>4. N[k][j].id # s BY <3>1, StatesDiffer DEF IsUp
    <3> QED BY <1>2, <1>3, <3>3, <3>4
  <2> QED BY <2>1, <2>2 DEF Asked
<1>12. Types(h, L, N, H, M, I) BY <1>2, <1>3 DEF World, Types
<1>13. InOrder(h, H, M, s) /\ Listed(h, L, H, M, s) /\ Placed(h, L, H, M, s) BY <1>0
<1> QED BY <1>8, <1>9, <1>10, <1>11, <1>12, <1>13 DEF World, L, H

Drops(c, d, k) ==
  /\ d.st = L4SIXFER /\ d.idpart = c.idpart /\ d.idxpar = c.idxpar /\ d.window = c.window
  /\ d.l4vr = c.l4vr /\ d.mbhdos = c.mbhdos
  /\ d.mbhdtx = SubSeq(c.mbhdtx, k + 1, Len(c.mbhdtx))
  /\ d.l4rxvs = (c.l4rxvs + k) % Mod

(* k more messages are confirmed: they were taken, and what is under way   *)
(* confirms them as well.                                                  *)
LEMMA Confirmed ==
  ASSUME NEW h, NEW K, NEW N, NEW G, NEW M, NEW I, World(h, K, N, G, M, I),
         NEW s \in Id, IsUp(K, s), NEW k \in Nat,
         k <= Len(K[s].mbhdtx), k <= Len(G[h[s].p]) - Base(K, M, s),
         \A j \in 1 .. Len(N[h[s].n]) : Heard(N[h[s].n], IsUp(K, s), s, j)
           => k <= Ahead(K, M, s, N[h[s].n][j]),
         NEW d \in Good, Drops(K[s], d, k)
  PROVE  World(h, [K EXCEPT ![s] = d], N, G, M, I)
<1> DEFINE L == [K EXCEPT ![s] = d]
           q == h[s].p
           b == Base(K, M, s)
           l == N[h[s].n]
<1>0. d.st = L4SIXFER /\ d.mbhdtx = SubSeq(K[s].mbhdtx, k + 1, Len(K[s].mbhdtx)) BY DEF Drops
<1>1. K \in [Id -> Good] /\ G \in [Id -> Seq(Message)] BY DEF World, Types
<1>2. L[s] = d /\ \A r \in Id : r # s => L[r] = K[r] BY <1>1
<1>3. q \in Id BY OpenPartner
<1>4. /\ b \in Int /\ Len(G[q]) \in Nat /\ Len(G[s]) \in Nat /\ M[s] \in Nat
      /\ K[s].mbhdtx \in Seq(Entry) /\ Len(K[s].mbhdtx) \in Nat
      /\ h[s].w \in 0 .. Mod - 1
  BY <1>3, WorldTypes
<1>5. /\ Len(d.mbhdtx) = Len(K[s].mbhdtx) - k
      /\ \A j \in 1 .. Len(d.mbhdtx) : d.mbhdtx[j] = K[s].mbhdtx[k + j]
                                      /\ k + j \in 1 .. Len(K[s].mbhdtx)
  <2> PICK t : t = K[s].mbhdtx OBVIOUS
  <2>1. t \in Seq(Entry) /\ k <= Len(t) /\ d.mbhdtx = SubSeq(t, k + 1, Len(t)) BY <1>0, <1>4
  <2>2. /\ Len(d.mbhdtx) = Len(t) - k
        /\ \A j \in 1 .. Len(d.mbhdtx) : d.mbhdtx[j] = t[k + j] /\ k + j \in 1 .. Len(t)
    BY <2>1, SubSeqTail
  <2> QED BY <2>2
<1>6. Base(L, M, s) = b + k BY <1>2, <1>4, <1>5 DEF Base
<1> HIDE DEF L, q, b, l
<1>7. Listed(h, K, G, M, s) /\ Placed(h, K, G, M, s) BY DEF World
<1>8. K[s].st = L4SIXFER BY DEF IsUp
<1>9. b >= 0 /\ b <= Len(G[q]) /\ Len(G[q]) <= b + h[s].w
  BY <1>3, <1>7, <1>8, StatesDiffer, BoundTypes DEF Listed, Id, b, q
<1>10. Listed(h, L, G, M, s)
  <2>1. b + k >= 0 /\ b + k <= Len(G[q]) /\ Len(G[q]) <= b + k + h[s].w
    <3>1. k <= Len(G[q]) - b BY DEF q, b
    <3>2. h[s].w \in Nat BY <1>4, ModType
    <3>3. \A x, y \in Int, z, w \in Nat :
            x >= 0 /\ x <= y /\ y <= x + w /\ z <= y - x
              => x + z >= 0 /\ x + z <= y /\ y <= x + z + w
      OBVIOUS
    <3>4. b \in Int /\ Len(G[q]) \in Int BY <1>4
    <3> QED BY <1>9, <3>1, <3>2, <3>3, <3>4
  <2>2. ASSUME NEW j \in 1 .. Len(d.mbhdtx)
        PROVE  d.mbhdtx[j].m = [from |-> s, no |-> b + k + j]
    <3>1. K[s].mbhdtx[k + j].m = [from |-> s, no |-> b + (k + j)]
      BY <1>5, <1>7, <1>8, StatesDiffer DEF Listed, b
    <3>2. b + (k + j) = b + k + j BY <1>4
    <3> QED BY <1>5, <3>1, <3>2
  <2> QED BY <1>0, <1>2, <1>6, <2>1, <2>2, StatesDiffer DEF Listed, q
<1>11. Placed(h, L, G, M, s)
  <2>1. (K[s].l4rxvs + k) % Mod = (b + k) % Mod
    <3>1. K[s].l4rxvs = b % Mod BY <1>7, <1>8 DEF Placed, b
    <3>2. ((b % Mod) + k) % Mod = (b + k) % Mod BY <1>4, ModInt
    <3> QED BY <3>1, <3>2
  <2>2. L[s].l4rxvs = Base(L, M, s) % Mod BY <1>2, <1>6, <2>1 DEF Drops
  <2>3. L[s].l4vr = K[s].l4vr /\ L[s].mbhdos = K[s].mbhdos BY <1>2 DEF Drops
  <2>4. q # s
    <3>1. q = s => h[s].n = Peer(h[s].n)
      BY <1>3, <1>8, StatesDiffer, BoundTypes DEF World, Agreed, Id, q
    <3> QED BY <3>1, PeerType, WorldTypes
  <2>5. L[q] = K[q] /\ Base(L, M, q) = Base(K, M, q) BY <1>2, <1>3, <2>4 DEF Base
  <2> QED BY <1>7, <1>8, <2>2, <2>3, <2>5 DEF Placed, q
<1>12. ASSUME NEW j \in 1 .. Len(l), Heard(l, IsUp(K, s), s, j)
       PROVE  Ahead(L, M, s, l[j]) = Ahead(K, M, s, l[j]) - k /\ Ahead(K, M, s, l[j]) \in Int
  <2>1. l[j] \in Frame BY WorldTypes DEF l
  <2>2. l[j].b \in Nat BY <2>1 DEF Frame, Datagram
  <2>3. k <= (l[j].b - b) % Mod BY <1>12 DEF Ahead, l, b
  <2>4. (l[j].b - (b + k)) % Mod = ((l[j].b - b) % Mod) - k
    <3>1. b \in Int /\ l[j].b \in Int BY <1>4, <2>2
    <3> QED BY <3>1, <2>3, Nearer
  <2>5. l[j].b - b \in Int BY <1>4, <2>2
  <2>6. (l[j].b - b) % Mod \in Int BY <2>5, ModInt
  <2> QED BY <1>6, <2>4, <2>6 DEF Ahead, b
<1>13. ASSUME NEW j \in 1 .. Len(l), Heard(l, IsUp(K, s), s, j)
       PROVE  Confirming(h, L, N, G, M, s, j)
  <2>1. Confirming(h, K, N, G, M, s, j) BY <1>8, <1>13, StatesDiffer DEF World, Confirms, l
  <2>2. Ahead(L, M, s, l[j]) <= Len(G[q]) - Base(L, M, s)
    <3>1. Ahead(K, M, s, l[j]) <= Len(G[q]) - b BY <2>1 DEF Confirming, l, q, b
    <3>2. Len(G[q]) - b \in Int /\ Len(G[q]) - (b + k) = (Len(G[q]) - b) - k BY <1>4
    <3>3. /\ Ahead(L, M, s, l[j]) = Ahead(K, M, s, l[j]) - k
          /\ Ahead(K, M, s, l[j]) \in Int
      BY <1>12, <1>13
    <3> QED BY <1>6, <3>1, <3>2, <3>3
  <2>3. ASSUME NEW i \in 1 .. j - 1, Heard(l, IsUp(L, s), s, i)
        PROVE  Ahead(L, M, s, l[i]) <= Ahead(L, M, s, l[j])
    <3>1. Heard(l, IsUp(K, s), s, i) BY <2>3 DEF Heard
    <3>2. Ahead(K, M, s, l[i]) <= Ahead(K, M, s, l[j]) BY <2>1, <3>1 DEF Confirming, l
    <3>3. i \in 1 .. Len(l)
      <4>1. Len(l) \in Nat BY WorldTypes DEF l
      <4> QED BY <4>1
    <3>4. /\ Ahead(L, M, s, l[j]) = Ahead(K, M, s, l[j]) - k /\ Ahead(K, M, s, l[j]) \in Int
          /\ Ahead(L, M, s, l[i]) = Ahead(K, M, s, l[i]) - k /\ Ahead(K, M, s, l[i]) \in Int
      BY <1>12, <1>13, <3>1, <3>3
    <3> QED BY <3>2, <3>4
  <2> QED BY <2>2, <2>3 DEF Confirming, l, q
<1>14. ASSUME NEW j \in 1 .. Len(l), Heard(l, IsUp(K, s), s, j), l[j].op = "INFTRA"
       PROVE  Arriving(h, L, N, G, M, s, j)
  <2>1. Arriving(h, K, N, G, M, s, j) BY <1>8, <1>14, StatesDiffer DEF World, Arrives, l
  <2>2. q # s
    <3>1. q = s => h[s].n = Peer(h[s].n)
      BY <1>3, <1>8, StatesDiffer, BoundTypes DEF World, Agreed, Id, q
    <3> QED BY <3>1, PeerType, WorldTypes
  <2>3. L[q] = K[q] /\ Base(L, M, q) = Base(K, M, q) BY <1>2, <1>3, <2>2 DEF Base
  <2>4. L[s].mbhdos = K[s].mbhdos /\ IsUp(L, s) = IsUp(K, s) BY <1>2, <1>8 DEF IsUp, Drops
  <2> QED BY <2>1, <2>3, <2>4 DEF Arriving, q
<1>15. G = [G EXCEPT ![s] = G[s]] /\ G[s] \in Seq(Message) BY <1>1
<1>16. Base(L, M, s) >= Base(K, M, s) BY <1>4, <1>6 DEF b
<1>17. K[q].st # L4SDSCED /\ h[q].p = s => Len(G[s]) <= Base(K, M, q) + h[s].w
  <2>1. q # 0 /\ s # 0 BY <1>3, BoundTypes DEF Id
  <2>2. h[q].p = s => h[q].w = h[s].w BY <1>8, <2>1, StatesDiffer DEF World, Agreed, q
  <2> QED BY <1>3, <2>1, <2>2 DEF World, Listed
<1>18. InOrder(h, G, M, s) BY DEF World
<1>19. d.st = L4SIXFER /\ d.idpart = K[s].idpart /\ d.idxpar = K[s].idxpar /\ d.window = K[s].window
  BY DEF Drops
<1> HIDE DEF L
<1>20. Len(G[s]) >= Len(G[s]) BY <1>4
<1>21. \A j \in 1 .. Len(N[h[s].n]) : Heard(N[h[s].n], IsUp(K, s), s, j) =>
        /\ Confirming(h, L, N, G, M, s, j)
        /\ N[h[s].n][j].op = "INFTRA" => Arriving(h, L, N, G, M, s, j)
  BY <1>13, <1>14 DEF l
<1>22. L = [K EXCEPT ![s] = d] BY DEF L
<1> HIDE DEF q
<1>23. Moves(h, K, N, G, M, s, d, G[s])
  BY <1>10, <1>11, <1>15, <1>16, <1>17, <1>18, <1>19, <1>20, <1>21, <1>22 DEF Moves, q
<1>24. World(h, [K EXCEPT ![s] = d], N, [G EXCEPT ![s] = G[s]], M, I) BY <1>15, <1>23, Moved
<1> QED BY <1>15, <1>24

(* Message no of the partner of s has been sent, and nothing under way is  *)
(* more than a window behind it.                                           *)
Timely(h, K, N, G, M, s, no) ==
  LET l == N[h[s].n]
      q == h[s].p
      w == h[s].w
  IN  /\ no \in Nat /\ no <= M[q]
      /\ K[q].st # L4SDSCED => no <= Base(K, M, q) + w
      /\ \A j \in 1 .. Len(l) : Heard(l, IsUp(K, s), s, j) /\ l[j].op = "INFTRA"
           => no - w <= l[j].m.no - 1

(* What the code keeps is.                                                 *)
LEMMA KeptTimely ==
  ASSUME NEW h, NEW K, NEW N, NEW G, NEW M, NEW I, World(h, K, N, G, M, I),
         NEW s \in Id, IsUp(K, s), NEW o \in 1 .. Mod - 1, K[s].mbhdos[o] # NoMessage
  PROVE  /\ Timely(h, K, N, G, M, s, Len(G[s]) + o + 1)
         /\ K[s].mbhdos[o] = [from |-> h[s].p, no |-> Len(G[s]) + o + 1]
         /\ o < h[s].w
<1>1. K[s].st = L4SIXFER /\ K[s].st # L4SDSCED BY StatesDiffer DEF IsUp
<1>2. Placed(h, K, G, M, s) /\ Arrives(h, K, N, G, M, s) BY DEF World
<1>3. Len(G[s]) + o + 1 \in Nat
  <2>1. Len(G[s]) \in Nat /\ o \in Nat BY WorldTypes
  <2> QED BY <2>1
<1>5. /\ K[s].mbhdos[o] = [from |-> h[s].p, no |-> Len(G[s]) + o + 1] /\ o < h[s].w
      /\ Len(G[s]) + o + 1 <= M[h[s].p]
      /\ K[h[s].p].st # L4SDSCED => Len(G[s]) + o + 1 <= Base(K, M, h[s].p) + h[s].w
  BY <1>1, <1>2 DEF Placed
<1> DEFINE no == Len(G[s]) + o + 1
<1>6. \A j \in 1 .. Len(N[h[s].n]) :
        Heard(N[h[s].n], IsUp(K, s), s, j) /\ N[h[s].n][j].op = "INFTRA"
          => no - h[s].w <= N[h[s].n][j].m.no - 1
  <2> SUFFICES ASSUME NEW j \in 1 .. Len(N[h[s].n]), Heard(N[h[s].n], IsUp(K, s), s, j),
                      N[h[s].n][j].op = "INFTRA"
               PROVE  no - h[s].w <= N[h[s].n][j].m.no - 1
    OBVIOUS
  <2>1. Arriving(h, K, N, G, M, s, j) BY <1>1, <1>2 DEF Arrives
  <2>2. Len(G[s]) + o + 1 - h[s].w <= N[h[s].n][j].m.no - 1 BY <2>1 DEF Arriving
  <2>3. no \in Int /\ h[s].w \in Int BY <1>3, WorldTypes, ModType
  <2> QED BY <2>2, <2>3
<1>7. /\ no \in Nat /\ no <= M[h[s].p]
      /\ K[h[s].p].st # L4SDSCED => no <= Base(K, M, h[s].p) + h[s].w
  BY <1>3, <1>5
<1> HIDE DEF no
<1>8. Timely(h, K, N, G, M, s, no) BY <1>6, <1>7 DEF Timely
<1> QED BY <1>5, <1>8 DEF no

Advances(c, d, k) ==
  /\ d.st = L4SIXFER /\ d.idpart = c.idpart /\ d.idxpar = c.idxpar /\ d.window = c.window
  /\ d.l4rxvs = c.l4rxvs /\ d.mbhdtx = c.mbhdtx
  /\ d.l4vr = (c.l4vr + k) % Mod
  /\ d.mbhdos = [o \in 1 .. Mod - 1 |-> IF o + k < Mod THEN c.mbhdos[o + k] ELSE NoMessage]

(* s takes the next k messages.                                            *)
LEMMA Took ==
  ASSUME NEW h, NEW K, NEW N, NEW G, NEW M, NEW I, World(h, K, N, G, M, I),
         NEW s \in Id, IsUp(K, s), NEW k \in Nat, NEW new \in Seq(Message), Len(new) = k,
         \A j \in 1 .. k : new[j] = [from |-> h[s].p, no |-> Len(G[s]) + j],
         Timely(h, K, N, G, M, s, Len(G[s]) + k),
         NEW d \in Good, Advances(K[s], d, k)
  PROVE  World(h, [K EXCEPT ![s] = d], N, [G EXCEPT ![s] = @ \o new], M, I)
<1> DEFINE g == G[s] \o new
           L == [K EXCEPT ![s] = d]
           H == [G EXCEPT ![s] = g]
           q == h[s].p
           R == Len(G[s])
           w == h[s].w
           l == N[h[s].n]
<1>0. d.st = L4SIXFER /\ d.mbhdtx = K[s].mbhdtx /\ d.l4rxvs = K[s].l4rxvs BY DEF Advances
<1>1. K \in [Id -> Good] /\ G \in [Id -> Seq(Message)] /\ G[s] \in Seq(Message)
  BY DEF World, Types
<1>2. L[s] = d /\ \A r \in Id : r # s => L[r] = K[r] BY <1>1
<1>3. /\ g \in Seq(Message) /\ Len(g) = R + k /\ R \in Nat
      /\ \A j \in 1 .. R : g[j] = G[s][j]
      /\ \A j \in R + 1 .. R + k : g[j] = new[j - R]
  <2>1. R \in Nat BY <1>1, LenProperties
  <2>2. /\ g \in Seq(Message) /\ Len(g) = R + Len(new)
        /\ \A j \in 1 .. R + Len(new) : g[j] = IF j <= R THEN G[s][j] ELSE new[j - R]
    BY <1>1, ConcatProperties
  <2> HIDE DEF g, R
  <2> QED BY <2>1, <2>2
<1>4. H \in [Id -> Seq(Message)] /\ H[s] = g /\ \A r \in Id : r # s => H[r] = G[r]
  BY <1>1, <1>3
<1>5. q \in Id BY OpenPartner
<1>6. K[s].st = L4SIXFER /\ K[s].st # L4SDSCED BY StatesDiffer DEF IsUp
<1>7. q # s
  <2>1. q = s => h[s].n = Peer(h[s].n)
    BY <1>5, <1>6, BoundTypes DEF World, Agreed, Id
  <2> QED BY <2>1, PeerType, WorldTypes
<1>8. \A r \in Id : Base(L, M, r) = Base(K, M, r) BY <1>0, <1>2 DEF Base
<1>9. Base(K, M, s) \in Int /\ M[q] \in Nat /\ w \in Nat
  <2>1. w \in 0 .. Mod - 1 BY WorldTypes
  <2> QED BY <2>1, <1>5, WorldTypes, ModType
<1>10. /\ R + k <= M[q] /\ (K[q].st # L4SDSCED => R + k <= Base(K, M, q) + w)
       /\ \A j \in 1 .. Len(l) : Heard(l, IsUp(K, s), s, j) /\ l[j].op = "INFTRA"
            => R + k - w <= l[j].m.no - 1
  <2> DEFINE no == R + k
  <2>1. Timely(h, K, N, G, M, s, no) OBVIOUS
  <2> HIDE DEF no
  <2>2. /\ no <= M[q] /\ (K[q].st # L4SDSCED => no <= Base(K, M, q) + w)
        /\ \A j \in 1 .. Len(l) : Heard(l, IsUp(K, s), s, j) /\ l[j].op = "INFTRA"
             => no - w <= l[j].m.no - 1
    BY <2>1 DEF Timely
  <2>3. ASSUME NEW j \in 1 .. Len(l), Heard(l, IsUp(K, s), s, j), l[j].op = "INFTRA"
        PROVE  R + k - w <= l[j].m.no - 1
    <3>1. no - w <= l[j].m.no - 1 BY <2>2, <2>3
    <3>2. no = R + k /\ R \in Nat /\ w \in Nat BY <1>3, <1>9 DEF no
    <3> HIDE DEF R, w, l
    <3> QED BY <3>1, <3>2
  <2> HIDE DEF R, l, w, q
  <2>4. R + k <= M[q] /\ (K[q].st # L4SDSCED => R + k <= Base(K, M, q) + w) BY <2>2 DEF no
  <2> QED BY <2>3, <2>4
<1>11. /\ InOrder(h, G, M, s) /\ Listed(h, K, G, M, s) /\ Placed(h, K, G, M, s)
       /\ Confirms(h, K, N, G, M, s) /\ Arrives(h, K, N, G, M, s)
  BY DEF World
<1> HIDE DEF g, L, H, q, R, w, l
<1>12. InOrder(h, H, M, s)
  <2>1. ASSUME NEW j \in 1 .. Len(g) PROVE g[j] = [from |-> q, no |-> j]
    <3>1. CASE j <= R
      <4>1. j \in 1 .. R BY <1>3, <3>1
      <4>2. G[s][j] = [from |-> q, no |-> j] BY <1>11, <4>1 DEF InOrder, q, R
      <4> QED BY <1>3, <4>1, <4>2
    <3>2. CASE j > R
      <4>1. j - R \in 1 .. k /\ j \in R + 1 .. R + k /\ R + (j - R) = j BY <1>3, <3>2
      <4>2. new[j - R] = [from |-> q, no |-> R + (j - R)] BY <4>1 DEF q, R
      <4> QED BY <1>3, <4>1, <4>2
    <3> QED BY <1>3, <3>1, <3>2
  <2> QED BY <1>3, <1>4, <1>10, <2>1 DEF InOrder, q
<1>13. Listed(h, L, H, M, s)
  <2>1. L[s].mbhdtx = K[s].mbhdtx /\ H[q] = G[q] /\ L[s].st = L4SIXFER
    BY <1>0, <1>2, <1>4, <1>5, <1>7
  <2> QED BY <1>6, <1>8, <1>11, <2>1, StatesDiffer DEF Listed, q
<1>14. ASSUME NEW o \in 1 .. Mod - 1, d.mbhdos[o] # NoMessage
       PROVE  o + k \in 1 .. Mod - 1 /\ d.mbhdos[o] = K[s].mbhdos[o + k]
  <2>1. d.mbhdos[o] = IF o + k < Mod THEN K[s].mbhdos[o + k] ELSE NoMessage BY DEF Advances
  <2>2. o + k < Mod BY <1>14, <2>1
  <2> QED BY <2>1, <2>2, ModType
<1>15. Placed(h, L, H, M, s)
  <2>1. d.l4vr = (R + k) % Mod
    <3>1. K[s].l4vr = R % Mod BY <1>6, <1>11 DEF Placed, R
    <3>2. ((R % Mod) + k) % Mod = (R + k) % Mod BY <1>3, ModInt
    <3> QED BY <3>1, <3>2 DEF Advances
  <2>2. d.l4rxvs = Base(L, M, s) % Mod
    <3>1. K[s].l4rxvs = Base(K, M, s) % Mod BY <1>6, <1>11 DEF Placed
    <3> QED BY <1>0, <1>8, <3>1
  <2>3. ASSUME NEW o \in 1 .. Mod - 1, d.mbhdos[o] # NoMessage
        PROVE  /\ d.mbhdos[o] = [from |-> q, no |-> R + k + o + 1]
               /\ o < w /\ R + k + o + 1 <= M[q]
               /\ K[q].st # L4SDSCED => R + k + o + 1 <= Base(K, M, q) + w
    <3>1. o + k \in 1 .. Mod - 1 /\ d.mbhdos[o] = K[s].mbhdos[o + k] BY <1>14, <2>3
    <3>2. /\ K[s].mbhdos[o + k] = [from |-> q, no |-> R + (o + k) + 1]
          /\ o + k < w /\ R + (o + k) + 1 <= M[q]
          /\ K[q].st # L4SDSCED => R + (o + k) + 1 <= Base(K, M, q) + w
      BY <1>6, <1>11, <2>3, <3>1 DEF Placed, q, R, w
    <3>3. R + (o + k) + 1 = R + k + o + 1 BY <1>3
    <3>4. o < w BY <1>9, <3>2
    <3> QED BY <3>1, <3>2, <3>3, <3>4
  <2>4. L[s].st = L4SIXFER BY <1>0, <1>2
  <2>5. L[q] = K[q] /\ Base(L, M, q) = Base(K, M, q) BY <1>2, <1>5, <1>7, <1>8
  <2> QED BY <1>2, <1>3, <1>4, <2>1, <2>2, <2>3, <2>4, <2>5 DEF Placed, q, w
<1>16. IsUp(L, s) = IsUp(K, s) BY <1>0, <1>2, <1>6 DEF IsUp
<1>17. ASSUME NEW j \in 1 .. Len(l), Heard(l, IsUp(K, s), s, j)
       PROVE  Confirming(h, L, N, H, M, s, j)
  <2>1. Confirming(h, K, N, G, M, s, j) BY <1>6, <1>11, <1>17 DEF Confirms, l
  <2>2. H[q] = G[q] /\ Base(L, M, s) = Base(K, M, s) BY <1>4, <1>5, <1>7, <1>8
  <2> QED BY <1>16, <2>1, <2>2 DEF Confirming, Ahead, q
<1>18. ASSUME NEW j \in 1 .. Len(l), Heard(l, IsUp(K, s), s, j), l[j].op = "INFTRA"
       PROVE  Arriving(h, L, N, H, M, s, j)
  <2> DEFINE no == l[j].m.no
  <2>1. Arriving(h, K, N, G, M, s, j) BY <1>6, <1>11, <1>18 DEF Arrives, l
  <2>2. L[q] = K[q] /\ Base(L, M, q) = Base(K, M, q) BY <1>2, <1>5, <1>7, <1>8
  <2>3. R + k - w <= no - 1 /\ no - 1 < R + k + w
    <3>1. R + k - w <= no - 1 BY <1>10, <1>18
    <3>2. no \in 1 .. M[q] /\ no - 1 < R + w BY <2>1 DEF Arriving, l, q, R, w
    <3>3. no \in Nat BY <3>2, <1>9
    <3> HIDE DEF no
    <3>4. no - 1 < R + k + w BY <1>3, <1>9, <3>2, <3>3
    <3> QED BY <3>1, <3>4 DEF no
  <2>4. ASSUME NEW o \in 1 .. Mod - 1, L[s].mbhdos[o] # NoMessage
        PROVE  R + k + o + 1 - w <= no - 1
    <3>1. o + k \in 1 .. Mod - 1 /\ K[s].mbhdos[o + k] # NoMessage BY <1>2, <1>14, <2>4
    <3>2. R + (o + k) + 1 - w <= no - 1 BY <2>1, <3>1 DEF Arriving, l, R, w
    <3>3. R + (o + k) + 1 - w = R + k + o + 1 - w BY <1>3, <1>9
    <3> QED BY <3>2, <3>3
  <2> HIDE DEF no
  <2>5. Len(H[s]) = R + k BY <1>3, <1>4
  <2>6. /\ l[j].m.from = q /\ no \in 1 .. M[q] /\ Numbered(l[j])
        /\ \A i \in 1 .. j - 1 :
             Heard(l, IsUp(L, s), s, i) /\ l[i].op = "INFTRA" => l[i].m.no - w <= no - 1
        /\ K[q].st # L4SDSCED => no <= Base(K, M, q) + w
    BY <1>16, <2>1 DEF Arriving, l, q, w, no
  <2> DEFINE T == R + k
  <2>7. Len(H[s]) = T /\ T - w <= no - 1 /\ no - 1 < T + w BY <1>3, <1>9, <2>3, <2>5
  <2>8. \A o \in 1 .. Mod - 1 : L[s].mbhdos[o] # NoMessage => T + o + 1 - w <= no - 1 BY <2>4
  <2> HIDE DEF T
  <2> QED BY <2>2, <2>6, <2>7, <2>8 DEF Arriving, l, q, w, no
<1>19. Moves(h, K, N, G, M, s, d, g)
  <2>1. d.idpart = K[s].idpart /\ d.idxpar = K[s].idxpar /\ d.window = K[s].window BY DEF Advances
  <2>2. Len(g) >= Len(G[s]) BY <1>3 DEF R
  <2>3. Base(L, M, s) >= Base(K, M, s) BY <1>8, <1>9
  <2>4. K[q].st # L4SDSCED => Len(g) <= Base(K, M, q) + w BY <1>3, <1>10
  <2> QED BY <1>0, <1>12, <1>13, <1>15, <1>17, <1>18, <2>1, <2>2, <2>3, <2>4 DEF Moves, L, H, q, l, w
<1>20. World(h, L, N, H, M, I) BY <1>3, <1>19, Moved DEF L, H
<1> QED BY <1>20 DEF L, H, g

Keeps(c, d, o, m) ==
  /\ d.st = L4SIXFER /\ d.idpart = c.idpart /\ d.idxpar = c.idxpar /\ d.window = c.window
  /\ d.l4rxvs = c.l4rxvs /\ d.mbhdtx = c.mbhdtx /\ d.l4vr = c.l4vr
  /\ d.mbhdos = [c.mbhdos EXCEPT ![o] = m]

(* s keeps a message that came too early.                                  *)
LEMMA Kept ==
  ASSUME NEW h, NEW K, NEW N, NEW G, NEW M, NEW I, World(h, K, N, G, M, I),
         NEW s \in Id, IsUp(K, s), NEW z \in 1 .. Mod - 1, z < h[s].w,
         NEW no, no = Len(G[s]) + z + 1, Timely(h, K, N, G, M, s, no),
         NEW d \in Good, Keeps(K[s], d, z, [from |-> h[s].p, no |-> no])
  PROVE  World(h, [K EXCEPT ![s] = d], N, G, M, I)
<1> DEFINE L == [K EXCEPT ![s] = d]
           q == h[s].p
           w == h[s].w
           l == N[h[s].n]
<1>0. /\ d.st = L4SIXFER /\ d.mbhdtx = K[s].mbhdtx /\ d.l4rxvs = K[s].l4rxvs
      /\ d.l4vr = K[s].l4vr /\ d.mbhdos = [K[s].mbhdos EXCEPT ![z] = [from |-> q, no |-> no]]
  BY DEF Keeps
<1>1. K \in [Id -> Good] /\ G \in [Id -> Seq(Message)] /\ G[s] \in Seq(Message)
  BY DEF World, Types
<1>2. L[s] = d /\ \A r \in Id : r # s => L[r] = K[r] BY <1>1
<1>3. K[s].mbhdos \in [1 .. Mod - 1 -> Message] BY <1>1 DEF Good, Sound, Shaped, Typed
<1>4. \A o \in 1 .. Mod - 1 : d.mbhdos[o] = IF o = z THEN [from |-> q, no |-> no] ELSE K[s].mbhdos[o]
  BY <1>0, <1>3
<1>5. q \in Id BY OpenPartner
<1>6. K[s].st = L4SIXFER /\ K[s].st # L4SDSCED BY StatesDiffer DEF IsUp
<1>7. q # s
  <2>1. q = s => h[s].n = Peer(h[s].n)
    BY <1>5, <1>6, BoundTypes DEF World, Agreed, Id
  <2> QED BY <2>1, PeerType, WorldTypes
<1>8. \A r \in Id : Base(L, M, r) = Base(K, M, r) BY <1>0, <1>2 DEF Base
<1>9. Base(K, M, s) \in Int /\ Len(G[s]) \in Nat BY WorldTypes
<1>10. /\ no \in Nat /\ no <= M[q] /\ (K[q].st # L4SDSCED => no <= Base(K, M, q) + w)
       /\ \A j \in 1 .. Len(l) : Heard(l, IsUp(K, s), s, j) /\ l[j].op = "INFTRA"
            => no - w <= l[j].m.no - 1
  BY DEF Timely
<1>11. /\ InOrder(h, G, M, s) /\ Listed(h, K, G, M, s) /\ Placed(h, K, G, M, s)
       /\ Confirms(h, K, N, G, M, s) /\ Arrives(h, K, N, G, M, s)
  BY DEF World
<1>12. L[q] = K[q] /\ Base(L, M, q) = Base(K, M, q) BY <1>2, <1>5, <1>7, <1>8
<1> HIDE DEF L, q, w, l
<1>13. Listed(h, L, G, M, s)
  <2>1. L[s].mbhdtx = K[s].mbhdtx /\ L[s].st = L4SIXFER BY <1>0, <1>2
  <2> QED BY <1>6, <1>8, <1>11, <2>1 DEF Listed
<1>14. Placed(h, L, G, M, s)
  <2>1. L[s].l4rxvs = Base(L, M, s) % Mod /\ L[s].l4vr = Len(G[s]) % Mod
    <3>1. K[s].l4rxvs = Base(K, M, s) % Mod /\ K[s].l4vr = Len(G[s]) % Mod
      BY <1>6, <1>11 DEF Placed
    <3> QED BY <1>0, <1>2, <1>8, <3>1
  <2>2. ASSUME NEW o \in 1 .. Mod - 1, L[s].mbhdos[o] # NoMessage
        PROVE  /\ L[s].mbhdos[o] = [from |-> q, no |-> Len(G[s]) + o + 1]
               /\ o < w /\ Len(G[s]) + o + 1 <= M[q]
               /\ K[q].st # L4SDSCED => Len(G[s]) + o + 1 <= Base(K, M, q) + w
    <3>1. CASE o = z BY <1>2, <1>4, <1>10, <3>1 DEF w
    <3>2. CASE o # z
      <4>1. L[s].mbhdos[o] = K[s].mbhdos[o] BY <1>2, <1>4, <3>2
      <4> QED BY <1>6, <1>11, <2>2, <4>1 DEF Placed, q, w
    <3> QED BY <3>1, <3>2
  <2> QED BY <1>12, <2>1, <2>2 DEF Placed, q, w
<1>15. IsUp(L, s) = IsUp(K, s) BY <1>0, <1>2, <1>6 DEF IsUp
<1>16. ASSUME NEW j \in 1 .. Len(l), Heard(l, IsUp(K, s), s, j)
       PROVE  Confirming(h, L, N, G, M, s, j)
  <2>1. Confirming(h, K, N, G, M, s, j) BY <1>6, <1>11, <1>16 DEF Confirms, l
  <2> QED BY <1>8, <1>15, <2>1 DEF Confirming, Ahead
<1>17. ASSUME NEW j \in 1 .. Len(l), Heard(l, IsUp(K, s), s, j), l[j].op = "INFTRA"
       PROVE  Arriving(h, L, N, G, M, s, j)
  <2>1. Arriving(h, K, N, G, M, s, j) BY <1>6, <1>11, <1>17 DEF Arrives, l
  <2>2. ASSUME NEW o \in 1 .. Mod - 1, L[s].mbhdos[o] # NoMessage
        PROVE  Len(G[s]) + o + 1 - w <= l[j].m.no - 1
    <3>1. CASE o = z
      <4>1. Len(G[s]) + o + 1 = no /\ no - w <= l[j].m.no - 1 BY <1>10, <1>17, <3>1
      <4>2. Len(G[s]) \in Nat /\ w \in Int /\ no \in Nat /\ o \in Nat
        BY <1>9, <1>10, WorldTypes, ModType DEF w
      <4> QED BY <4>1, <4>2
    <3>2. CASE o # z
      <4>1. K[s].mbhdos[o] # NoMessage BY <1>2, <1>4, <2>2, <3>2
      <4> QED BY <2>1, <4>1 DEF Arriving, l, w
    <3> QED BY <3>1, <3>2
  <2> QED BY <1>12, <1>15, <2>1, <2>2 DEF Arriving, l, w, q
<1>18. G = [G EXCEPT ![s] = G[s]] BY <1>1
<1>19. Moves(h, K, N, G, M, s, d, G[s])
  <2>1. d.idpart = K[s].idpart /\ d.idxpar = K[s].idxpar /\ d.window = K[s].window BY DEF Keeps
  <2>2. Len(G[s]) >= Len(G[s]) BY <1>9
  <2>3. Base(L, M, s) >= Base(K, M, s) BY <1>8, <1>9
  <2>4. K[q].st # L4SDSCED /\ h[q].p = s => Len(G[s]) <= Base(K, M, q) + w
    <3>1. q # 0 /\ s # 0 BY <1>5, BoundTypes DEF Id
    <3>2. h[q].p = s => h[q].w = h[s].w BY <1>6, <3>1 DEF World, Agreed, q
    <3> QED BY <1>5, <3>1, <3>2 DEF World, Listed, w
  <2>5. InOrder(h, G, M, s) BY <1>11
  <2> QED BY <1>0, <1>13, <1>14, <1>16, <1>17, <1>18, <2>1, <2>2, <2>3, <2>4, <2>5 DEF Moves, L, q, l, w
<1>20. World(h, [K EXCEPT ![s] = d], N, [G EXCEPT ![s] = G[s]], M, I) BY <1>1, <1>19, Moved
<1> QED BY <1>18, <1>20

-----------------------------------------------------------------------------
(* Level 7 offers a message; circuits open.                                *)

Grows(c, d, e) ==
  /\ d.st = c.st /\ d.idpart = c.idpart /\ d.idxpar = c.idxpar /\ d.window = c.window
  /\ d.l4rxvs = c.l4rxvs /\ d.l4vr = c.l4vr /\ d.mbhdos = c.mbhdos
  /\ d.mbhdtx = Append(c.mbhdtx, e)

LEMMA Offered ==
  ASSUME NEW h, NEW K, NEW N, NEW G, NEW M, NEW I, World(h, K, N, G, M, I),
         NEW s \in Id, K[s].st # L4SDSCED, NEW e, e.m = [from |-> s, no |-> M[s] + 1],
         NEW d \in Good, Grows(K[s], d, e)
  PROVE  World(h, [K EXCEPT ![s] = d], N, G, [M EXCEPT ![s] = @ + 1], I)
<1> DEFINE L == [K EXCEPT ![s] = d]
           O == [M EXCEPT ![s] = @ + 1]
<1>0. /\ d.st = K[s].st /\ d.idpart = K[s].idpart /\ d.idxpar = K[s].idxpar
      /\ d.window = K[s].window /\ d.mbhdtx = Append(K[s].mbhdtx, e)
      /\ d.l4rxvs = K[s].l4rxvs /\ d.l4vr = K[s].l4vr /\ d.mbhdos = K[s].mbhdos
  BY DEF Grows
<1>1. K \in [Id -> Good] /\ M \in [Id -> Nat] BY DEF World, Types
<1>2. L \in [Id -> Good] /\ L[s] = d /\ \A r \in Id : r # s => L[r] = K[r] BY <1>1
<1>3. O \in [Id -> Nat] /\ O[s] = M[s] + 1 /\ \A r \in Id : r # s => O[r] = M[r] BY <1>1
<1>4. K[s].mbhdtx \in Seq(Entry) /\ Len(K[s].mbhdtx) \in Nat /\ M[s] \in Nat BY WorldTypes
<1>5. e \in Entry
  <2>1. d.mbhdtx \in Seq(Entry) BY DEF Good, Sound, Shaped, Typed
  <2>2. d.mbhdtx[Len(K[s].mbhdtx) + 1] = e /\ Len(d.mbhdtx) = Len(K[s].mbhdtx) + 1
    BY <1>0, <1>4
  <2> QED BY <1>4, <2>1, <2>2, ElementOfSeq
<1>6. /\ Len(d.mbhdtx) = Len(K[s].mbhdtx) + 1
      /\ d.mbhdtx[Len(K[s].mbhdtx) + 1] = e
      /\ \A j \in 1 .. Len(K[s].mbhdtx) : d.mbhdtx[j] = K[s].mbhdtx[j]
  BY <1>0, <1>4, <1>5, AppendProperties
<1>7. /\ \A r \in Id : Base(L, O, r) = Base(K, M, r)
      /\ \A r \in Id : L[r].st = K[r].st /\ IsUp(L, r) = IsUp(K, r) /\ M[r] \in Nat
                        /\ O[r] >= M[r] /\ O[r] \in Nat
      /\ \A r \in Id : /\ L[r].l4rxvs = K[r].l4rxvs /\ L[r].l4vr = K[r].l4vr
                        /\ L[r].mbhdos = K[r].mbhdos /\ L[r].window = K[r].window
                        /\ L[r].idpart = K[r].idpart /\ L[r].idxpar = K[r].idxpar
  <2>1. Base(L, O, s) = Base(K, M, s)
    <3>1. Base(L, O, s) = O[s] - Len(d.mbhdtx) BY <1>2 DEF Base
    <3> HIDE DEF L, O
    <3>2. O[s] - Len(d.mbhdtx) = M[s] - Len(K[s].mbhdtx)
      <4>1. \A x, y \in Nat : (x + 1) - (y + 1) = x - y OBVIOUS
      <4>2. O[s] = M[s] + 1 /\ Len(d.mbhdtx) = Len(K[s].mbhdtx) + 1 BY <1>3, <1>6
      <4> QED BY <1>4, <4>1, <4>2
    <3> QED BY <3>1, <3>2 DEF Base
  <2>2. \A r \in Id : r # s => Base(L, O, r) = Base(K, M, r) BY <1>2, <1>3 DEF Base
  <2>3. \A r \in Id : /\ L[r].st = K[r].st /\ L[r].l4rxvs = K[r].l4rxvs /\ L[r].l4vr = K[r].l4vr
                      /\ L[r].mbhdos = K[r].mbhdos /\ L[r].window = K[r].window
                      /\ L[r].idpart = K[r].idpart /\ L[r].idxpar = K[r].idxpar
    BY <1>0, <1>2
  <2>4. \A r \in Id : IsUp(L, r) = IsUp(K, r) BY <2>3 DEF IsUp
  <2>5. \A r \in Id : M[r] \in Nat /\ O[r] >= M[r] /\ O[r] \in Nat BY <1>1, <1>3
  <2> QED BY <2>1, <2>2, <2>3, <2>4, <2>5
<1> HIDE DEF L, O
<1>8. ASSUME NEW r \in Id
      PROVE  /\ Unborn(h, L, G, O, I, r) /\ InOrder(h, G, O, r)
             /\ Agreed(h, L, N, r) /\ Partner(h, L, r)
             /\ Listed(h, L, G, O, r) /\ Placed(h, L, G, O, r)
             /\ Confirms(h, L, N, G, O, r) /\ Arrives(h, L, N, G, O, r)
  <2> DEFINE q == h[r].p
  <2>0. /\ Unborn(h, K, G, M, I, r) /\ InOrder(h, G, M, r)
        /\ Agreed(h, K, N, r) /\ Partner(h, K, r)
        /\ Listed(h, K, G, M, r) /\ Placed(h, K, G, M, r)
        /\ Confirms(h, K, N, G, M, r) /\ Arrives(h, K, N, G, M, r)
    BY DEF World
  <2>1. (q # 0 => q \in Id) /\ Len(G[r]) \in Nat BY WorldTypes
  <2>2. Unborn(h, L, G, O, I, r)
    <3>1. r > I => r # s BY <2>0 DEF Unborn
    <3> QED BY <1>3, <1>7, <2>0, <3>1 DEF Unborn
  <2>3. InOrder(h, G, O, r)
    <3>1. q # 0 => Len(G[r]) <= O[q] BY <1>7, <2>0, <2>1 DEF InOrder
    <3> QED BY <2>0, <3>1 DEF InOrder
  <2>4. Agreed(h, L, N, r) BY <1>7, <2>0 DEF Agreed
  <2>5. Partner(h, L, r) BY <1>7, <2>0 DEF Partner
  <2>6. Listed(h, L, G, O, r)
    <3>1. ASSUME NEW j \in 1 .. Len(L[r].mbhdtx), L[r].st # L4SDSCED
          PROVE  L[r].mbhdtx[j].m = [from |-> r, no |-> Base(K, M, r) + j]
      <4>1. K[r].st # L4SDSCED BY <1>7, <3>1
      <4>2. CASE r # s BY <1>2, <2>0, <3>1, <4>1, <4>2 DEF Listed
      <4>3. CASE r = s /\ j <= Len(K[s].mbhdtx)
        <5>1. j \in 1 .. Len(K[s].mbhdtx) BY <1>4, <4>3
        <5> QED BY <1>2, <1>6, <2>0, <4>1, <4>3, <5>1 DEF Listed
      <4>4. CASE r = s /\ ~(j <= Len(K[s].mbhdtx))
        <5>1. j = Len(K[s].mbhdtx) + 1 BY <1>2, <1>4, <1>6, <4>4
        <5>2. Base(K, M, s) + j = M[s] + 1 BY <1>4, <5>1 DEF Base
        <5> QED BY <1>2, <1>6, <4>4, <5>1, <5>2
      <4> QED BY <4>2, <4>3, <4>4
    <3> QED BY <1>7, <2>0, <3>1 DEF Listed
  <2>7. Placed(h, L, G, O, r)
    <3>1. K[r].st = L4SIXFER => q \in Id BY OpenPartner DEF IsUp
    <3>2. ASSUME K[r].st = L4SIXFER, NEW o \in 1 .. Mod - 1, K[r].mbhdos[o] # NoMessage
          PROVE  Len(G[r]) + o + 1 <= O[q]
      <4>1. Len(G[r]) + o + 1 <= M[q] BY <2>0, <3>2 DEF Placed
      <4>2. M[q] \in Nat /\ O[q] \in Nat /\ O[q] >= M[q] BY <1>7, <3>1, <3>2
      <4> QED BY <2>1, <4>1, <4>2
    <3>3. K[r].st = L4SIXFER => L[q].st = K[q].st /\ Base(L, O, q) = Base(K, M, q)
      BY <1>7, <3>1
    <3> QED BY <1>7, <2>0, <3>2, <3>3 DEF Placed
  <2>8. Confirms(h, L, N, G, O, r) BY <1>7, <2>0 DEF Confirms, Confirming, Ahead
  <2>9. Arrives(h, L, N, G, O, r)
    <3>1. SUFFICES ASSUME L[r].st # L4SDSCED, NEW j \in 1 .. Len(N[h[r].n]),
                          Heard(N[h[r].n], IsUp(L, r), r, j), N[h[r].n][j].op = "INFTRA"
                   PROVE  Arriving(h, L, N, G, O, r, j)
      BY DEF Arrives
    <3>2. Heard(N[h[r].n], IsUp(K, r), r, j) /\ Arriving(h, K, N, G, M, r, j)
      BY <1>7, <2>0, <3>1 DEF Arrives
    <3>3. q \in Id BY <3>2, HeardPartner
    <3>4. N[h[r].n][j].m.no \in 1 .. O[q]
      <4>1. N[h[r].n][j].m.no \in 1 .. M[q] BY <3>2 DEF Arriving
      <4> QED BY <1>7, <3>3, <4>1
    <3> QED BY <1>7, <3>2, <3>3, <3>4 DEF Arriving
  <2> QED BY <2>2, <2>3, <2>4, <2>5, <2>6, <2>7, <2>8, <2>9
<1>9. ASSUME NEW k \in Node, NEW j \in 1 .. Len(N[k])
      PROVE  Asked(h, L, G, I, k, N[k][j])
  <2>1. Asked(h, K, G, I, k, N[k][j]) BY DEF World
  <2>2. I \in 0 .. MaxId BY DEF World, Types
  <2>3. N[k][j].id \in 1 .. I => N[k][j].id \in Id BY <2>2, BoundTypes DEF Id
  <2> QED BY <1>7, <2>1, <2>3 DEF Asked
<1>10. Types(h, L, N, G, O, I) BY <1>2, <1>3 DEF World, Types
<1>11. Once(N) BY DEF World
<1> QED BY <1>8, <1>9, <1>10, <1>11 DEF World, L, O

(* A new circuit c: its user calls, and it asks for a partner, or e.p has  *)
(* called it.                                                              *)
Begins(h, K, G, I, e, c) ==
  LET q == e.p
  IN  /\ c.mbhdtx = <<>>
      /\ q = 0 => c.st = L4SLKSUP
      /\ q # 0 =>
           /\ q <= I /\ G[q] = <<>> /\ h[q].p = 0 /\ h[q].n = Peer(e.n)
           /\ e.w >= 1 /\ 2 * e.w <= Mod
           /\ \A r \in Id : K[r].st # L4SDSCED => h[r].p # q
           /\ c.st = L4SIXFER /\ c.idpart = q /\ c.idxpar = h[q].i /\ c.window = e.w
           /\ c.l4rxvs = 0 /\ c.l4vr = 0
           /\ \A o \in 1 .. Mod - 1 : c.mbhdos[o] = NoMessage

LEMMA Begun ==
  ASSUME NEW h, NEW K, NEW N, NEW G, NEW M, NEW I, World(h, K, N, G, M, I),
         NEW s \in Id, s = I + 1, NEW e \in Reg, NEW c \in Good, Begins(h, K, G, I, e, c)
  PROVE  World([h EXCEPT ![s] = e], [K EXCEPT ![s] = c], N, G, M, I + 1)
<1> DEFINE g == [h EXCEPT ![s] = e]
           L == [K EXCEPT ![s] = c]
<1>1. K \in [Id -> Good] /\ h \in [Id -> Reg] /\ I \in 0 .. MaxId BY DEF World, Types
<1>2. L \in [Id -> Good] /\ L[s] = c /\ \A r \in Id : r # s => L[r] = K[r] BY <1>1
<1>3. g \in [Id -> Reg] /\ g[s] = e /\ \A r \in Id : r # s => g[r] = h[r] BY <1>1
<1> HIDE DEF g, L
<1>4. I + 1 \in 0 .. MaxId /\ s > I /\ s # 0 BY <1>1, BoundTypes DEF Id
<1>5. K[s].st = L4SDSCED /\ h[s].p = 0 /\ M[s] = 0 /\ G[s] = <<>> /\ Len(G[s]) = 0
  BY <1>4 DEF World, Unborn
<1>6. \A r \in Id : h[r].p # s /\ h[r].p \in 0 .. MaxId /\ h[r].p <= I
  <2>1. \A r \in Id : h[r].p <= I /\ h[r].p \in 0 .. MaxId BY <1>1 DEF World, Unborn, Reg
  <2> QED BY <1>1, <1>4, <2>1, BoundTypes
<1>7. Base(L, M, s) = 0 /\ \A r \in Id : r # s => Base(L, M, r) = Base(K, M, r)
  <2>1. Len(<<>>) = 0 OBVIOUS
  <2>2. Base(L, M, s) = 0
    <3>1. L[s].mbhdtx = <<>> BY <1>2 DEF Begins
    <3>2. Len(L[s].mbhdtx) = 0 BY <2>1, <3>1
    <3>3. M[s] = 0 BY <1>5
    <3> QED BY <3>2, <3>3 DEF Base
  <2> QED BY <1>2, <2>2 DEF Base
<1>8. ASSUME NEW r \in Id, r # s
      PROVE  /\ Unborn(g, L, G, M, I + 1, r) /\ InOrder(g, G, M, r)
             /\ Agreed(g, L, N, r) /\ Partner(g, L, r)
             /\ Listed(g, L, G, M, r) /\ Placed(g, L, G, M, r)
             /\ Confirms(g, L, N, G, M, r) /\ Arrives(g, L, N, G, M, r)
  <2> DEFINE q == h[r].p
  <2>0. /\ Unborn(h, K, G, M, I, r) /\ InOrder(h, G, M, r)
        /\ Agreed(h, K, N, r) /\ Partner(h, K, r)
        /\ Listed(h, K, G, M, r) /\ Placed(h, K, G, M, r)
        /\ Confirms(h, K, N, G, M, r) /\ Arrives(h, K, N, G, M, r)
    BY DEF World
  <2>1. g[r] = h[r] /\ L[r] = K[r] /\ Base(L, M, r) = Base(K, M, r) BY <1>2, <1>3, <1>7, <1>8
  <2>2. q # 0 => q \in Id /\ q # s BY <1>6, BoundTypes DEF Id
  <2>3. q # 0 => g[q] = h[q] /\ L[q] = K[q] /\ Base(L, M, q) = Base(K, M, q)
    BY <1>2, <1>3, <1>7, <2>2
  <2>4. ASSUME q # 0, L[r].st # L4SDSCED, NEW k \in Id, L[k].st # L4SDSCED, g[k].p = q
        PROVE  K[k].st # L4SDSCED /\ h[k].p = q
    <3>1. K[r].st # L4SDSCED BY <2>1, <2>4
    <3>2. k = s => e.p = q BY <1>3, <2>4
    <3>3. k # s BY <2>4, <3>1, <3>2 DEF Begins
    <3> QED BY <1>2, <1>3, <2>4, <3>3
  <2>5. Unborn(g, L, G, M, I + 1, r)
    <3>1. q <= I + 1 /\ (r > I + 1 => r > I) BY <1>1, <1>6, BoundTypes DEF Id
    <3> QED BY <2>0, <2>1, <3>1 DEF Unborn
  <2>6. InOrder(g, G, M, r) BY <2>0, <2>1 DEF InOrder
  <2>7. Agreed(g, L, N, r) BY <2>0, <2>1, <2>3, <2>4 DEF Agreed
  <2>8. Partner(g, L, r) BY <2>0, <2>1, <2>3 DEF Partner
  <2>9. Listed(g, L, G, M, r) BY <2>0, <2>1, <2>3 DEF Listed
  <2>10. Placed(g, L, G, M, r)
    <3>1. K[r].st = L4SIXFER => q # 0 BY <2>0, StatesDiffer DEF Partner
    <3> HIDE DEF q
    <3> QED BY <2>0, <2>1, <2>3, <3>1 DEF Placed, q
  <2>11. IsUp(L, r) = IsUp(K, r) BY <2>1 DEF IsUp
  <2>12. Confirms(g, L, N, G, M, r) BY <2>0, <2>1, <2>11 DEF Confirms, Confirming, Ahead
  <2>13. Arrives(g, L, N, G, M, r)
    <3>1. SUFFICES ASSUME L[r].st # L4SDSCED, NEW j \in 1 .. Len(N[g[r].n]),
                          Heard(N[g[r].n], IsUp(L, r), r, j), N[g[r].n][j].op = "INFTRA"
                   PROVE  Arriving(g, L, N, G, M, r, j)
      BY DEF Arrives
    <3>2. Heard(N[h[r].n], IsUp(K, r), r, j) /\ Arriving(h, K, N, G, M, r, j)
      BY <2>0, <2>1, <2>11, <3>1 DEF Arrives
    <3>3. j \in 1 .. Len(N[h[r].n]) BY <2>1
    <3>4. q \in Id BY <3>2, <3>3, HeardPartner
    <3>5. q # 0 BY <3>4, BoundTypes DEF Id
    <3> QED BY <2>1, <2>3, <2>11, <3>2, <3>5 DEF Arriving
  <2> QED BY <2>5, <2>6, <2>7, <2>8, <2>9, <2>10, <2>12, <2>13
<1>9. ASSUME NEW k \in Node, NEW j \in 1 .. Len(N[k])
      PROVE  Asked(g, L, G, I + 1, k, N[k][j]) /\ (Carries(N[k][j]) => N[k][j].id # s)
  <2> DEFINE f == N[k][j]
  <2>1. Asked(h, K, G, I, k, f) BY DEF World
  <2>2. f.id \in 0 .. MaxId
    <3>1. N[k] \in Seq(Frame) BY DEF World, Types
    <3>2. f \in Frame BY <3>1
    <3> QED BY <3>2 DEF Frame, Datagram
  <2> HIDE DEF f
  <2>3. Carries(f) => f.id <= I /\ f.id <= I + 1 /\ f.id # s
    BY <1>1, <1>4, <2>1, <2>2, BoundTypes DEF Asked
  <2>4. ASSUME Token(f)
        PROVE  /\ f.id \in 1 .. I + 1 /\ f.id \in Id /\ f.id # s
               /\ f.op = "CONACK" => f.b \in 1 .. I + 1 /\ f.b \in Id /\ f.b # s
    <3>1. f.id \in 1 .. I /\ (f.op = "CONACK" => f.b \in 1 .. I) BY <2>1, <2>4 DEF Asked
    <3> QED BY <1>1, <1>4, <3>1, BoundTypes DEF Id
  <2>5. ASSUME Token(f) PROVE g[f.id] = h[f.id] /\ L[f.id] = K[f.id]
    BY <1>2, <1>3, <2>4, <2>5
  <2>6. ASSUME Token(f), f.op = "CONACK" PROVE g[f.b] = h[f.b]
    BY <1>3, <2>4, <2>6
  <2> QED BY <2>1, <2>3, <2>4, <2>5, <2>6 DEF Asked, f
<1>10. /\ Unborn(g, L, G, M, I + 1, s) /\ InOrder(g, G, M, s)
       /\ Agreed(g, L, N, s) /\ Partner(g, L, s)
       /\ Listed(g, L, G, M, s) /\ Placed(g, L, G, M, s)
       /\ Confirms(g, L, N, G, M, s) /\ Arrives(g, L, N, G, M, s)
  <2> DEFINE q == e.p
  <2>0. L[s] = c /\ g[s] = e /\ c.mbhdtx = <<>> /\ (q = 0 => c.st = L4SLKSUP)
    BY <1>2, <1>3 DEF Begins
  <2>10. e.p \in 0 .. MaxId BY DEF Reg
  <2>11. ASSUME q # 0
         PROVE  /\ q \in Id /\ q # s /\ g[q] = h[q] /\ Base(L, M, q) = Base(K, M, q)
                /\ G[q] = <<>> /\ Len(G[q]) = 0 /\ h[q].p = 0 /\ h[q].n = Peer(e.n) /\ q <= I
                /\ M[q] \in Nat
    <3>1. q \in Id BY <2>10, <2>11, BoundTypes DEF Id
    <3>2. q <= I /\ G[q] = <<>> /\ h[q].p = 0 /\ h[q].n = Peer(e.n) BY <2>11 DEF Begins
    <3>3. q # s BY <1>1, <3>1, <3>2, BoundTypes DEF Id
    <3>4. M[q] \in Nat BY <3>1, WorldTypes
    <3> QED BY <1>3, <1>7, <3>1, <3>2, <3>3, <3>4
  <2>1. Unborn(g, L, G, M, I + 1, s)
    <3>1. e.p <= I + 1 BY <1>1, <1>4, <2>10, <2>11, BoundTypes
    <3> QED BY <1>1, <1>3, <1>4, <1>5, <3>1 DEF Unborn
  <2>2. InOrder(g, G, M, s)
    <3>1. q # 0 => 0 <= M[q] BY <2>11
    <3> QED BY <1>3, <1>5, <3>1 DEF InOrder
  <2>3. Agreed(g, L, N, s)
    <3>1. CASE q = 0 BY <1>3, <3>1 DEF Agreed
    <3>2. CASE q # 0
      <4>1. /\ e.w >= 1 /\ 2 * e.w <= Mod /\ c.st = L4SIXFER
            /\ \A r \in Id : K[r].st # L4SDSCED => h[r].p # q
        BY <3>2 DEF Begins
      <4>2. \A r \in Id : L[r].st # L4SDSCED /\ g[r].p = q => r = s
        BY <1>2, <1>3, <4>1
      <4>3. s # 0 /\ g[q].p = 0 /\ g[q].n = Peer(e.n) BY <1>4, <2>11, <3>2
      <4> QED BY <2>0, <4>1, <4>2, <4>3, StatesDiffer DEF Agreed
    <3> QED BY <3>1, <3>2
  <2>4. Partner(g, L, s)
    <3>1. CASE q = 0 BY <2>0, <3>1, StatesDiffer DEF Partner
    <3>2. CASE q # 0
      <4>1. c.idpart = q /\ c.idxpar = h[q].i /\ c.window = e.w BY <3>2 DEF Begins
      <4> QED BY <2>0, <2>11, <3>2, <4>1 DEF Partner
    <3> QED BY <3>1, <3>2
  <2>5. Listed(g, L, G, M, s)
    <3>1. Len(<<>>) = 0 OBVIOUS
    <3>2. \A j \in 1 .. Len(L[s].mbhdtx) : FALSE BY <2>0, <3>1
    <3>3. Base(L, M, s) = 0 BY <1>7
    <3>4. q # 0 => 0 <= Len(G[q]) /\ Len(G[q]) <= 0 + e.w
      <4>1. q # 0 => e.w >= 1 BY DEF Begins
      <4>2. e.w \in Int BY ModType DEF Reg
      <4> QED BY <2>11, <4>1, <4>2
    <3> QED BY <1>5, <2>0, <3>2, <3>3, <3>4 DEF Listed
  <2>6. Placed(g, L, G, M, s)
    <3>1. CASE q = 0 BY <2>0, <3>1, StatesDiffer DEF Placed
    <3>2. CASE q # 0
      <4>1. c.l4rxvs = 0 /\ c.l4vr = 0 /\ \A o \in 1 .. Mod - 1 : c.mbhdos[o] = NoMessage
        BY <3>2 DEF Begins
      <4>2. 0 % Mod = 0 BY ModType, ModSmall
      <4>3. Base(L, M, s) = 0 BY <1>7
      <4> QED BY <1>5, <2>0, <4>1, <4>2, <4>3 DEF Placed
    <3> QED BY <3>1, <3>2
  <2>7. g[s].n \in Node BY <1>3 DEF Reg
  <2>8. \A j \in 1 .. Len(N[g[s].n]) : ~Heard(N[g[s].n], IsUp(L, s), s, j)
    BY <1>9, <2>7 DEF Heard
  <2>9. Confirms(g, L, N, G, M, s) /\ Arrives(g, L, N, G, M, s)
    BY <2>8 DEF Confirms, Arrives
  <2> QED BY <2>1, <2>2, <2>3, <2>4, <2>5, <2>6, <2>9
<1>11. Types(g, L, N, G, M, I + 1) BY <1>2, <1>3, <1>4 DEF World, Types
<1>12. Once(N) BY DEF World
<1>13. World(g, L, N, G, M, I + 1)
  <2>1. \A r \in Id : /\ Unborn(g, L, G, M, I + 1, r) /\ InOrder(g, G, M, r)
                      /\ Agreed(g, L, N, r) /\ Partner(g, L, r)
                      /\ Listed(g, L, G, M, r) /\ Placed(g, L, G, M, r)
                      /\ Confirms(g, L, N, G, M, r) /\ Arrives(g, L, N, G, M, r)
    BY <1>8, <1>10
  <2> QED BY <1>9, <1>11, <1>12, <2>1 DEF World
<1> QED BY <1>13 DEF g, L

(* A datagram f follows the others on their way to m.                      *)
Then(N, m, f) == [N EXCEPT ![m] = Append(@, f)]

LEMMA ThenType ==
  ASSUME NEW N \in [Node -> Seq(Frame)], NEW m \in Node, NEW f \in Frame
  PROVE  /\ Then(N, m, f) \in [Node -> Seq(Frame)]
         /\ \A k \in Node : Len(N[k]) \in Nat /\ Len(Then(N, m, f)[k]) \in Nat
         /\ Len(N[m]) + 1 \in 1 .. Len(Then(N, m, f)[m])
         /\ Then(N, m, f)[m][Len(N[m]) + 1] = f
         /\ \A k \in Node : \A j \in 1 .. Len(N[k]) :
              j \in 1 .. Len(Then(N, m, f)[k]) /\ Then(N, m, f)[k][j] = N[k][j]
         /\ \A k \in Node : \A j \in 1 .. Len(Then(N, m, f)[k]) :
              j \in 1 .. Len(N[k]) \/ (k = m /\ j = Len(N[m]) + 1)
<1> DEFINE P == Then(N, m, f)
<1>1. N[m] \in Seq(Frame) /\ Len(N[m]) \in Nat BY LenProperties
<1>2. P = [N EXCEPT ![m] = Append(N[m], f)] BY DEF Then
<1> HIDE DEF P
<1>3. /\ Append(N[m], f) \in Seq(Frame)
      /\ Len(Append(N[m], f)) = Len(N[m]) + 1
      /\ \A j \in 1 .. Len(N[m]) : Append(N[m], f)[j] = N[m][j]
      /\ Append(N[m], f)[Len(N[m]) + 1] = f
  BY <1>1, AppendProperties
<1>4. P \in [Node -> Seq(Frame)] /\ P[m] = Append(N[m], f) /\ \A k \in Node : k # m => P[k] = N[k]
  BY <1>2, <1>3
<1>5. \A k \in Node : Len(N[k]) \in Nat /\ Len(P[k]) \in Nat BY <1>4, LenProperties
<1>6. Len(P[m]) = Len(N[m]) + 1 BY <1>3, <1>4
<1>7. Len(N[m]) + 1 \in 1 .. Len(P[m]) /\ P[m][Len(N[m]) + 1] = f BY <1>1, <1>3, <1>4, <1>6
<1>8. ASSUME NEW k \in Node, NEW j \in 1 .. Len(N[k])
      PROVE  j \in 1 .. Len(P[k]) /\ P[k][j] = N[k][j]
  <2>1. CASE k = m
    <3>1. j \in 1 .. Len(N[m]) BY <2>1
    <3>2. P[m][j] = N[m][j] BY <1>3, <1>4, <3>1
    <3>3. j \in 1 .. Len(P[m]) BY <1>1, <1>6, <3>1
    <3> QED BY <2>1, <3>2, <3>3
  <2>2. CASE k # m BY <1>4, <2>2
  <2> QED BY <2>1, <2>2
<1>9. ASSUME NEW k \in Node, NEW j \in 1 .. Len(P[k])
      PROVE  j \in 1 .. Len(N[k]) \/ (k = m /\ j = Len(N[m]) + 1)
  <2>1. CASE k = m
    <3>1. j \in 1 .. Len(P[m]) BY <2>1
    <3>2. j \in 1 .. Len(N[m]) \/ j = Len(N[m]) + 1 BY <1>1, <1>6, <3>1
    <3> QED BY <2>1, <3>2
  <2>2. CASE k # m BY <1>4, <2>2
  <2> QED BY <2>1, <2>2
<1> QED BY <1>4, <1>5, <1>7, <1>8, <1>9 DEF P

(* If it carries nothing, circuits hear what they heard.                   *)
LEMMA ThenHeard ==
  ASSUME NEW N \in [Node -> Seq(Frame)], NEW m \in Node, NEW f \in Frame, ~Carries(f),
         NEW h \in [Id -> Reg], NEW K, NEW G, NEW M, NEW s \in Id
  PROVE  /\ Confirms(h, K, N, G, M, s) => Confirms(h, K, Then(N, m, f), G, M, s)
         /\ Arrives(h, K, N, G, M, s) => Arrives(h, K, Then(N, m, f), G, M, s)
<1> DEFINE P == Then(N, m, f)
           n == h[s].n
           up == IsUp(K, s)
<1>0. n \in Node BY DEF Reg
<1>9. /\ \A k \in Node : Len(N[k]) \in Nat /\ Len(P[k]) \in Nat
      /\ P[m][Len(N[m]) + 1] = f
      /\ \A k \in Node : \A j \in 1 .. Len(N[k]) :
            j \in 1 .. Len(P[k]) /\ P[k][j] = N[k][j]
      /\ \A k \in Node : \A j \in 1 .. Len(P[k]) :
            j \in 1 .. Len(N[k]) \/ (k = m /\ j = Len(N[m]) + 1)
  BY ThenType
<1> HIDE DEF P, n
<1>1. /\ Len(N[n]) \in Nat /\ Len(N[m]) \in Nat /\ P[m][Len(N[m]) + 1] = f
      /\ \A j \in 1 .. Len(N[n]) : P[n][j] = N[n][j]
      /\ \A j \in 1 .. Len(P[n]) : j \in 1 .. Len(N[n]) \/ (n = m /\ j = Len(N[m]) + 1)
  BY <1>0, <1>9
<1> HIDE DEF P, n, up
<1>2. ASSUME NEW j \in 1 .. Len(P[n]), Heard(P[n], up, s, j)
      PROVE  j \in 1 .. Len(N[n]) /\ P[n][j] = N[n][j]
  BY <1>1, <1>2 DEF Heard
<1>3. ASSUME NEW j \in 1 .. Len(N[n]), Heard(P[n], up, s, j) PROVE Heard(N[n], up, s, j)
  <2>1. \A i \in 1 .. j : P[n][i] = N[n][i] BY <1>1
  <2> QED BY <1>3, <2>1 DEF Heard
<1>4. ASSUME Confirms(h, K, N, G, M, s) PROVE Confirms(h, K, P, G, M, s)
  <2>1. SUFFICES ASSUME K[s].st # L4SDSCED, NEW j \in 1 .. Len(P[n]), Heard(P[n], up, s, j)
                 PROVE  Confirming(h, K, P, G, M, s, j)
    BY DEF Confirms, n, up
  <2>2. j \in 1 .. Len(N[n]) /\ P[n][j] = N[n][j] /\ Heard(N[n], up, s, j) BY <1>2, <1>3, <2>1
  <2>3. Confirming(h, K, N, G, M, s, j) BY <1>4, <2>1, <2>2 DEF Confirms, n, up
  <2>4. ASSUME NEW i \in 1 .. j - 1, Heard(P[n], up, s, i)
        PROVE  Heard(N[n], up, s, i) /\ P[n][i] = N[n][i]
    <3>1. i \in 1 .. Len(N[n]) BY <1>1, <2>2
    <3> QED BY <1>1, <1>3, <2>4, <3>1
  <2> QED BY <2>2, <2>3, <2>4 DEF Confirming, n, up
<1>5. ASSUME Arrives(h, K, N, G, M, s) PROVE Arrives(h, K, P, G, M, s)
  <2>1. SUFFICES ASSUME K[s].st # L4SDSCED, NEW j \in 1 .. Len(P[n]), Heard(P[n], up, s, j),
                        P[n][j].op = "INFTRA"
                 PROVE  Arriving(h, K, P, G, M, s, j)
    BY DEF Arrives, n, up
  <2>2. j \in 1 .. Len(N[n]) /\ P[n][j] = N[n][j] /\ Heard(N[n], up, s, j) BY <1>2, <1>3, <2>1
  <2>3. Arriving(h, K, N, G, M, s, j) BY <1>5, <2>1, <2>2 DEF Arrives, n, up
  <2>4. ASSUME NEW i \in 1 .. j - 1, Heard(P[n], up, s, i)
        PROVE  Heard(N[n], up, s, i) /\ P[n][i] = N[n][i]
    <3>1. i \in 1 .. Len(N[n]) BY <1>1, <2>2
    <3> QED BY <1>1, <1>3, <2>4, <3>1
  <2> QED BY <2>2, <2>3, <2>4 DEF Arriving, n, up
<1> QED BY <1>4, <1>5 DEF P

(* A datagram sent to n by its partner.                                    *)
LEMMA ThenAsked ==
  ASSUME NEW h, NEW K, NEW G, NEW I, NEW N \in [Node -> Seq(Frame)], NEW m \in Node,
         NEW f \in Frame, Once(N), Asked(h, K, G, I, m, f),
         \A k \in Node : \A j \in 1 .. Len(N[k]) : Asked(h, K, G, I, k, N[k][j]),
         \A k \in Node : \A j \in 1 .. Len(N[k]) :
           Token(N[k][j]) /\ Token(f) => N[k][j].id # f.id
  PROVE  /\ Once(Then(N, m, f))
         /\ \A k \in Node : \A j \in 1 .. Len(Then(N, m, f)[k]) :
              Asked(h, K, G, I, k, Then(N, m, f)[k][j])
<1> DEFINE P == Then(N, m, f)
<1>1. /\ P[m][Len(N[m]) + 1] = f
      /\ \A k \in Node : \A j \in 1 .. Len(N[k]) : j \in 1 .. Len(P[k]) /\ P[k][j] = N[k][j]
      /\ \A k \in Node : \A j \in 1 .. Len(P[k]) :
           j \in 1 .. Len(N[k]) \/ (k = m /\ j = Len(N[m]) + 1)
  BY ThenType
<1> HIDE DEF P
<1>2. ASSUME NEW k \in Node, NEW j \in 1 .. Len(P[k])
      PROVE  Asked(h, K, G, I, k, P[k][j])
  <2>1. CASE j \in 1 .. Len(N[k]) BY <1>1, <2>1
  <2>2. CASE k = m /\ j = Len(N[m]) + 1 BY <1>1, <2>2
  <2> QED BY <1>1, <2>1, <2>2
<1>3. Once(P)
  <2> SUFFICES ASSUME NEW a \in Node, NEW b \in Node, NEW i \in 1 .. Len(P[a]),
                      NEW j \in 1 .. Len(P[b]), Token(P[a][i]), Token(P[b][j]),
                      P[a][i].id = P[b][j].id
               PROVE  a = b /\ i = j
    BY DEF Once
  <2>1. CASE i \in 1 .. Len(N[a]) /\ j \in 1 .. Len(N[b])
    <3>1. P[a][i] = N[a][i] /\ P[b][j] = N[b][j] BY <1>1, <2>1
    <3> QED BY <2>1, <3>1 DEF Once
  <2>2. CASE i \in 1 .. Len(N[a]) /\ b = m /\ j = Len(N[m]) + 1
    <3>1. P[a][i] = N[a][i] /\ P[b][j] = f BY <1>1, <2>2
    <3>2. Token(N[a][i]) /\ Token(f) /\ N[a][i].id = f.id BY <3>1
    <3> QED BY <2>2, <3>2
  <2>3. CASE j \in 1 .. Len(N[b]) /\ a = m /\ i = Len(N[m]) + 1
    <3>1. P[b][j] = N[b][j] /\ P[a][i] = f BY <1>1, <2>3
    <3>2. Token(N[b][j]) /\ Token(f) /\ N[b][j].id = f.id BY <3>1
    <3> QED BY <2>3, <3>2
  <2> QED BY <1>1, <2>1, <2>2, <2>3
<1> QED BY <1>2, <1>3 DEF P

(* Circuit s asks for a partner, and is not asking yet.                    *)
LEMMA Requested ==
  ASSUME NEW h, NEW K, NEW N, NEW G, NEW M, NEW I, World(h, K, N, G, M, I),
         NEW s \in Id, K[s].st = L4SLKSUP, h[s].p = 0,
         \A k \in Node : \A j \in 1 .. Len(N[k]) : Token(N[k][j]) => N[k][j].id # s,
         NEW f \in Frame, f.op = "CONREQ", f.id = s, f.idx = h[s].i
  PROVE  World(h, K, Then(N, Peer(h[s].n), f), G, M, I)
<1> DEFINE m == Peer(h[s].n)
           P == Then(N, m, f)
<1>0. /\ N \in [Node -> Seq(Frame)] /\ h \in [Id -> Reg] /\ m \in Node
      /\ Peer(m) = h[s].n /\ ~Carries(f) /\ Token(f)
  BY WorldTypes, PeerType DEF World, Types, Carries, Token
<1> HIDE DEF m
<1>8. /\ P \in [Node -> Seq(Frame)]
      /\ \A k \in Node : Len(N[k]) \in Nat /\ Len(P[k]) \in Nat
      /\ P[m][Len(N[m]) + 1] = f
      /\ \A k \in Node : \A j \in 1 .. Len(N[k]) :
            j \in 1 .. Len(P[k]) /\ P[k][j] = N[k][j]
      /\ \A k \in Node : \A j \in 1 .. Len(P[k]) :
            j \in 1 .. Len(N[k]) \/ (k = m /\ j = Len(N[m]) + 1)
  <2>1. ASSUME NEW a \in Node
        PROVE  /\ Then(N, a, f) \in [Node -> Seq(Frame)]
               /\ \A k \in Node : Len(N[k]) \in Nat /\ Len(Then(N, a, f)[k]) \in Nat
               /\ Then(N, a, f)[a][Len(N[a]) + 1] = f
               /\ \A k \in Node : \A j \in 1 .. Len(N[k]) :
                    j \in 1 .. Len(Then(N, a, f)[k]) /\ Then(N, a, f)[k][j] = N[k][j]
               /\ \A k \in Node : \A j \in 1 .. Len(Then(N, a, f)[k]) :
                    j \in 1 .. Len(N[k]) \/ (k = a /\ j = Len(N[a]) + 1)
    <3>1. N \in [Node -> Seq(Frame)] BY <1>0
    <3> HIDE DEF P
    <3> QED BY <3>1, ThenType
  <2>2. m \in Node BY <1>0
  <2> QED BY <2>1, <2>2
<1>1. /\ P \in [Node -> Seq(Frame)] /\ P[m][Len(N[m]) + 1] = f
      /\ \A k \in Node : \A j \in 1 .. Len(N[k]) : j \in 1 .. Len(P[k]) /\ P[k][j] = N[k][j]
      /\ \A k \in Node : \A j \in 1 .. Len(P[k]) :
           j \in 1 .. Len(N[k]) \/ (k = m /\ j = Len(N[m]) + 1)
  BY <1>8
<1>2. \A r \in Id : Confirms(h, K, P, G, M, r) /\ Arrives(h, K, P, G, M, r)
  BY <1>0, ThenHeard DEF World
<1> HIDE DEF P
<1>3. \A r \in Id : Agreed(h, K, P, r)
  <2> SUFFICES ASSUME NEW r \in Id PROVE Agreed(h, K, P, r) OBVIOUS
  <2>1. Agreed(h, K, N, r) /\ h[r].n \in Node BY WorldTypes DEF World
  <2> QED BY <1>1, <2>1 DEF Agreed
<1>4. s \in 1 .. I /\ G[s] = <<>>
  <2>1. s <= I BY StatesDiffer DEF World, Unborn, Types, Id
  <2>2. I \in 0 .. MaxId BY DEF World, Types
  <2>3. G[s] = <<>> BY StatesDiffer DEF World, Listed
  <2> QED BY <2>1, <2>2, <2>3, BoundTypes DEF Id
<1>5. /\ Once(P)
      /\ \A k \in Node : \A j \in 1 .. Len(P[k]) : Asked(h, K, G, I, k, P[k][j])
  <2>1. Asked(h, K, G, I, m, f) BY <1>0, <1>4, StatesDiffer DEF Asked
  <2>2. /\ Once(N)
        /\ \A k \in Node : \A j \in 1 .. Len(N[k]) : Asked(h, K, G, I, k, N[k][j])
    BY DEF World
  <2>3. N \in [Node -> Seq(Frame)] /\ m \in Node BY <1>0
  <2> QED BY <2>1, <2>2, <2>3, ThenAsked DEF P
<1>7. Types(h, K, P, G, M, I) BY <1>1 DEF World, Types
<1> QED BY <1>2, <1>3, <1>5, <1>7 DEF World, P, m

(* s opened when t called it, and answers.                                 *)
Answers(h, K, N, G, s, t, g) ==
  /\ t < s /\ G[t] = <<>> /\ G[s] = <<>> /\ K[t].st \notin Paired /\ h[t].p = 0
  /\ h[s].p = t /\ h[s].w >= 1 /\ 2 * h[s].w <= Mod /\ h[t].n = Peer(h[s].n)
  /\ h[s].n = Peer(h[t].n)
  /\ \A r \in Id : K[r].st # L4SDSCED => h[r].p # s /\ (h[r].p = t => r = s)
  /\ \A k \in Node : \A j \in 1 .. Len(N[k]) : Token(N[k][j]) => N[k][j].id # t
  /\ g \in [Id -> Reg] /\ \A r \in Id : r # t => g[r] = h[r]
  /\ g[t].n = h[t].n /\ g[t].i = h[t].i /\ g[t].p = s /\ g[t].w = h[s].w

LEMMA Answered ==
  ASSUME NEW h, NEW K, NEW N, NEW G, NEW M, NEW I, World(h, K, N, G, M, I),
         NEW s \in 1 .. I, NEW t \in 1 .. I, NEW g, Answers(h, K, N, G, s, t, g),
         NEW f \in Frame, f.op = "CONACK", ~f.choke, f.id = t, f.idx = h[t].i,
         f.a = h[s].i, f.b = s, f.win = h[s].w
  PROVE  World(g, K, Then(N, h[t].n, f), G, M, I)
<1> DEFINE m == h[t].n
           P == Then(N, m, f)
<1>0. I \in 0 .. MaxId /\ N \in [Node -> Seq(Frame)] /\ K \in [Id -> Good] BY DEF World, Types
<1>1. s \in Id /\ t \in Id /\ s # t /\ s # 0 BY <1>0, BoundTypes DEF Id, Answers
<1>2. m \in Node BY <1>1, WorldTypes
<1>3. ~Carries(f) /\ Token(f) /\ Opens(f, t) BY DEF Carries, Token, Opens
<1>4. /\ g \in [Id -> Reg] /\ \A r \in Id : r # t => g[r] = h[r]
      /\ g[t].n = m /\ g[t].i = h[t].i /\ g[t].p = s /\ g[t].w = h[s].w
      /\ h[s].p = t /\ h[s].w >= 1 /\ 2 * h[s].w <= Mod /\ m = Peer(h[s].n)
      /\ h[s].n = Peer(m)
      /\ G[t] = <<>> /\ G[s] = <<>> /\ K[t].st \notin Paired /\ t < s
      /\ h[t].p = 0
  BY DEF Answers
<1> HIDE DEF m
<1>5. /\ P \in [Node -> Seq(Frame)]
      /\ Len(N[m]) + 1 \in 1 .. Len(P[m]) /\ P[m][Len(N[m]) + 1] = f
      /\ \A k \in Node : \A j \in 1 .. Len(N[k]) : j \in 1 .. Len(P[k]) /\ P[k][j] = N[k][j]
      /\ \A k \in Node : \A j \in 1 .. Len(P[k]) :
           j \in 1 .. Len(N[k]) \/ (k = m /\ j = Len(N[m]) + 1)
  <2>1. N \in [Node -> Seq(Frame)] BY <1>0
  <2> HIDE DEF P
  <2>2. /\ Then(N, m, f) \in [Node -> Seq(Frame)]
        /\ Len(N[m]) + 1 \in 1 .. Len(Then(N, m, f)[m]) /\ Then(N, m, f)[m][Len(N[m]) + 1] = f
    BY <1>2, <2>1, ThenType
  <2>3. \A k \in Node : \A j \in 1 .. Len(N[k]) :
          j \in 1 .. Len(Then(N, m, f)[k]) /\ Then(N, m, f)[k][j] = N[k][j]
    BY <1>2, <2>1, ThenType
  <2>4. \A k \in Node : \A j \in 1 .. Len(Then(N, m, f)[k]) :
          j \in 1 .. Len(N[k]) \/ (k = m /\ j = Len(N[m]) + 1)
    BY <1>2, <2>1, ThenType
  <2> QED BY <2>2, <2>3, <2>4 DEF P
<1>6. Len(G[t]) = 0 /\ Len(G[s]) = 0 BY <1>4
<1>7. ASSUME NEW r \in Id, r # t
      PROVE  /\ Confirms(g, K, P, G, M, r) /\ Arrives(g, K, P, G, M, r)
  <2>1. Confirms(h, K, N, G, M, r) /\ Arrives(h, K, N, G, M, r) BY DEF World
  <2>2. g[r] = h[r] BY <1>4, <1>7
  <2>3. Confirms(g, K, N, G, M, r) /\ Arrives(g, K, N, G, M, r)
    BY <2>1, <2>2 DEF Confirms, Confirming, Arrives, Arriving
  <2>4. N \in [Node -> Seq(Frame)] /\ g \in [Id -> Reg] /\ ~Carries(f) BY <1>0, <1>3, <1>4
  <2> QED BY <1>2, <2>3, <2>4, ThenHeard
<1>8. ASSUME NEW k \in Node, NEW j \in 1 .. Len(N[k])
      PROVE  /\ Asked(g, K, G, I, k, N[k][j])
             /\ Token(N[k][j]) => N[k][j].id # t
  <2> DEFINE e == N[k][j]
  <2>1. Asked(h, K, G, I, k, e) BY DEF World
  <2>2. Token(e) => e.id # t BY DEF Answers
  <2> HIDE DEF e
  <2>3. ASSUME Token(e)
        PROVE  /\ e.id \in Id /\ g[e.id] = h[e.id]
               /\ e.op = "CONACK" => g[e.b] = h[e.b]
    <3>1. e.id \in Id BY <1>0, <2>1, <2>3, BoundTypes DEF Asked, Id
    <3>2. ASSUME e.op = "CONACK" PROVE e.b \in Id /\ e.b # t
      <4>1. e.b \in 1 .. I /\ h[e.b].p = e.id /\ e.id \in 1 .. I BY <2>1, <2>3, <3>2 DEF Asked
      <4> QED BY <1>0, <1>4, <4>1, BoundTypes DEF Id
    <3> QED BY <1>4, <2>2, <2>3, <3>1, <3>2
  <2> QED BY <2>1, <2>2, <2>3 DEF Asked, e
<1>9. /\ Once(P)
      /\ \A k \in Node : \A j \in 1 .. Len(P[k]) : Asked(g, K, G, I, k, P[k][j])
  <2>1. Asked(g, K, G, I, m, f)
    <3>1. g[s] = h[s] BY <1>1, <1>4
    <3> QED BY <1>3, <1>4, <3>1 DEF Asked
  <2>2. Once(N) BY DEF World
  <2>3. N \in [Node -> Seq(Frame)] BY <1>0
  <2>4. \A k \in Node : \A j \in 1 .. Len(N[k]) : Asked(g, K, G, I, k, N[k][j])
    BY <1>8
  <2>5. \A k \in Node : \A j \in 1 .. Len(N[k]) :
          Token(N[k][j]) /\ Token(f) => N[k][j].id # f.id
    BY <1>8
  <2> QED BY <1>2, <2>1, <2>2, <2>3, <2>4, <2>5, ThenAsked DEF P
<1> HIDE DEF P
<1>10. ASSUME NEW r \in Id, r # t
       PROVE  /\ Unborn(g, K, G, M, I, r) /\ InOrder(g, G, M, r)
              /\ Agreed(g, K, P, r) /\ Partner(g, K, r)
              /\ Listed(g, K, G, M, r) /\ Placed(g, K, G, M, r)
  <2> DEFINE q == h[r].p
  <2>0. /\ Unborn(h, K, G, M, I, r) /\ InOrder(h, G, M, r)
        /\ Agreed(h, K, N, r) /\ Partner(h, K, r)
        /\ Listed(h, K, G, M, r) /\ Placed(h, K, G, M, r)
    BY DEF World
  <2>1. g[r] = h[r] BY <1>4, <1>10
  <2>2. Unborn(g, K, G, M, I, r) BY <2>0, <2>1 DEF Unborn
  <2>3. InOrder(g, G, M, r) BY <2>0, <2>1 DEF InOrder
  <2>4. Agreed(g, K, P, r)
    <3>0. q # 0 => q \in Id BY WorldTypes
    <3>1. ASSUME q # 0, K[r].st # L4SDSCED
          PROVE  /\ g[q].n = Peer(g[r].n) /\ g[q].p \in {0, r}
                 /\ g[q].p = r => g[q].w = g[r].w
                 /\ \A k \in Id : K[k].st # L4SDSCED /\ g[k].p = q => k = r
      <4>1. /\ h[q].n = Peer(h[r].n) /\ h[q].p \in {0, r}
            /\ h[q].p = r => h[q].w = h[r].w
            /\ \A k \in Id : K[k].st # L4SDSCED /\ h[k].p = q => k = r
        BY <2>0, <3>1 DEF Agreed
      <4>2. q # s BY <3>1 DEF Answers
      <4>3. ASSUME NEW k \in Id, K[k].st # L4SDSCED, g[k].p = q PROVE k = r
        <5>1. k # t BY <1>4, <4>2, <4>3
        <5> QED BY <1>4, <4>1, <4>3, <5>1
      <4>4. CASE q # t BY <1>4, <2>1, <3>0, <3>1, <4>1, <4>3, <4>4
      <4>5. CASE q = t
        <5>1. s = r BY <3>1, <4>5 DEF Answers
        <5> QED BY <1>4, <2>1, <4>1, <4>3, <4>5, <5>1
      <4> QED BY <4>4, <4>5
    <3>2. ASSUME q # 0, K[r].st = L4SLKSUP
          PROVE  \E j \in 1 .. Len(P[g[r].n]) : Opens(P[g[r].n][j], r)
      <4>1. PICK j \in 1 .. Len(N[h[r].n]) : Opens(N[h[r].n][j], r)
        BY <2>0, <3>2, StatesDiffer DEF Agreed
      <4>2. h[r].n \in Node BY WorldTypes
      <4> QED BY <1>5, <2>1, <4>1, <4>2
    <3> QED BY <2>0, <2>1, <3>1, <3>2 DEF Agreed
  <2>5. Partner(g, K, r)
    <3>1. q # 0 => q \in Id BY WorldTypes
    <3>2. q # 0 => g[q].i = h[q].i BY <1>4, <3>1
    <3> QED BY <2>0, <2>1, <3>2 DEF Partner
  <2>6. Listed(g, K, G, M, r) BY <2>0, <2>1 DEF Listed
  <2>7. Placed(g, K, G, M, r) BY <2>0, <2>1 DEF Placed
  <2> QED BY <2>2, <2>3, <2>4, <2>5, <2>6, <2>7
<1>11. /\ Unborn(g, K, G, M, I, t) /\ InOrder(g, G, M, t)
       /\ Agreed(g, K, P, t) /\ Partner(g, K, t)
       /\ Listed(g, K, G, M, t) /\ Placed(g, K, G, M, t)
       /\ Confirms(g, K, P, G, M, t) /\ Arrives(g, K, P, G, M, t)
  <2>0. Unborn(h, K, G, M, I, t) /\ Listed(h, K, G, M, t) BY <1>1 DEF World
  <2>1. Unborn(g, K, G, M, I, t)
    <3>1. s <= I /\ ~(t > I) BY <1>0, BoundTypes
    <3> QED BY <1>1, <1>4, <3>1 DEF Unborn
  <2>2. InOrder(g, G, M, t)
    <3>1. 0 <= M[s] BY <1>1, WorldTypes
    <3> QED BY <1>4, <1>6, <3>1 DEF InOrder
  <2>3. Agreed(g, K, P, t)
    <3>1. g[s] = h[s] BY <1>1, <1>4
    <3>2. \A r \in Id : K[r].st # L4SDSCED /\ g[r].p = s => r = t
      BY <1>4 DEF Answers
    <3>3. \E j \in 1 .. Len(P[g[t].n]) : Opens(P[g[t].n][j], t) BY <1>3, <1>4, <1>5
    <3> QED BY <1>4, <3>1, <3>2, <3>3 DEF Agreed
  <2>4. Partner(g, K, t) BY <1>4, StatesDiffer DEF Partner
  <2>5. Listed(g, K, G, M, t)
    <3>1. K[t].st # L4SDSCED => K[t].st = L4SLKSUP
      <4>1. K[t].st \in {L4SDSCED, L4SLKSUP, L4SIXFER, L4SDSCRQ}
        BY <1>0, <1>1 DEF Good, Sound, Shaped, Typed, States
      <4> QED BY <1>4, <4>1 DEF Paired
    <3>2. K[t].st # L4SDSCED => Base(K, M, t) = 0 BY <2>0, <3>1 DEF Listed
    <3>3. 0 <= Len(G[s]) /\ Len(G[s]) <= 0 + h[s].w
      <4>1. h[s].w \in Int BY <1>1, WorldTypes, ModType
      <4> QED BY <1>4, <1>6, <4>1
    <3> QED BY <1>4, <2>0, <3>2, <3>3 DEF Listed
  <2>6. Placed(g, K, G, M, t) BY <1>4, StatesDiffer DEF Placed
  <2>7. \A j \in 1 .. Len(P[g[t].n]) : ~Heard(P[g[t].n], IsUp(K, t), t, j)
    <3> SUFFICES ASSUME NEW j \in 1 .. Len(P[m]), Heard(P[m], IsUp(K, t), t, j)
                 PROVE  FALSE
      BY <1>4
    <3>1. ~IsUp(K, t) BY <1>4, StatesDiffer DEF IsUp
    <3>2. PICK i \in 1 .. j - 1 : Opens(P[m][i], t) BY <3>1 DEF Heard
    <3>3. Len(N[m]) \in Nat /\ Len(P[m]) \in Nat BY <1>0, <1>2, <1>5, LenProperties
    <3>4. j # Len(N[m]) + 1 BY <1>3, <1>5 DEF Heard
    <3>5. j \in 1 .. Len(N[m]) BY <1>2, <1>5, <3>4
    <3>6. i \in 1 .. Len(N[m]) BY <3>3, <3>5
    <3>7. P[m][i] = N[m][i] /\ Token(N[m][i]) /\ N[m][i].id = t
      BY <1>2, <1>5, <3>2, <3>6 DEF Opens, Token
    <3> QED BY <1>2, <1>8, <3>6, <3>7
  <2>8. Confirms(g, K, P, G, M, t) /\ Arrives(g, K, P, G, M, t) BY <2>7 DEF Confirms, Arrives
  <2> QED BY <2>1, <2>2, <2>3, <2>4, <2>5, <2>6, <2>8
<1>12. Types(g, K, P, G, M, I) BY <1>4, <1>5 DEF World, Types
<1>13. World(g, K, P, G, M, I)
  <2>1. \A r \in Id : /\ Unborn(g, K, G, M, I, r) /\ InOrder(g, G, M, r)
                      /\ Agreed(g, K, P, r) /\ Partner(g, K, r)
                      /\ Listed(g, K, G, M, r) /\ Placed(g, K, G, M, r)
                      /\ Confirms(g, K, P, G, M, r) /\ Arrives(g, K, P, G, M, r)
    BY <1>7, <1>10, <1>11
  <2> QED BY <1>9, <1>12, <2>1 DEF World
<1> QED BY <1>13 DEF P, m

-----------------------------------------------------------------------------
(* Handlers.  d is what a handler makes of a circuit c that is open: it    *)
(* may end, or have the first messages of its list confirmed.              *)

Mild(c, d) ==
  \/ d.st = L4SDSCED /\ d.mbhdtx = <<>>
  \/ /\ d.st = c.st \/ (c.st = L4SIXFER /\ d.st = L4SDSCRQ)
     /\ d.idpart = c.idpart
     /\ \E k \in 0 .. Len(c.mbhdtx) :
          /\ Len(d.mbhdtx) = Len(c.mbhdtx) - k
          /\ \A j \in 1 .. Len(d.mbhdtx) : d.mbhdtx[j].m = c.mbhdtx[k + j].m

LEMMA MildTwice ==
  ASSUME NEW c, NEW d, NEW e, c.mbhdtx \in Seq(Entry), d.mbhdtx \in Seq(Entry),
         e.mbhdtx \in Seq(Entry), Mild(c, d), Mild(d, e)
  PROVE  Mild(c, e)
<1>1. Len(c.mbhdtx) \in Nat /\ Len(d.mbhdtx) \in Nat /\ Len(e.mbhdtx) \in Nat BY LenProperties
<1>2. CASE e.st = L4SDSCED /\ e.mbhdtx = <<>> BY <1>2 DEF Mild
<1>3. CASE ~(e.st = L4SDSCED /\ e.mbhdtx = <<>>)
  <2>1. /\ e.st = d.st \/ (d.st = L4SIXFER /\ e.st = L4SDSCRQ)
        /\ e.idpart = d.idpart
    BY <1>3 DEF Mild
  <2>2. PICK k \in 0 .. Len(d.mbhdtx) :
          /\ Len(e.mbhdtx) = Len(d.mbhdtx) - k
          /\ \A j \in 1 .. Len(e.mbhdtx) : e.mbhdtx[j].m = d.mbhdtx[k + j].m
    BY <1>3 DEF Mild
  <2>3. CASE d.st = L4SDSCED /\ d.mbhdtx = <<>>
    <3>1. e.st = L4SDSCED BY <2>1, <2>3, StatesDiffer
    <3>2. Len(e.mbhdtx) = 0 BY <1>1, <2>2, <2>3
    <3>3. e.mbhdtx = <<>> BY <3>2, EmptySeq
    <3> QED BY <1>3, <3>1, <3>3
  <2>4. CASE ~(d.st = L4SDSCED /\ d.mbhdtx = <<>>)
    <3>1. /\ d.st = c.st \/ (c.st = L4SIXFER /\ d.st = L4SDSCRQ)
          /\ d.idpart = c.idpart
      BY <2>4 DEF Mild
    <3>2. PICK i \in 0 .. Len(c.mbhdtx) :
            /\ Len(d.mbhdtx) = Len(c.mbhdtx) - i
            /\ \A j \in 1 .. Len(d.mbhdtx) : d.mbhdtx[j].m = c.mbhdtx[i + j].m
      BY <2>4 DEF Mild
    <3>3. i + k \in 0 .. Len(c.mbhdtx) /\ Len(e.mbhdtx) = Len(c.mbhdtx) - (i + k)
      BY <1>1, <2>2, <3>2
    <3>4. ASSUME NEW j \in 1 .. Len(e.mbhdtx)
          PROVE  e.mbhdtx[j].m = c.mbhdtx[(i + k) + j].m
      <4>1. k + j \in 1 .. Len(d.mbhdtx) /\ i + (k + j) = (i + k) + j BY <1>1, <2>2
      <4>2. e.mbhdtx[j].m = d.mbhdtx[k + j].m BY <2>2
      <4>3. d.mbhdtx[k + j].m = c.mbhdtx[i + (k + j)].m BY <3>2, <4>1
      <4> QED BY <4>1, <4>2, <4>3
    <3> QED BY <2>1, <3>1, <3>3, <3>4, StatesDiffer DEF Mild
  <2> QED BY <2>3, <2>4
<1> QED BY <1>2, <1>3

LEMMA MildSame ==
  ASSUME NEW c, NEW d, Weaker(c, d), c.mbhdtx \in Seq(Entry), d.mbhdtx \in Seq(Entry),
         d.st = L4SDSCED => d.mbhdtx = <<>>
  PROVE  Mild(c, d)
<1>1. Len(c.mbhdtx) \in Nat BY LenProperties
<1>2. CASE d.st = L4SDSCED BY <1>2 DEF Mild
<1>3. CASE d.st # L4SDSCED
  <2>1. /\ d.st = c.st \/ (c.st = L4SIXFER /\ d.st = L4SDSCRQ)
        /\ d.idpart = c.idpart /\ Len(d.mbhdtx) = Len(c.mbhdtx)
        /\ \A j \in 1 .. Len(c.mbhdtx) : d.mbhdtx[j].m = c.mbhdtx[j].m
    BY <1>3 DEF Weaker
  <2>2. 0 \in 0 .. Len(c.mbhdtx) /\ Len(d.mbhdtx) = Len(c.mbhdtx) - 0 BY <1>1, <2>1
  <2>3. \A j \in 1 .. Len(d.mbhdtx) : d.mbhdtx[j].m = c.mbhdtx[0 + j].m BY <1>1, <2>1
  <2> QED BY <2>1, <2>2, <2>3 DEF Mild
<1> QED BY <1>2, <1>3

Associative(a, b, c) == (a \o b) \o c = a \o (b \o c)

LEMMA Association ==
  ASSUME NEW S, NEW a \in Seq(S), NEW b \in Seq(S), NEW c \in Seq(S)
  PROVE  Associative(a, b, c)
BY ConcatAssociative DEF Associative

(* The world in which a handler of circuit s has come to x.                *)
KAt(K, s, x) == [K EXCEPT ![s] = x.c]
NAt(N, x) == [N EXCEPT ![Peer(x.n)] = @ \o x.out]
GAt(G, s, x) == [G EXCEPT ![s] = @ \o x.acc]

Fine(h, K, N, G, M, I, s, x) ==
  /\ Types(h, K, N, G, M, I) /\ s \in Id
  /\ Ctx(x) /\ Sound(x.c) /\ x.n = h[s].n /\ x.i = h[s].i /\ x.c.ideige = s
  /\ Mild(K[s], x.c) /\ (x.acc # <<>> => x.c.st # L4SDSCED)
  /\ World(h, KAt(K, s, x), NAt(N, x), GAt(G, s, x), M, I)

Fit(h, K, N, G, s, x) ==
  /\ s \in Id /\ Ctx(x) /\ Sound(x.c) /\ Shaped(x.c) /\ x.c \in Good
  /\ x.n = h[s].n /\ x.c.ideige = s /\ x.i = h[s].i
  /\ x.n \in Node /\ Peer(x.n) \in Node /\ Peer(x.n) # x.n
  /\ x.out \in Seq(Frame) /\ x.acc \in Seq(Message) /\ N[Peer(x.n)] \in Seq(Frame)
  /\ G[s] \in Seq(Message) /\ x.c.mbhdtx \in Seq(Entry)
  /\ KAt(K, s, x) \in [Id -> Good] /\ KAt(K, s, x)[s] = x.c
  /\ \A r \in Id : r # s => KAt(K, s, x)[r] = K[r]
  /\ NAt(N, x)[x.n] = N[x.n]
  /\ GAt(G, s, x)[s] = G[s] \o x.acc

LEMMA FineTypes ==
  ASSUME NEW h, NEW K, NEW N, NEW G, NEW M, NEW I, NEW s, NEW x,
         Fine(h, K, N, G, M, I, s, x)
  PROVE  Fit(h, K, N, G, s, x)
<1>1. /\ s \in Id /\ Ctx(x) /\ Sound(x.c) /\ x.n = h[s].n /\ x.c.ideige = s /\ x.i = h[s].i
      /\ K \in [Id -> Good] /\ N \in [Node -> Seq(Frame)] /\ G \in [Id -> Seq(Message)]
  BY DEF Fine, Types
<1>2. x.n \in Node /\ x.out \in Seq(Frame) /\ x.acc \in Seq(Message) /\ Shaped(x.c)
  BY <1>1 DEF Ctx
<1>3. Peer(x.n) \in Node /\ Peer(x.n) # x.n BY <1>2, PeerType
<1>4. x.c \in Good
  <2>1. s # 0 BY <1>1, BoundTypes DEF Id
  <2> QED BY <1>1, <2>1, GoodCircuit DEF Named
<1>5. N[Peer(x.n)] \in Seq(Frame) /\ G[s] \in Seq(Message) BY <1>1, <1>3
<1>6. /\ KAt(K, s, x) \in [Id -> Good] /\ KAt(K, s, x)[s] = x.c
      /\ \A r \in Id : r # s => KAt(K, s, x)[r] = K[r]
  BY <1>1, <1>4 DEF KAt
<1>7. NAt(N, x)[x.n] = N[x.n] BY <1>1, <1>2, <1>3 DEF NAt
<1>8. GAt(G, s, x)[s] = G[s] \o x.acc BY <1>1 DEF GAt
<1>9. x.c.mbhdtx \in Seq(Entry) BY <1>2 DEF Shaped, Typed
<1> QED BY <1>1, <1>2, <1>3, <1>4, <1>5, <1>6, <1>7, <1>8, <1>9 DEF Fit

(* A handler starts with the circuit as it is.                             *)
LEMMA FineStart ==
  ASSUME NEW h, NEW K, NEW N, NEW G, NEW M, NEW I, World(h, K, N, G, M, I),
         NEW s \in Id, NEW x, Ctx(x), Sound(x.c), x.c = K[s], x.c.ideige = s,
         x.n = h[s].n, x.i = h[s].i, x.out = <<>>, x.acc = <<>>
  PROVE  Fine(h, K, N, G, M, I, s, x)
<1>1. Types(h, K, N, G, M, I) BY DEF World
<1>2. K \in [Id -> Good] /\ N \in [Node -> Seq(Frame)] /\ G \in [Id -> Seq(Message)]
  BY <1>1 DEF Types
<1>3. KAt(K, s, x) = K BY <1>2 DEF KAt
<1>4. Peer(x.n) \in Node BY PeerType DEF Ctx
<1>5. N[Peer(x.n)] \o <<>> = N[Peer(x.n)] /\ G[s] \o <<>> = G[s]
  BY <1>2, <1>4, ConcatEmptySeq
<1>6. NAt(N, x) = N BY <1>2, <1>5 DEF NAt
<1>7. GAt(G, s, x) = G BY <1>2, <1>5 DEF GAt
<1>8. Mild(K[s], x.c)
  <2>1. K[s].mbhdtx \in Seq(Entry) BY WorldTypes
  <2>2. Len(K[s].mbhdtx) \in Nat BY <2>1, LenProperties
  <2>3. 0 \in 0 .. Len(K[s].mbhdtx) /\ Len(K[s].mbhdtx) = Len(K[s].mbhdtx) - 0
        /\ \A j \in 1 .. Len(K[s].mbhdtx) : K[s].mbhdtx[j].m = K[s].mbhdtx[0 + j].m
    BY <2>2
  <2> QED BY <2>3 DEF Mild
<1> QED BY <1>1, <1>3, <1>6, <1>7, <1>8 DEF Fine

(* A step of a handler: the circuit changes, and may take messages a.      *)
LEMMA FineTurn ==
  ASSUME NEW h, NEW K, NEW N, NEW G, NEW M, NEW I, NEW s, NEW x,
         Fine(h, K, N, G, M, I, s, x), NEW y, Result(x, y), y.out = x.out,
         Mild(x.c, y.c), NEW a \in Seq(Message), y.acc = x.acc \o a,
         y.acc # <<>> => y.c.st # L4SDSCED,
         World(h, [KAt(K, s, x) EXCEPT ![s] = y.c], NAt(N, x),
               [GAt(G, s, x) EXCEPT ![s] = @ \o a], M, I)
  PROVE  Fine(h, K, N, G, M, I, s, y)
<1>0. Fit(h, K, N, G, s, x) BY FineTypes
<1>1. /\ Types(h, K, N, G, M, I) /\ s \in Id /\ Mild(K[s], x.c)
      /\ x.n = h[s].n /\ x.i = h[s].i /\ x.c.ideige = s
  BY DEF Fine
<1>2. Ctx(y) /\ Sound(y.c) /\ y.n = x.n /\ y.i = x.i /\ y.c.ideige = x.c.ideige BY DEF Result
<1>3. K \in [Id -> Good] /\ G \in [Id -> Seq(Message)] BY <1>1 DEF Types
<1>4. [KAt(K, s, x) EXCEPT ![s] = y.c] = KAt(K, s, y) BY <1>1, <1>3 DEF KAt
<1>5. NAt(N, x) = NAt(N, y) BY <1>2 DEF NAt
<1>6. [GAt(G, s, x) EXCEPT ![s] = @ \o a] = GAt(G, s, y)
  <2>0. G[s] \in Seq(Message) /\ x.acc \in Seq(Message) BY <1>0 DEF Fit
  <2>2. Associative(G[s], x.acc, a) BY <2>0, Association
  <2>1. (G[s] \o x.acc) \o a = G[s] \o (x.acc \o a) BY <2>2 DEF Associative
  <2> QED BY <1>1, <1>3, <2>1 DEF GAt
<1>7. Mild(K[s], y.c)
  <2>1. K[s].mbhdtx \in Seq(Entry) BY <1>1, <1>3 DEF Good, Sound, Shaped, Typed
  <2>2. x.c.mbhdtx \in Seq(Entry) BY <1>0 DEF Fit
  <2>3. y.c.mbhdtx \in Seq(Entry) BY <1>2 DEF Sound, Shaped, Typed
  <2> QED BY <1>1, <2>1, <2>2, <2>3, MildTwice
<1> QED BY <1>1, <1>2, <1>4, <1>5, <1>6, <1>7 DEF Fine

(* A step that asks for nothing.                                           *)
LEMMA FineSet ==
  ASSUME NEW h, NEW K, NEW N, NEW G, NEW M, NEW I, NEW s, NEW x,
         Fine(h, K, N, G, M, I, s, x), NEW y, Result(x, y), y.out = x.out, y.acc = x.acc,
         Weaker(x.c, y.c), y.c.st = L4SDSCED => y.c.mbhdtx = <<>> /\ y.acc = <<>>
  PROVE  Fine(h, K, N, G, M, I, s, y)
<1> DEFINE L == [KAt(K, s, x) EXCEPT ![s] = y.c]
           H == GAt(G, s, x)
<1>a. World(h, KAt(K, s, x), NAt(N, x), H, M, I) /\ s \in Id BY DEF Fine
<1>c. Fit(h, K, N, G, s, x) BY FineTypes
<1>b. KAt(K, s, x) \in [Id -> Good] /\ KAt(K, s, x)[s] = x.c /\ x.c.ideige = s BY <1>c DEF Fit
<1>0. /\ World(h, KAt(K, s, x), NAt(N, x), H, M, I) /\ s \in Id
      /\ KAt(K, s, x) \in [Id -> Good] /\ KAt(K, s, x)[s] = x.c
  BY <1>a, <1>b
<1>1. y.c \in Good
  <2>1. Sound(y.c) /\ y.c.ideige = s BY <1>b DEF Result
  <2>2. s # 0 BY <1>0, BoundTypes DEF Id
  <2> QED BY <2>1, <2>2, GoodCircuit DEF Named
<1>2. L \in [Id -> Good] /\ L[s] = y.c /\ \A r \in Id : r # s => L[r] = KAt(K, s, x)[r]
  BY <1>0, <1>1
<1>3. \A r \in Id : Weaker(KAt(K, s, x)[r], L[r])
  BY <1>0, <1>2 DEF Weaker
<1> HIDE DEF L, H
<1>4. World(h, L, NAt(N, x), H, M, I) BY <1>0, <1>2, <1>3, Weaken
<1>5. x.c.mbhdtx \in Seq(Entry) /\ y.c.mbhdtx \in Seq(Entry)
  BY <1>1, <1>c DEF Good, Sound, Shaped, Typed, Fit
<1>6. Mild(x.c, y.c) BY <1>5, MildSame
<1>7. H \in [Id -> Seq(Message)] BY <1>4 DEF World, Types
<1>8. <<>> \in Seq(Message) /\ y.acc = x.acc \o <<>> /\ [H EXCEPT ![s] = @ \o <<>>] = H
  <2>1. H[s] \in Seq(Message) /\ x.acc \in Seq(Message) BY <1>0, <1>7, <1>c DEF Fit
  <2>2. H[s] \o <<>> = H[s] /\ x.acc \o <<>> = x.acc BY <2>1, ConcatEmptySeq
  <2> QED BY <1>7, <2>2, EmptySeq
<1>9. World(h, L, NAt(N, x), [H EXCEPT ![s] = @ \o <<>>], M, I) BY <1>4, <1>8
<1> QED BY <1>6, <1>8, <1>9, FineTurn DEF L, H

(* It sends a datagram.                                                    *)
LEMMA FineSend ==
  ASSUME NEW h, NEW K, NEW N, NEW G, NEW M, NEW I, NEW s, NEW x,
         Fine(h, K, N, G, M, I, s, x), NEW f \in Frame,
         Fair(h, KAt(K, s, x), GAt(G, s, x), M, s, f)
  PROVE  Fine(h, K, N, G, M, I, s, Send(x, f))
<1> DEFINE y == Send(x, f)
           m == Peer(h[s].n)
           L == KAt(K, s, x)
           H == GAt(G, s, x)
           P == NAt(N, x)
<1>0. Fit(h, K, N, G, s, x) BY FineTypes
<1>a. /\ Ctx(x) /\ x.n = h[s].n /\ x.n \in Node /\ Peer(x.n) \in Node
      /\ N[Peer(x.n)] \in Seq(Frame) /\ x.out \in Seq(Frame)
  BY <1>0 DEF Fit
<1>1. Ctx(y) /\ y.c = x.c /\ y.n = x.n /\ y.i = x.i BY <1>a, SendType
<1>2. y.out = Append(x.out, f) /\ y.acc = x.acc BY <1>a DEF Send, Ctx, IsRec, ContextFields
<1>3. <<f>> \in Seq(Frame) /\ Len(<<f>>) = 1 /\ <<f>>[1] = f OBVIOUS
<1>4. Append(x.out, f) = x.out \o <<f>> BY <1>a, AppendIsConcat
<1>5. World(h, L, P, H, M, I) /\ s \in Id BY DEF Fine
<1>6. \A k \in 1 .. Len(<<f>>) : Fair(h, L, H, M, s, <<f>>[k]) BY <1>3
<1> HIDE DEF L, H, P, y
<1>7. World(h, L, [P EXCEPT ![m] = @ \o <<f>>], H, M, I) BY <1>3, <1>5, <1>6, Post
<1>8. [P EXCEPT ![m] = @ \o <<f>>] = NAt(N, y)
  <2>1. N \in [Node -> Seq(Frame)] BY DEF Fine, Types
  <2>2. (N[m] \o x.out) \o <<f>> = N[m] \o (x.out \o <<f>>)
    <3>1. N[m] \in Seq(Frame) BY <1>a
    <3>2. Associative(N[m], x.out, <<f>>) BY <1>3, <1>a, <3>1, Association
    <3> QED BY <3>2 DEF Associative
  <2>3. x.n = h[s].n /\ y.n = h[s].n /\ m \in Node BY <1>1, <1>a
  <2> QED BY <1>2, <1>4, <2>1, <2>2, <2>3 DEF P, NAt
<1>9. L = KAt(K, s, y) /\ H = GAt(G, s, y) BY <1>1, <1>2 DEF L, H, KAt, GAt
<1> QED BY <1>1, <1>2, <1>7, <1>8, <1>9 DEF Fine, y

(* What a connected circuit sends: an acknowledgement, or a message of its *)
(* window with one.                                                        *)
LEMMA FairFrames ==
  ASSUME NEW h, NEW K, NEW N, NEW G, NEW M, NEW I, World(h, K, N, G, M, I),
         NEW s \in Id, IsUp(K, s), NEW d, d.l4vr = K[s].l4vr
  PROVE  /\ Fair(h, K, G, M, s, WithAck(d, ToPartner(K[s], "INFACK")))
         /\ \A j \in 1 .. Len(K[s].mbhdtx) : j <= K[s].window =>
              Fair(h, K, G, M, s,
                   [WithAck(d, ToPartner(K[s], "INFTRA"))
                      EXCEPT !.a = (K[s].l4rxvs + j - 1) % Mod, !.m = K[s].mbhdtx[j].m])
<1> DEFINE c == K[s]
           b == Base(K, M, s)
<1>1. /\ c.idpart = h[s].p /\ c.window = h[s].w
      /\ c.l4rxvs = b % Mod /\ c.l4vr = Len(G[s]) % Mod
  BY StatesDiffer DEF World, Partner, Placed, IsUp
<1>2. b >= 0 /\ \A j \in 1 .. Len(c.mbhdtx) : c.mbhdtx[j].m = [from |-> s, no |-> b + j]
  BY StatesDiffer DEF World, Listed, IsUp
<1>3. /\ b \in Int /\ Len(c.mbhdtx) \in Nat /\ M[s] \in Nat /\ h[s].w \in Int
      /\ b = M[s] - Len(c.mbhdtx)
  BY WorldTypes, ModType DEF Base
<1>4. Fair(h, K, G, M, s, WithAck(d, ToPartner(c, "INFACK")))
  BY <1>1 DEF Fair, Token, Carries, WithAck, ToPartner, Header
<1>5. ASSUME NEW j \in 1 .. Len(c.mbhdtx), j <= c.window
      PROVE  Fair(h, K, G, M, s,
                  [WithAck(d, ToPartner(c, "INFTRA"))
                     EXCEPT !.a = (c.l4rxvs + j - 1) % Mod, !.m = c.mbhdtx[j].m])
  <2> DEFINE m == c.mbhdtx[j].m
             a == (c.l4rxvs + j - 1) % Mod
             f == [WithAck(d, ToPartner(c, "INFTRA")) EXCEPT !.a = a, !.m = m]
  <2>0. m = [from |-> s, no |-> b + j] BY <1>2
  <2>1. m.from = s /\ m.no = b + j
    <3> HIDE DEF m, b
    <3> QED BY <2>0
  <2>2. a = (m.no - 1) % Mod
    <3>1. ((b % Mod) + (j - 1)) % Mod = (b + (j - 1)) % Mod BY <1>3, ModInt
    <3>2. b % Mod \in Int BY <1>3, ModInt
    <3>3. (b % Mod) + (j - 1) = c.l4rxvs + j - 1 /\ b + (j - 1) = m.no - 1
      BY <1>1, <1>3, <2>1, <3>2
    <3> QED BY <3>1, <3>3
  <2>3. m.no \in 1 .. M[s] /\ b < m.no /\ m.no <= b + h[s].w
    <3>1. b \in Int /\ b >= 0 /\ h[s].w \in Int /\ M[s] \in Nat BY <1>2, <1>3
    <3>2. j <= h[s].w /\ b + Len(c.mbhdtx) = M[s] BY <1>1, <1>3, <1>5
    <3>3. j \in 1 .. Len(c.mbhdtx) /\ Len(c.mbhdtx) \in Nat BY <1>3
    <3> HIDE DEF m, b, c
    <3> QED BY <2>1, <3>1, <3>2, <3>3
  <2> HIDE DEF m, a
  <2>4. f.op = "INFTRA" /\ f.id = c.idpart /\ f.b = d.l4vr /\ f.a = a /\ f.m = m
    BY DEF WithAck, ToPartner, Header
  <2> HIDE DEF f, b, c
  <2>5. Numbered(f) BY <2>2, <2>4 DEF Numbered
  <2>6. Fair(h, K, G, M, s, f) BY <1>1, <2>1, <2>3, <2>4, <2>5 DEF Fair, Token, Carries, b, c
  <2> QED BY <2>6 DEF f, m, a, c
<1> QED BY <1>4, <1>5

LEMMA AckSentWeaker ==
  ASSUME NEW c, Shaped(c)
  PROVE  /\ Weaker(c, AckSent(c)) /\ AckSent(c).l4vr = c.l4vr /\ AckSent(c).st = c.st
         /\ \A op : ToPartner(AckSent(c), op) = ToPartner(c, op)
         /\ AckSent(c).mbhdtx = c.mbhdtx /\ AckSent(c).l4rxvs = c.l4rxvs
         /\ AckSent(c).window = c.window
<1>1. IsRec(c, CircuitFields) BY DEF Shaped
<1>2. /\ AckSent(c).st = c.st /\ AckSent(c).idpart = c.idpart /\ AckSent(c).idxpar = c.idxpar
      /\ AckSent(c).mbhdtx = c.mbhdtx /\ AckSent(c).window = c.window
      /\ AckSent(c).mbhdos = c.mbhdos /\ AckSent(c).l4rxvs = c.l4rxvs /\ AckSent(c).l4vr = c.l4vr
  BY <1>1 DEF AckSent, IsRec, CircuitFields
<1> QED BY <1>2 DEF Weaker, ToPartner

(* An acknowledgement goes out; so does an open message.                   *)
LEMMA FineAck ==
  ASSUME NEW h, NEW K, NEW N, NEW G, NEW M, NEW I, NEW s, NEW x,
         Fine(h, K, N, G, M, I, s, x), x.c.st = L4SIXFER
  PROVE  Fine(h, K, N, G, M, I, s, SndAck(x))
<1>0. Fit(h, K, N, G, s, x) BY FineTypes
<1> DEFINE c == AckSent(x.c)
           y == [x EXCEPT !.c = c]
           f == WithAck(x.c, ToPartner(x.c, "INFACK"))
           L == KAt(K, s, y)
<1>1. Ctx(x) /\ Sound(x.c) /\ Shaped(x.c) BY <1>0 DEF Fit
<1>2. Sound(c) /\ c.ideige = x.c.ideige BY <1>1, AckSentAlike, AlikeSound DEF Alike
<1>3. /\ Weaker(x.c, c) /\ c.l4vr = x.c.l4vr /\ c.st = x.c.st
      /\ ToPartner(c, "INFACK") = ToPartner(x.c, "INFACK")
  BY <1>1, AckSentWeaker
<1> HIDE DEF c
<1>4. Result(x, y) /\ y.c = c /\ y.out = x.out /\ y.acc = x.acc
  BY <1>1, <1>2, SetSound, SetCircuit DEF Sound
<1> HIDE DEF y
<1>5. Fine(h, K, N, G, M, I, s, y) BY <1>3, <1>4, FineSet, StatesDiffer
<1>6. Fit(h, K, N, G, s, y) BY <1>5, FineTypes
<1>7. L[s] = y.c /\ s \in Id BY <1>6 DEF Fit
<1>8. World(h, L, NAt(N, y), GAt(G, s, y), M, I) BY <1>5 DEF Fine
<1> HIDE DEF L
<1>9. Fair(h, L, GAt(G, s, y), M, s, f)
  <2>1. IsUp(L, s) /\ x.c.l4vr = L[s].l4vr BY <1>3, <1>4, <1>7 DEF IsUp
  <2>2. Fair(h, L, GAt(G, s, y), M, s, WithAck(x.c, ToPartner(L[s], "INFACK")))
    BY <1>7, <1>8, <2>1, FairFrames
  <2> QED BY <1>3, <1>4, <1>7, <2>2
<1>10. f \in Frame BY <1>1, WithAckType
<1> HIDE DEF f
<1>11. Fine(h, K, N, G, M, I, s, Send(y, f)) BY <1>5, <1>9, <1>10, FineSend DEF L
<1> QED BY <1>11 DEF SndAck, y, c, f

LEMMA FineFrm ==
  ASSUME NEW h, NEW K, NEW N, NEW G, NEW M, NEW I, NEW s, NEW x,
         Fine(h, K, N, G, M, I, s, x), x.c.st = L4SIXFER,
         NEW j \in 1 .. Len(x.c.mbhdtx), j <= x.c.window,
         NEW a, a = (x.c.l4rxvs + j - 1) % Mod, NEW m, m = x.c.mbhdtx[j].m
  PROVE  Fine(h, K, N, G, M, I, s, SndFrm(x, a, m))
<1>0. Fit(h, K, N, G, s, x) BY FineTypes
<1> DEFINE c == AckSent(x.c)
           y == [x EXCEPT !.c = c]
           f == [WithAck(x.c, ToPartner(x.c, "INFTRA")) EXCEPT !.a = a, !.m = m]
           L == KAt(K, s, y)
<1>1. Ctx(x) /\ Sound(x.c) /\ Shaped(x.c) /\ x.c.mbhdtx \in Seq(Entry) BY <1>0 DEF Fit
<1>2. Sound(c) /\ c.ideige = x.c.ideige BY <1>1, AckSentAlike, AlikeSound DEF Alike
<1>3. /\ Weaker(x.c, c) /\ c.l4vr = x.c.l4vr /\ c.st = x.c.st /\ c.mbhdtx = x.c.mbhdtx
      /\ c.l4rxvs = x.c.l4rxvs /\ c.window = x.c.window
      /\ ToPartner(c, "INFTRA") = ToPartner(x.c, "INFTRA")
  BY <1>1, AckSentWeaker
<1> HIDE DEF c
<1>4. Result(x, y) /\ y.c = c /\ y.out = x.out /\ y.acc = x.acc
  BY <1>1, <1>2, SetSound, SetCircuit DEF Sound
<1> HIDE DEF y
<1>5. Fine(h, K, N, G, M, I, s, y) BY <1>3, <1>4, FineSet, StatesDiffer
<1>6. Fit(h, K, N, G, s, y) BY <1>5, FineTypes
<1>7. L[s] = c /\ s \in Id BY <1>4, <1>6 DEF Fit
<1>8. World(h, L, NAt(N, y), GAt(G, s, y), M, I) BY <1>5 DEF Fine
<1> HIDE DEF L
<1>9. Fair(h, L, GAt(G, s, y), M, s, f)
  <2>1. IsUp(L, s) /\ x.c.l4vr = L[s].l4vr BY <1>3, <1>7 DEF IsUp
  <2>2. Fair(h, L, GAt(G, s, y), M, s,
             [WithAck(x.c, ToPartner(L[s], "INFTRA"))
                EXCEPT !.a = (L[s].l4rxvs + j - 1) % Mod, !.m = L[s].mbhdtx[j].m])
    BY <1>3, <1>7, <1>8, <2>1, FairFrames
  <2> QED BY <1>3, <1>7, <2>2
<1>10. f \in Frame
  <2>1. x.c.mbhdtx[j] \in Entry BY <1>1, ElementOfSeq
  <2>2. m \in Message BY <2>1 DEF Entry
  <2>3. a \in Nat
    <3>1. x.c.l4rxvs + j - 1 \in Int
      <4>1. x.c.l4rxvs \in 0 .. Mod - 1 BY <1>1 DEF Shaped, Typed
      <4>2. x.c.l4rxvs \in Int BY <4>1, ModType
      <4>3. Len(x.c.mbhdtx) \in Nat BY <1>1, LenProperties
      <4> QED BY <4>2, <4>3
    <3>2. a \in 0 .. Mod - 1 BY <3>1, ModInt
    <3> QED BY <3>2
  <2> QED BY <1>1, <2>2, <2>3, WithAckType
<1> HIDE DEF f
<1>11. Fine(h, K, N, G, M, I, s, Send(y, f)) BY <1>5, <1>9, <1>10, FineSend DEF L
<1> QED BY <1>11 DEF SndFrm, y, c, f

-----------------------------------------------------------------------------
(* A datagram to m that asks for nothing.                                  *)
LEMMA Chat ==
  ASSUME NEW h, NEW K, NEW N, NEW G, NEW M, NEW I, World(h, K, N, G, M, I),
         NEW m \in Node, NEW f \in Frame, ~Token(f), ~Carries(f)
  PROVE  World(h, K, Then(N, m, f), G, M, I)
<1> DEFINE P == Then(N, m, f)
<1>0. N \in [Node -> Seq(Frame)] /\ h \in [Id -> Reg] BY DEF World, Types
<1>1. /\ P \in [Node -> Seq(Frame)]
      /\ \A k \in Node : \A j \in 1 .. Len(N[k]) : j \in 1 .. Len(P[k]) /\ P[k][j] = N[k][j]
  <2>1. N \in [Node -> Seq(Frame)] BY <1>0
  <2> HIDE DEF P
  <2>2. Then(N, m, f) \in [Node -> Seq(Frame)] BY <2>1, ThenType
  <2>3. ASSUME NEW k \in Node, NEW j \in 1 .. Len(N[k])
        PROVE  j \in 1 .. Len(Then(N, m, f)[k]) /\ Then(N, m, f)[k][j] = N[k][j]
    BY <2>1, ThenType
  <2> QED BY <2>2, <2>3 DEF P
<1>2. \A r \in Id : Confirms(h, K, P, G, M, r) /\ Arrives(h, K, P, G, M, r)
  BY <1>0, ThenHeard DEF World
<1>5. /\ Once(P)
      /\ \A k \in Node : \A j \in 1 .. Len(P[k]) : Asked(h, K, G, I, k, P[k][j])
  <2>1. Asked(h, K, G, I, m, f) BY DEF Asked
  <2>2. /\ Once(N)
        /\ \A k \in Node : \A j \in 1 .. Len(N[k]) : Asked(h, K, G, I, k, N[k][j])
    BY DEF World
  <2> QED BY <1>0, <2>1, <2>2, ThenAsked DEF P
<1> HIDE DEF P
<1>3. \A r \in Id : Agreed(h, K, P, r)
  <2> SUFFICES ASSUME NEW r \in Id PROVE Agreed(h, K, P, r) OBVIOUS
  <2>1. Agreed(h, K, N, r) /\ h[r].n \in Node BY WorldTypes DEF World
  <2> QED BY <1>1, <2>1 DEF Agreed
<1>7. Types(h, K, P, G, M, I) BY <1>1 DEF World, Types
<1> QED BY <1>2, <1>3, <1>5, <1>7 DEF World, P

LEMMA FineReply ==
  ASSUME NEW h, NEW K, NEW N, NEW G, NEW M, NEW I, NEW s, NEW x,
         Fine(h, K, N, G, M, I, s, x), NEW f \in Frame, ~Token(f), ~Carries(f)
  PROVE  Fine(h, K, N, G, M, I, s, Send(x, f))
<1>1. Fair(h, KAt(K, s, x), GAt(G, s, x), M, s, f) BY DEF Fair
<1> QED BY <1>1, FineSend

(* The circuit changes, and such a datagram goes out.                      *)
LEMMA FineTell ==
  ASSUME NEW h, NEW K, NEW N, NEW G, NEW M, NEW I, NEW s, NEW x,
         Fine(h, K, N, G, M, I, s, x), NEW c, Sound(c), c.ideige = x.c.ideige,
         Weaker(x.c, c), c.st = L4SDSCED => c.mbhdtx = <<>> /\ x.acc = <<>>
  PROVE  /\ Fine(h, K, N, G, M, I, s, [x EXCEPT !.c = c])
         /\ \A f \in Frame : ~Token(f) /\ ~Carries(f) =>
              Fine(h, K, N, G, M, I, s, Send([x EXCEPT !.c = c], f))
<1> DEFINE y == [x EXCEPT !.c = c]
<1>0. Fit(h, K, N, G, s, x) BY FineTypes
<1>1. Ctx(x) BY <1>0 DEF Fit
<1>2. Shaped(c) BY DEF Sound
<1>3. Result(x, y) /\ y.c = c /\ y.out = x.out /\ y.acc = x.acc
  BY <1>1, <1>2, SetSound, SetCircuit
<1> HIDE DEF y
<1>4. Fine(h, K, N, G, M, I, s, y) BY <1>3, FineSet
<1> QED BY <1>4, FineReply DEF y

(* The circuit ends.                                                       *)
LEMMA L4nstaEnds ==
  ASSUME NEW c, Shaped(c)
  PROVE  L4nsta(c).mbhdtx = <<>> /\ L4nsta(c).acktim = FALSE
BY ClrCirShaped DEF L4nsta, ClrCir, Shaped, IsRec, CircuitFields

LEMMA FineDie ==
  ASSUME NEW h, NEW K, NEW N, NEW G, NEW M, NEW I, NEW s, NEW x,
         Fine(h, K, N, G, M, I, s, x), x.acc = <<>>,
         NEW c, Shaped(c), c.ideige = x.c.ideige
  PROVE  /\ Fine(h, K, N, G, M, I, s, [x EXCEPT !.c = L4nsta(c)])
         /\ \A f \in Frame : ~Token(f) /\ ~Carries(f) =>
              Fine(h, K, N, G, M, I, s, Send([x EXCEPT !.c = L4nsta(c)], f))
<1> DEFINE d == L4nsta(c)
<1>1. Sound(d) /\ d.st = L4SDSCED /\ d.ideige = c.ideige BY L4nstaSound
<1>2. d.mbhdtx = <<>> BY L4nstaEnds
<1> HIDE DEF d
<1>3. Weaker(x.c, d) BY <1>1 DEF Weaker
<1> QED BY <1>1, <1>2, <1>3, FineTell DEF d

(* It asks its partner to end, too.                                        *)
LEMMA FineEndCir ==
  ASSUME NEW h, NEW K, NEW N, NEW G, NEW M, NEW I, NEW s, NEW x,
         Fine(h, K, N, G, M, I, s, x), x.c.st = L4SIXFER
  PROVE  Fine(h, K, N, G, M, I, s, EndCir(x))
<1>0. Fit(h, K, N, G, s, x) BY FineTypes
<1>1. Ctx(x) /\ Shaped(x.c) BY <1>0 DEF Fit
<1> DEFINE b == ClrCir(x.c)
           c == [[b EXCEPT !.traout = TRUE] EXCEPT !.st = L4SDSCRQ]
           f == ToPartner(b, "DISREQ")
<1>2. Result(x, EndCir(x)) BY <1>1, EndCirSound
<1>3. Shaped(b) /\ b.mbhdtx = x.c.mbhdtx BY <1>1, ClrCirShaped
<1>4. b.idpart = x.c.idpart /\ b.idxpar = x.c.idxpar
  BY <1>1 DEF ClrCir, Shaped, IsRec, CircuitFields
<1> HIDE DEF b
<1>5. EndCir(x) = Send([x EXCEPT !.c = c], f) /\ EndCir(x).c = c
  BY <1>1 DEF EndCir, SDisrq, Send, b, Ctx, IsRec, ContextFields
<1>6. Sound(c) /\ c.ideige = x.c.ideige BY <1>2, <1>5 DEF Result
<1>7. Weaker(x.c, c)
  <2>1. c.st = L4SDSCRQ /\ c.mbhdtx = b.mbhdtx /\ c.idpart = b.idpart /\ c.idxpar = b.idxpar
    BY <1>3 DEF Shaped, IsRec, CircuitFields
  <2> HIDE DEF c
  <2> QED BY <1>3, <1>4, <2>1, StatesDiffer DEF Weaker
<1>8. f \in Frame /\ ~Token(f) /\ ~Carries(f)
  <2>1. f \in Frame /\ f.op = "DISREQ" BY <1>3, ToPartnerType DEF Opcode
  <2> QED BY <2>1 DEF Token, Carries
<1>9. c.st # L4SDSCED
  <2>1. c.st = L4SDSCRQ BY <1>3 DEF Shaped, IsRec, CircuitFields
  <2> QED BY <2>1, StatesDiffer
<1> HIDE DEF c, f
<1> QED BY <1>5, <1>6, <1>7, <1>8, <1>9, FineTell

-----------------------------------------------------------------------------
(* What s may rely on when it reads f.                                     *)

Acks(h, K, N, G, M, s, f) ==
  LET l == N[h[s].n]
  IN  /\ Ahead(K, M, s, f) <= Len(G[h[s].p]) - Base(K, M, s)
      /\ \A j \in 1 .. Len(l) :
           Heard(l, IsUp(K, s), s, j) => Ahead(K, M, s, f) <= Ahead(K, M, s, l[j])

Brings(h, K, N, G, M, s, f) ==
  LET no == f.m.no
      R  == Len(G[s])
      w  == h[s].w
  IN  /\ f.m.from = h[s].p /\ no \in 1 .. M[h[s].p] /\ Numbered(f)
      /\ R - w <= no - 1 /\ no - 1 < R + w
      /\ Timely(h, K, N, G, M, s, no)

LEMMA HeadSays ==
  ASSUME NEW h, NEW K, NEW N, NEW G, NEW M, NEW I, World(h, K, N, G, M, I),
         NEW n \in Node, N[n] # <<>>, NEW s \in Id, h[s].n = n, IsUp(K, s),
         Carries(Head(N[n])), Head(N[n]).id = s
  PROVE  /\ Acks(h, K, After(N, n), G, M, s, Head(N[n]))
         /\ Head(N[n]).op = "INFTRA" => Brings(h, K, After(N, n), G, M, s, Head(N[n]))
<1> DEFINE f == Head(N[n])
           l == N[n]
           P == After(N, n)
           t == P[n]
<1>0. N \in [Node -> Seq(Frame)] BY DEF World, Types
<1>1. /\ 1 \in 1 .. Len(l) /\ f = l[1]
      /\ \A j \in 1 .. Len(t) : j + 1 \in 1 .. Len(l) /\ t[j] = l[j + 1]
  <2>1. 1 \in 1 .. Len(N[n]) /\ Head(N[n]) = N[n][1] BY <1>0, PopType
  <2>2. \A k \in Node : \A j \in 1 .. Len(After(N, n)[k]) :
          Back(n, k, j) \in 1 .. Len(N[k]) /\ After(N, n)[k][j] = N[k][Back(n, k, j)]
    BY <1>0, PopType
  <2>3. \A j : Back(n, n, j) = j + 1 BY DEF Back
  <2> QED BY <2>1, <2>2, <2>3
<1>2. Heard(l, IsUp(K, s), s, 1) BY <1>1 DEF Heard
<1>3. ASSUME NEW j \in 1 .. Len(t), Heard(t, IsUp(K, s), s, j)
      PROVE  j + 1 \in 1 .. Len(l) /\ t[j] = l[j + 1] /\ Heard(l, IsUp(K, s), s, j + 1)
  BY <1>1, <1>3 DEF Heard
<1>4. K[s].st # L4SDSCED BY StatesDiffer DEF IsUp
<1> HIDE DEF f, l, P, t
<1>5. Confirms(h, K, N, G, M, s) /\ Arrives(h, K, N, G, M, s) BY DEF World
<1>6. \A j \in 1 .. Len(l) : Heard(l, IsUp(K, s), s, j) => Confirming(h, K, N, G, M, s, j)
  BY <1>4, <1>5 DEF Confirms, l
<1>7. \A j \in 1 .. Len(l) : Heard(l, IsUp(K, s), s, j) /\ l[j].op = "INFTRA"
        => Arriving(h, K, N, G, M, s, j)
  BY <1>4, <1>5 DEF Arrives, l
<1>8. Acks(h, K, P, G, M, s, f)
  <2>1. Ahead(K, M, s, f) <= Len(G[h[s].p]) - Base(K, M, s)
    BY <1>1, <1>2, <1>6 DEF Confirming, l
  <2>2. ASSUME NEW j \in 1 .. Len(t), Heard(t, IsUp(K, s), s, j)
        PROVE  Ahead(K, M, s, f) <= Ahead(K, M, s, t[j])
    <3>1. j + 1 \in 1 .. Len(l) /\ t[j] = l[j + 1] /\ Heard(l, IsUp(K, s), s, j + 1)
      BY <1>3, <2>2
    <3>2. Confirming(h, K, N, G, M, s, j + 1) BY <1>6, <3>1
    <3>3. 1 \in 1 .. (j + 1) - 1 OBVIOUS
    <3> QED BY <1>1, <1>2, <3>1, <3>2, <3>3 DEF Confirming, l
  <2> QED BY <2>1, <2>2 DEF Acks, t
<1>9. ASSUME f.op = "INFTRA" PROVE Brings(h, K, P, G, M, s, f)
  <2>1. Arriving(h, K, N, G, M, s, 1) BY <1>1, <1>2, <1>7, <1>9
  <2>2. /\ f.m.from = h[s].p /\ f.m.no \in 1 .. M[h[s].p] /\ Numbered(f)
        /\ Len(G[s]) - h[s].w <= f.m.no - 1 /\ f.m.no - 1 < Len(G[s]) + h[s].w
        /\ K[h[s].p].st # L4SDSCED => f.m.no <= Base(K, M, h[s].p) + h[s].w
    BY <1>1, <2>1 DEF Arriving, l
  <2>3. ASSUME NEW j \in 1 .. Len(t), Heard(t, IsUp(K, s), s, j), t[j].op = "INFTRA"
        PROVE  f.m.no - h[s].w <= t[j].m.no - 1
    <3>1. j + 1 \in 1 .. Len(l) /\ t[j] = l[j + 1] /\ Heard(l, IsUp(K, s), s, j + 1)
      BY <1>3, <2>3
    <3>2. Arriving(h, K, N, G, M, s, j + 1) BY <1>7, <2>3, <3>1
    <3>3. 1 \in 1 .. (j + 1) - 1 OBVIOUS
    <3> QED BY <1>1, <1>2, <1>9, <3>1, <3>2, <3>3 DEF Arriving, l
  <2>4. h[s].p \in Id BY OpenPartner
  <2>5. f.m.no \in Nat /\ f.m.no <= M[h[s].p]
    <3>1. M[h[s].p] \in Nat BY <2>4, WorldTypes
    <3> QED BY <2>2, <3>1
  <2>6. Timely(h, K, P, G, M, s, f.m.no) BY <2>2, <2>3, <2>5 DEF Timely, t
  <2> QED BY <2>2, <2>6 DEF Brings
<1> QED BY <1>8, <1>9 DEF f, P

(* The same holds when the circuit has changed, or sent a datagram.        *)
LEMMA TimelySame ==
  ASSUME NEW h, NEW K, NEW N, NEW G, NEW M, NEW s, NEW no, NEW L, NEW P, NEW H,
         L[h[s].p] = K[h[s].p], IsUp(L, s) = IsUp(K, s), P[h[s].n] = N[h[s].n],
         Timely(h, K, N, G, M, s, no)
  PROVE  Timely(h, L, P, H, M, s, no)
BY DEF Timely, Base

LEMMA BringsSame ==
  ASSUME NEW h, NEW K, NEW N, NEW G, NEW M, NEW s, NEW f, NEW L, NEW P, NEW H,
         L[h[s].p] = K[h[s].p], IsUp(L, s) = IsUp(K, s), P[h[s].n] = N[h[s].n],
         H[s] = G[s], Brings(h, K, N, G, M, s, f)
  PROVE  Brings(h, L, P, H, M, s, f)
BY TimelySame DEF Brings

LEMMA NotPartner ==
  ASSUME NEW h, NEW K, NEW N, NEW G, NEW M, NEW I, World(h, K, N, G, M, I),
         NEW s \in Id, IsUp(K, s)
  PROVE  h[s].p \in Id /\ h[s].p # s /\ h[h[s].p].n = Peer(h[s].n)
<1>1. h[s].p \in Id BY OpenPartner
<1>2. h[s].p # 0 BY <1>1, BoundTypes DEF Id
<1>3. h[h[s].p].n = Peer(h[s].n) BY <1>2, StatesDiffer DEF World, Agreed, IsUp
<1>4. h[s].n \in Node /\ Peer(h[s].n) # h[s].n BY WorldTypes, PeerType
<1> QED BY <1>1, <1>3, <1>4

(* A message that passes the window test is where its number says.         *)
LEMMA Offset ==
  ASSUME NEW h, NEW K, NEW N, NEW G, NEW M, NEW I, World(h, K, N, G, M, I),
         NEW s \in Id, IsUp(K, s), NEW f \in Frame, NEW P, Brings(h, K, P, G, M, s, f),
         (f.a - K[s].l4vr) % Mod < K[s].window
  PROVE  /\ f.m.no = Len(G[s]) + ((f.a - K[s].l4vr) % Mod) + 1
         /\ f.m = [from |-> h[s].p, no |-> f.m.no]
         /\ (f.a - K[s].l4vr) % Mod < h[s].w
<1> DEFINE no == f.m.no
           R  == Len(G[s])
           w  == h[s].w
           o  == (f.a - K[s].l4vr) % Mod
           v  == (no - 1) - R
<1>0. f.m.from = h[s].p /\ f.a = (no - 1) % Mod BY DEF Brings, Numbered
<1>1. no \in 1 .. M[h[s].p] /\ R - w <= no - 1 /\ no - 1 < R + w BY DEF Brings
<1>2. K[s].window = w /\ K[s].l4vr = R % Mod BY DEF World, Partner, Placed, IsUp
<1>3. R \in Int /\ w \in Int /\ 2 * w <= Mod /\ M[h[s].p] \in Int
  <2>1. h[s].p # 0 /\ h[s].p \in Id BY OpenPartner, BoundTypes DEF Id
  <2>2. 2 * h[s].w <= Mod BY <2>1 DEF World, Agreed
  <2> QED BY <2>1, <2>2, WorldTypes, ModType
<1>4. no \in Int BY <1>1, <1>3
<1>5. f.m \in Message BY DEF Frame, Datagram
<1>6. f.m = [from |-> f.m.from, no |-> f.m.no] BY <1>5 DEF Message
<1>7. o = v % Mod
  <2>1. (no - 1) \in Int BY <1>4
  <2>2. /\ (((no - 1) % Mod) - (R % Mod)) % Mod = ((no - 1) - (R % Mod)) % Mod
        /\ ((no - 1) - (R % Mod)) % Mod = ((no - 1) - R) % Mod
    <3>1. (R % Mod) \in Int BY <1>3, ModInt
    <3> QED BY <1>3, <2>1, <3>1, ModMod, ModType
  <2> QED BY <1>0, <1>2, <2>2
<1>8. v \in Int /\ -w <= v /\ v < w
  <2>1. ASSUME NEW a \in Int, NEW b \in Int, NEW c \in Int, b - c <= a - 1, a - 1 < b + c
        PROVE  (a - 1) - b \in Int /\ -c <= (a - 1) - b /\ (a - 1) - b < c
    BY <2>1
  <2>2. R \in Int /\ w \in Int BY <1>3
  <2> HIDE DEF no, R, w
  <2> QED BY <1>1, <1>4, <2>1, <2>2
<1>9. o < w BY <1>2
<1> HIDE DEF o, v, w
<1>10. Mod \in Nat \ {0} BY ModType
<1>11. CASE v >= 0
  <2>1. v \in 0 .. Mod - 1 BY <1>3, <1>8, <1>10, <1>11
  <2>2. o = v BY <1>7, <1>10, <2>1, ModSmall
  <2>3. no = R + v + 1 BY <1>3, <1>4 DEF v
  <2>4. f.m = [from |-> h[s].p, no |-> f.m.no] BY <1>0, <1>6
  <2>5. no = R + o + 1 BY <2>2, <2>3
  <2> QED BY <1>9, <2>4, <2>5 DEF o, w
<1>12. CASE v < 0
  <2>1. v % Mod = v + Mod
    <3>1. -Mod <= v BY <1>3, <1>8, <1>10
    <3> QED BY <1>8, <1>10, <1>12, <3>1, ModNeg
  <2> QED BY <1>3, <1>7, <1>8, <1>9, <1>10, <2>1
<1> QED BY <1>8, <1>11, <1>12

-----------------------------------------------------------------------------
(* chksts: so many messages leave the list.                                *)
Acked(c, f) ==
  LET ofs == (f.b - c.l4rxvs) % Mod IN IF ofs <= Fropen(c) THEN ofs ELSE 0

LEMMA AckedType ==
  ASSUME NEW c, Sound(c), c.st # L4SDSCED, NEW f \in Frame
  PROVE  Acked(c, f) \in Nat /\ Acked(c, f) <= Len(c.mbhdtx) /\ Acked(c, f) <= Fropen(c)
<1>1. c.l4rxvs \in Int /\ f.b \in Int BY ModType DEF Sound, Shaped, Typed, Frame, Datagram
<1>2. f.b - c.l4rxvs \in Int BY <1>1
<1>3. (f.b - c.l4rxvs) % Mod \in 0 .. Mod - 1 BY <1>2, ModInt
<1>4. Fropen(c) \in 0 .. Mod - 1 /\ Fropen(c) <= Len(c.mbhdtx)
  BY FropenType DEF Sound, Windowed
<1>5. c.mbhdtx \in Seq(Entry) BY DEF Sound, Shaped, Typed
<1>6. Len(c.mbhdtx) \in Nat BY <1>5, LenProperties
<1> DEFINE o == (f.b - c.l4rxvs) % Mod
<1>7. Acked(c, f) = IF o <= Fropen(c) THEN o ELSE 0 BY DEF Acked
<1> HIDE DEF o
<1>8. o \in 0 .. Mod - 1 BY <1>3 DEF o
<1> QED BY <1>4, <1>6, <1>7, <1>8, ModType

LEMMA AckedConfirms ==
  ASSUME NEW h, NEW K, NEW N, NEW G, NEW M, NEW I, World(h, K, N, G, M, I),
         NEW s \in Id, IsUp(K, s), NEW f \in Frame, Acks(h, K, N, G, M, s, f),
         NEW d \in Good, Drops(K[s], d, Acked(K[s], f))
  PROVE  World(h, [K EXCEPT ![s] = d], N, G, M, I)
<1> DEFINE c == K[s]
           q == h[s].p
           k == Acked(c, f)
           A == Ahead(K, M, s, f)
           l == N[h[s].n]
<1>1. c.st # L4SDSCED BY StatesDiffer DEF IsUp
<1>2. Sound(c) BY WorldTypes DEF Good
<1>3. k \in Nat /\ k <= Len(c.mbhdtx) BY <1>1, <1>2, AckedType
<1>4. q \in Id /\ q # 0 BY OpenPartner, BoundTypes DEF Id
<1>5. Base(K, M, s) \in Int /\ Len(G[q]) \in Int BY <1>4, WorldTypes
<1>6. (f.b - c.l4rxvs) % Mod = A
  <2>1. c.l4rxvs = Base(K, M, s) % Mod BY DEF World, Placed, IsUp
  <2>2. f.b \in Int BY DEF Frame, Datagram
  <2>3. \A y \in Int : (f.b - (y % Mod)) % Mod = (f.b - y) % Mod
    BY <2>2, ModMod, ModType
  <2>4. (f.b - (Base(K, M, s) % Mod)) % Mod = (f.b - Base(K, M, s)) % Mod BY <1>5, <2>3
  <2> QED BY <2>1, <2>4 DEF Ahead
<1>7. k = A \/ k = 0 BY <1>6 DEF Acked
<1>8. Base(K, M, s) <= Len(G[q]) BY <1>1, <1>4 DEF World, Listed
<1>9. A <= Len(G[q]) - Base(K, M, s) BY DEF Acks
<1>10. k <= Len(G[q]) - Base(K, M, s)
  <2> HIDE DEF k, A
  <2> QED BY <1>5, <1>7, <1>8, <1>9
<1>11. ASSUME NEW j \in 1 .. Len(l), Heard(l, IsUp(K, s), s, j)
       PROVE  k <= Ahead(K, M, s, l[j])
  <2>1. A <= Ahead(K, M, s, l[j]) BY <1>11 DEF Acks
  <2>2. l[j] \in Frame
    <3>1. l \in Seq(Frame) BY WorldTypes
    <3> QED BY <3>1, ElementOfSeq
  <2>3. l[j].b \in Int BY <2>2 DEF Frame, Datagram
  <2>4. l[j].b - Base(K, M, s) \in Int BY <1>5, <2>3
  <2>5. Ahead(K, M, s, l[j]) >= 0
    <3>1. (l[j].b - Base(K, M, s)) % Mod \in 0 .. Mod - 1 BY <2>4, ModInt
    <3>2. Ahead(K, M, s, l[j]) \in 0 .. Mod - 1 BY <3>1 DEF Ahead
    <3> QED BY <3>2, ModType
  <2> HIDE DEF k, A
  <2> QED BY <1>7, <2>1, <2>5
<1> HIDE DEF k
<1>12. Drops(K[s], d, k) BY DEF k
<1> QED BY <1>3, <1>10, <1>11, <1>12, Confirmed DEF c

LEMMA MildDrops ==
  ASSUME NEW c, Sound(c), c.st = L4SIXFER, NEW k \in Nat, k <= Len(c.mbhdtx), NEW d,
         Drops(c, d, k)
  PROVE  Mild(c, d)
<1>1. c.mbhdtx \in Seq(Entry) BY DEF Sound, Shaped, Typed
<1>2. Len(c.mbhdtx) \in Nat BY <1>1, LenProperties
<1>3. d.mbhdtx = SubSeq(c.mbhdtx, k + 1, Len(c.mbhdtx)) /\ d.st = c.st /\ d.idpart = c.idpart
  BY DEF Drops
<1>4. /\ Len(d.mbhdtx) = Len(c.mbhdtx) - k
      /\ \A j \in 1 .. Len(d.mbhdtx) : d.mbhdtx[j] = c.mbhdtx[k + j]
  <2> PICK t : t = c.mbhdtx OBVIOUS
  <2>1. t \in Seq(Entry) /\ k <= Len(t) /\ d.mbhdtx = SubSeq(t, k + 1, Len(t)) BY <1>1, <1>3
  <2>2. /\ Len(d.mbhdtx) = Len(t) - k
        /\ \A j \in 1 .. Len(d.mbhdtx) : d.mbhdtx[j] = t[k + j]
    BY <2>1, SubSeqTail
  <2> QED BY <2>2
<1>5. k \in 0 .. Len(c.mbhdtx) BY <1>2
<1> QED BY <1>3, <1>4, <1>5 DEF Mild

LEMMA AcknowledgedDrops ==
  ASSUME NEW c, Sound(c), c.st = L4SIXFER, NEW f
  PROVE  /\ Drops(c, Acknowledged(c, f), Acked(c, f))
         /\ Drops(c, Choked(Acknowledged(c, f)), Acked(c, f))
         /\ \A flag : Drops(c, [Acknowledged(c, f) EXCEPT !.l4flag = flag, !.traout = FALSE],
                            Acked(c, f))
<1> DEFINE k == Acked(c, f)
           e == Acknowledged(c, f)
<1>1. IsRec(c, CircuitFields) BY DEF Sound, Shaped
<1>2. e = [c EXCEPT !.mbhdtx = SubSeq(@, k + 1, Len(@)), !.l4rxvs = (@ + k) % Mod]
  BY DEF Acknowledged, Acked
<1> HIDE DEF k, e
<1>3. Drops(c, e, k) BY <1>1, <1>2 DEF Drops, IsRec, CircuitFields
<1>4. IsRec(e, CircuitFields) BY <1>1, <1>2 DEF IsRec, CircuitFields
<1>5. Drops(c, Choked(e), k) BY <1>3, <1>4 DEF Drops, Choked, IsRec, CircuitFields
<1>6. \A flag : Drops(c, [e EXCEPT !.l4flag = flag, !.traout = FALSE], k)
  BY <1>3, <1>4 DEF Drops, IsRec, CircuitFields
<1> QED BY <1>3, <1>5, <1>6 DEF k, e

(* An acknowledgement is read.                                             *)
LEMMA FineDrops ==
  ASSUME NEW h, NEW K, NEW N, NEW G, NEW M, NEW I, NEW s, NEW x,
         Fine(h, K, N, G, M, I, s, x), x.c.st = L4SIXFER, NEW f \in Frame,
         Acks(h, KAt(K, s, x), NAt(N, x), GAt(G, s, x), M, s, f),
         NEW d, Sound(d), d.ideige = x.c.ideige, Drops(x.c, d, Acked(x.c, f))
  PROVE  Fine(h, K, N, G, M, I, s, [x EXCEPT !.c = d])
<1>0. Fit(h, K, N, G, s, x) BY FineTypes
<1> DEFINE L == KAt(K, s, x)
           P == NAt(N, x)
           H == GAt(G, s, x)
           y == [x EXCEPT !.c = d]
<1>1. Ctx(x) /\ Sound(x.c) /\ x.c.ideige = s /\ s \in Id /\ L[s] = x.c /\ L \in [Id -> Good]
  BY <1>0 DEF Fit
<1>2. World(h, L, P, H, M, I) BY DEF Fine
<1>3. d \in Good
  <2>1. s # 0 BY <1>1, BoundTypes DEF Id
  <2> QED BY <1>1, <2>1, GoodCircuit DEF Named
<1>4. IsUp(L, s) BY <1>1 DEF IsUp
<1>5. Result(x, y) /\ y.c = d /\ y.out = x.out /\ y.acc = x.acc
  BY <1>1, SetSound, SetCircuit DEF Sound
<1> HIDE DEF L, P, H, y
<1>6. World(h, [L EXCEPT ![s] = d], P, H, M, I)
  <2>1. Acks(h, L, P, H, M, s, f) BY DEF L, P, H
  <2>2. Drops(L[s], d, Acked(L[s], f)) BY <1>1
  <2> QED BY <1>1, <1>2, <1>3, <1>4, <2>1, <2>2, AckedConfirms
<1>7. Mild(x.c, d)
  <2>1. Acked(x.c, f) \in Nat /\ Acked(x.c, f) <= Len(x.c.mbhdtx)
    BY <1>1, AckedType, StatesDiffer
  <2> QED BY <1>1, <2>1, MildDrops
<1>8. H \in [Id -> Seq(Message)] BY <1>2 DEF World, Types
<1>9. <<>> \in Seq(Message) /\ y.acc = x.acc \o <<>> /\ [H EXCEPT ![s] = @ \o <<>>] = H
  <2>1. H[s] \in Seq(Message) /\ x.acc \in Seq(Message) BY <1>0, <1>1, <1>8 DEF Fit
  <2>2. H[s] \o <<>> = H[s] /\ x.acc \o <<>> = x.acc BY <2>1, ConcatEmptySeq
  <2> QED BY <1>5, <1>8, <2>2, EmptySeq
<1>10. World(h, [L EXCEPT ![s] = y.c], P, [H EXCEPT ![s] = @ \o <<>>], M, I)
  BY <1>5, <1>6, <1>9
<1>11. y.c.st # L4SDSCED BY <1>5, StatesDiffer DEF Drops
<1>12. Fine(h, K, N, G, M, I, s, y)
  BY <1>5, <1>7, <1>9, <1>10, <1>11, FineTurn DEF L, P, H
<1> QED BY <1>12 DEF y

LEMMA FineChksts ==
  ASSUME NEW h, NEW K, NEW N, NEW G, NEW M, NEW I, NEW s, NEW x,
         Fine(h, K, N, G, M, I, s, x), x.c.st = L4SIXFER, NEW f \in Frame,
         Acks(h, KAt(K, s, x), NAt(N, x), GAt(G, s, x), M, s, f)
  PROVE  /\ Fine(h, K, N, G, M, I, s, Chksts(x, f))
         /\ Chksts(x, f).acc = x.acc /\ Chksts(x, f).c.st = L4SIXFER
         /\ Chksts(x, f).c.l4vr = x.c.l4vr
<1>0. Fit(h, K, N, G, s, x) BY FineTypes
<1>1. Ctx(x) /\ Sound(x.c) BY <1>0 DEF Fit
<1> DEFINE e == Acknowledged(x.c, f)
           b == Choked(e)
           d == [e EXCEPT !.l4flag = @ \ {"PBUSY"}, !.traout = FALSE]
           z == [x EXCEPT !.c = b]
           y == [x EXCEPT !.c = d]
<1>2. Sound(e) /\ e.st = x.c.st /\ e.ideige = x.c.ideige
  BY <1>1, AcknowledgedSound, StatesDiffer
<1>3. Sound(b) /\ b.st = x.c.st /\ b.ideige = x.c.ideige BY <1>2, ChokedSound
<1>4. Sound(d) /\ d.st = x.c.st /\ d.ideige = x.c.ideige BY <1>2, UnchokedSound
<1>5. Drops(x.c, b, Acked(x.c, f)) /\ Drops(x.c, d, Acked(x.c, f))
  BY <1>1, AcknowledgedDrops
<1>6. /\ d.l4rxvs = e.l4rxvs /\ d.l4vs = e.l4vs /\ d.mbhdtx = e.mbhdtx
  BY <1>2 DEF Sound, Shaped, IsRec, CircuitFields
<1>7. Chksts(x, f) = IF f.choke THEN z
                     ELSE IF f.nak /\ Fropen(e) # 0 THEN SndFrm(y, e.l4rxvs, Head(e.mbhdtx).m)
                     ELSE y
  BY DEF Chksts
<1> HIDE DEF e, b, d
<1>8. Fine(h, K, N, G, M, I, s, z) BY <1>3, <1>5, FineDrops
<1>9. Fine(h, K, N, G, M, I, s, y) BY <1>4, <1>5, FineDrops
<1>10. /\ z.c = b /\ z.acc = x.acc /\ y.c = d /\ y.acc = x.acc /\ Ctx(y)
  BY <1>1, <1>3, <1>4, SetCircuit DEF Sound
<1>11. b.l4vr = x.c.l4vr /\ d.l4vr = x.c.l4vr BY <1>5 DEF Drops
<1> HIDE DEF y, z
<1>12. CASE f.choke BY <1>3, <1>7, <1>8, <1>10, <1>11, <1>12
<1>13. CASE ~f.choke /\ f.nak /\ Fropen(e) # 0
  <2>1. Fropen(d) = Fropen(e) BY <1>6 DEF Fropen
  <2>2. Fropen(d) \in 0 .. Mod - 1 /\ Fropen(d) <= Len(d.mbhdtx)
    BY <1>4, FropenType, StatesDiffer DEF Sound, Windowed
  <2>3. d.mbhdtx \in Seq(Entry) /\ d.l4rxvs \in 0 .. Mod - 1 /\ d.window \in 1 .. Mod - 1
    BY <1>4 DEF Sound, Shaped, Typed
  <2>4. Len(d.mbhdtx) \in Nat BY <2>3, LenProperties
  <2>5. 1 \in 1 .. Len(d.mbhdtx) /\ 1 <= d.window BY <1>13, <2>1, <2>2, <2>3, <2>4
  <2>6. d.l4rxvs = (d.l4rxvs + 1 - 1) % Mod
    <3>1. d.l4rxvs + 1 - 1 = d.l4rxvs BY <2>3
    <3>2. d.l4rxvs % Mod = d.l4rxvs BY <2>3, ModSmall, ModType
    <3> QED BY <3>1, <3>2
  <2>7. Head(e.mbhdtx).m = d.mbhdtx[1].m BY <1>6
  <2>8. Fine(h, K, N, G, M, I, s, SndFrm(y, d.l4rxvs, d.mbhdtx[1].m))
    <3>1. y.c.st = L4SIXFER /\ 1 \in 1 .. Len(y.c.mbhdtx) /\ 1 <= y.c.window
          /\ d.l4rxvs = (y.c.l4rxvs + 1 - 1) % Mod /\ d.mbhdtx[1].m = y.c.mbhdtx[1].m
      BY <1>4, <1>10, <2>5, <2>6
    <3> HIDE DEF Fine
    <3> QED BY <1>9, <3>1, FineFrm
  <2>9. Chksts(x, f) = SndFrm(y, d.l4rxvs, d.mbhdtx[1].m) BY <1>6, <1>7, <1>13, <2>7
  <2>10. SndFrm(y, d.l4rxvs, d.mbhdtx[1].m).acc = y.acc
    BY <1>10 DEF SndFrm, Send, Ctx, IsRec, ContextFields
  <2>11. SndFrm(y, d.l4rxvs, d.mbhdtx[1].m).c = AckSent(d)
    <3>1. d.mbhdtx[1] \in Entry BY <2>3, <2>5, ElementOfSeq
    <3>2. d.mbhdtx[1].m \in Message /\ d.l4rxvs \in Nat BY <2>3, <3>1 DEF Entry
    <3> QED BY <1>10, <3>2, SndFrmType
  <2>12. AckSent(d).st = d.st /\ AckSent(d).l4vr = d.l4vr BY <1>4, AckSentWeaker DEF Sound
  <2> QED BY <1>4, <1>10, <1>11, <2>8, <2>9, <2>10, <2>11, <2>12
<1>14. CASE ~f.choke /\ ~(f.nak /\ Fropen(e) # 0) BY <1>4, <1>7, <1>9, <1>10, <1>11, <1>14
<1> QED BY <1>12, <1>13, <1>14

-----------------------------------------------------------------------------
(* takfrm: the expected message, and those that came before it.            *)
News(c, m, k) == <<m>> \o SubSeq(c.mbhdos, 1, k)

LEMMA NewsAre ==
  ASSUME NEW c, Shaped(c), NEW m \in Message, NEW k \in 0 .. Mod - 1
  PROVE  /\ News(c, m, k) \in Seq(Message) /\ Len(News(c, m, k)) = k + 1
         /\ \A j \in 1 .. k + 1 : News(c, m, k)[j] = IF j = 1 THEN m ELSE c.mbhdos[j - 1]
<1> DEFINE t == SubSeq(c.mbhdos, 1, k)
<1>1. Mod - 1 \in Nat /\ c.mbhdos \in [1 .. Mod - 1 -> Message]
  BY ModType DEF Shaped, Typed
<1>2. c.mbhdos \in Seq(Message) /\ Len(c.mbhdos) = Mod - 1 BY <1>1, FunctionSeq
<1>3. t \in Seq(Message) /\ Len(t) = k /\ \A j \in 1 .. k : t[j] = c.mbhdos[j]
  <2>1. k \in Nat /\ 1 \in Int /\ k <= Len(c.mbhdos) BY <1>1, <1>2, ModType
  <2>2. t = [i \in 1 .. k |-> c.mbhdos[i]]
    <3>1. t = [i \in 1 .. (k - 1) + 1 |-> c.mbhdos[(1 + i) - 1]] BY <2>1
    <3> QED BY <2>1, <3>1
  <2>3. \A i \in 1 .. k : c.mbhdos[i] \in Message
    <3>1. \A i \in 1 .. k : i \in 1 .. Mod - 1 BY <1>1, <2>1, <1>2
    <3> QED BY <1>1, <3>1
  <2>4. t \in [1 .. k -> Message] BY <2>2, <2>3
  <2>5. t \in Seq(Message) /\ Len(t) = k BY <2>1, <2>4, FunctionSeq
  <2> QED BY <2>2, <2>5
<1> HIDE DEF t
<1>4. <<m>> \in Seq(Message) /\ Len(<<m>>) = 1 /\ <<m>>[1] = m OBVIOUS
<1>5. /\ <<m>> \o t \in Seq(Message) /\ Len(<<m>> \o t) = 1 + k
      /\ \A j \in 1 .. 1 + k : (<<m>> \o t)[j] = IF j <= 1 THEN <<m>>[j] ELSE t[j - 1]
  BY <1>3, <1>4, ConcatProperties
<1>6. ASSUME NEW j \in 1 .. k + 1
      PROVE  (<<m>> \o t)[j] = IF j = 1 THEN m ELSE c.mbhdos[j - 1]
  <2>1. j = 1 \/ j - 1 \in 1 .. k BY ModType
  <2> QED BY <1>3, <1>4, <1>5, <2>1, ModType
<1> QED BY <1>5, <1>6, ModType DEF News, t

LEMMA InRowFull ==
  ASSUME NEW c
  PROVE  InRow(c) \in 0 .. Mod - 1 /\ \A o \in 1 .. InRow(c) : c.mbhdos[o] # NoMessage
<1> DEFINE Gap(j) == j < Mod - 1 => c.mbhdos[j + 1] = NoMessage
<1> DEFINE S == {j \in 0 .. Mod - 1 : Gap(j)}
<1>1. Mod - 1 \in S /\ S \subseteq Nat BY ModType
<1>2. PICK m \in S : \A n \in S : m <= n BY <1>1, MinExists
<1>3. m \in 0 .. Mod - 1 /\ Gap(m) BY <1>2
<1>4. ASSUME NEW o \in 1 .. m PROVE c.mbhdos[o] # NoMessage
  <2>1. o - 1 \in 0 .. Mod - 1 /\ o - 1 < m /\ o - 1 < Mod - 1 BY <1>3, ModType
  <2>2. o - 1 \notin S BY <1>2, <1>3, <2>1, ModType
  <2>3. ~Gap(o - 1) BY <2>1, <2>2
  <2>4. (o - 1) + 1 = o BY <1>3
  <2> QED BY <2>3, <2>4
<1> QED BY <1>3, <1>4 DEF InRow

LEMMA TakfrmIs ==
  ASSUME NEW x, Ctx(x), NEW f \in Frame, NEW k \in 0 .. Mod - 1, x.c.st = L4SIXFER
  PROVE  /\ Advances(x.c, Takfrm(x, f, k).c, k + 1)
         /\ Takfrm(x, f, k).acc = News(x.c, f.m, k) /\ Takfrm(x, f, k).out = x.out
         /\ Takfrm(x, f, k).c.mbhdtx = x.c.mbhdtx
<1>1. IsRec(x.c, CircuitFields) /\ IsRec(x, ContextFields) BY DEF Ctx, Shaped
<1> DEFINE c == Early(x.c, k + 1)
           vr == (c.l4vr + k + 1) % Mod
           rx == IF "DSLE" \in c.l4flag THEN c.numrx ELSE c.numrx + k + 1
           d == [c EXCEPT !.l4vr = vr, !.numrx = rx, !.l4rs = 0, !.acktim = TRUE]
           os == [o \in 1 .. Mod - 1 |-> IF o + (k + 1) < Mod THEN x.c.mbhdos[o + (k + 1)]
                                         ELSE NoMessage]
<1>2. Takfrm(x, f, k) = [x EXCEPT !.c = d, !.acc = News(x.c, f.m, k)] BY DEF Takfrm, News
<1>3. c = [x.c EXCEPT !.mbhdos = os] BY <1>1 DEF Early, IsRec, CircuitFields
<1>4. vr = (x.c.l4vr + (k + 1)) % Mod
  <2>1. c.l4vr = x.c.l4vr BY <1>1, <1>3 DEF IsRec, CircuitFields
  <2>2. x.c.l4vr + k + 1 = x.c.l4vr + (k + 1)
    <3>1. x.c.l4vr \in Int BY ModType DEF Ctx, Shaped, Typed
    <3> QED BY <3>1, ModType
  <2> QED BY <2>1, <2>2
<1> HIDE DEF c, vr, rx, os
<1>5. IsRec(c, CircuitFields) BY <1>1, <1>3 DEF IsRec, CircuitFields
<1>6. /\ d.st = x.c.st /\ d.idpart = x.c.idpart /\ d.idxpar = x.c.idxpar
      /\ d.window = x.c.window /\ d.l4rxvs = x.c.l4rxvs /\ d.mbhdtx = x.c.mbhdtx
      /\ d.l4vr = vr /\ d.mbhdos = os
  BY <1>1, <1>3, <1>5 DEF IsRec, CircuitFields
<1> HIDE DEF d
<1>7. Advances(x.c, d, k + 1) BY <1>4, <1>6 DEF Advances, os
<1>8. /\ Takfrm(x, f, k).c = d /\ Takfrm(x, f, k).acc = News(x.c, f.m, k)
      /\ Takfrm(x, f, k).out = x.out
  <2> HIDE DEF News
  <2> QED BY <1>1, <1>2 DEF IsRec, ContextFields
<1> QED BY <1>6, <1>7, <1>8

(* An expected message comes, and k after it have come already.            *)
LEMMA FineTake ==
  ASSUME NEW h, NEW K, NEW N, NEW G, NEW M, NEW I, NEW s, NEW x,
         Fine(h, K, N, G, M, I, s, x), x.c.st = L4SIXFER, x.acc = <<>>, NEW f \in Frame,
         Brings(h, KAt(K, s, x), NAt(N, x), GAt(G, s, x), M, s, f),
         (f.a - x.c.l4vr) % Mod = 0,
         NEW k \in 0 .. Mod - 1, \A o \in 1 .. k : x.c.mbhdos[o] # NoMessage
  PROVE  Fine(h, K, N, G, M, I, s, Takfrm(x, f, k))
<1>0. Fit(h, K, N, G, s, x) BY FineTypes
<1> DEFINE L == KAt(K, s, x)
           P == NAt(N, x)
           H == GAt(G, s, x)
           y == Takfrm(x, f, k)
           a == News(x.c, f.m, k)
           R == Len(H[s])
<1>1. /\ Ctx(x) /\ Sound(x.c) /\ Shaped(x.c) /\ x.c.ideige = s /\ s \in Id
      /\ L[s] = x.c /\ L \in [Id -> Good]
  BY <1>0 DEF Fit
<1>2. World(h, L, P, H, M, I) BY DEF Fine
<1>3. IsUp(L, s) BY <1>1 DEF IsUp
<1>4. Result(x, y) /\ y.c.st = L4SIXFER BY <1>1, TakfrmSound
<1>5. /\ Advances(x.c, y.c, k + 1) /\ y.acc = a /\ y.out = x.out
      /\ y.c.mbhdtx = x.c.mbhdtx
  BY <1>1, TakfrmIs
<1>6. f.m \in Message BY DEF Frame, Datagram
<1>7. /\ a \in Seq(Message) /\ Len(a) = k + 1
      /\ \A j \in 1 .. k + 1 : a[j] = IF j = 1 THEN f.m ELSE x.c.mbhdos[j - 1]
  BY <1>1, <1>6, NewsAre
<1> HIDE DEF L, P, H, y, a
<1>8. /\ f.m.no = R + 1 /\ f.m = [from |-> h[s].p, no |-> R + 1]
      /\ Timely(h, L, P, H, M, s, R + 1)
  <2>0. R \in Nat BY <1>1, <1>2, WorldTypes
  <2>1. Brings(h, L, P, H, M, s, f) BY DEF L, P, H
  <2>2. L[s].window \in 1 .. Mod - 1 BY <1>1 DEF Shaped, Typed
  <2>3. (f.a - L[s].l4vr) % Mod = 0 BY <1>1
  <2>4. (f.a - L[s].l4vr) % Mod < L[s].window BY <2>2, <2>3, ModType
  <2>5. /\ f.m.no = R + ((f.a - L[s].l4vr) % Mod) + 1
        /\ f.m = [from |-> h[s].p, no |-> f.m.no]
    BY <1>1, <1>2, <1>3, <2>1, <2>4, Offset
  <2>6. f.m.no = R + 0 + 1 BY <2>3, <2>5
  <2>7. f.m.no = R + 1 BY <2>0, <2>6
  <2>8. Timely(h, L, P, H, M, s, f.m.no) BY <2>1 DEF Brings
  <2> QED BY <2>5, <2>7, <2>8
<1>9. \A o \in 1 .. k : /\ Timely(h, L, P, H, M, s, R + o + 1)
                        /\ x.c.mbhdos[o] = [from |-> h[s].p, no |-> R + o + 1]
  <2> SUFFICES ASSUME NEW o \in 1 .. k
               PROVE  /\ Timely(h, L, P, H, M, s, R + o + 1)
                      /\ x.c.mbhdos[o] = [from |-> h[s].p, no |-> R + o + 1]
    OBVIOUS
  <2>1. o \in 1 .. Mod - 1 BY ModType
  <2>2. L[s].mbhdos[o] # NoMessage BY <1>1
  <2>3. /\ Timely(h, L, P, H, M, s, Len(H[s]) + o + 1)
        /\ L[s].mbhdos[o] = [from |-> h[s].p, no |-> Len(H[s]) + o + 1]
    BY <1>1, <1>2, <1>3, <2>1, <2>2, KeptTimely
  <2> QED BY <1>1, <2>3
<1>10. R \in Nat /\ k \in Nat BY <1>1, <1>2, WorldTypes, ModType
<1>11. Timely(h, L, P, H, M, s, R + (k + 1))
  <2>1. CASE k = 0
    <3>1. R + (k + 1) = R + 1 BY <1>10, <2>1
    <3> QED BY <1>8, <3>1
  <2>2. CASE k # 0
    <3>1. k \in 1 .. k /\ R + (k + 1) = R + k + 1 BY <1>10, <2>2
    <3> QED BY <1>9, <3>1
  <2> QED BY <2>1, <2>2
<1>12. \A j \in 1 .. k + 1 : a[j] = [from |-> h[s].p, no |-> R + j]
  <2> SUFFICES ASSUME NEW j \in 1 .. k + 1 PROVE a[j] = [from |-> h[s].p, no |-> R + j]
    OBVIOUS
  <2>1. CASE j = 1 BY <1>7, <1>8, <2>1
  <2>2. CASE j # 1
    <3>1. j - 1 \in 1 .. k /\ R + (j - 1) + 1 = R + j BY <1>10, <2>2
    <3>2. x.c.mbhdos[j - 1] = [from |-> h[s].p, no |-> R + j] BY <1>9, <3>1
    <3> QED BY <1>7, <2>2, <3>2
  <2> QED BY <2>1, <2>2
<1>13. y.c \in Good
  <2>1. s # 0 BY <1>1, BoundTypes DEF Id
  <2>2. Sound(y.c) /\ y.c.ideige = s BY <1>1, <1>4 DEF Result
  <2> QED BY <2>1, <2>2, GoodCircuit DEF Named
<1>14. World(h, [L EXCEPT ![s] = y.c], P, [H EXCEPT ![s] = @ \o a], M, I)
  <2>1. Advances(L[s], y.c, k + 1) /\ k + 1 \in Nat BY <1>1, <1>5, <1>10
  <2> HIDE DEF R
  <2>2. \A j \in 1 .. k + 1 : a[j] = [from |-> h[s].p, no |-> Len(H[s]) + j]
    BY <1>12 DEF R
  <2>3. Timely(h, L, P, H, M, s, Len(H[s]) + (k + 1)) BY <1>11 DEF R
  <2>4. a \in Seq(Message) /\ Len(a) = k + 1 BY <1>7
  <2> DEFINE e == k + 1
  <2> HIDE DEF e
  <2>5. /\ Advances(L[s], y.c, e) /\ e \in Nat /\ Len(a) = e
        /\ \A j \in 1 .. e : a[j] = [from |-> h[s].p, no |-> Len(H[s]) + j]
        /\ Timely(h, L, P, H, M, s, Len(H[s]) + e)
    BY <2>1, <2>2, <2>3, <2>4 DEF e
  <2>6. s \in Id BY <1>1
  <2> QED BY <1>2, <1>3, <1>13, <2>4, <2>5, <2>6, Took
<1>15. Mild(x.c, y.c)
  <2>1. x.c.mbhdtx \in Seq(Entry) BY <1>1 DEF Shaped, Typed
  <2>2. Len(x.c.mbhdtx) \in Nat BY <2>1, LenProperties
  <2>3. 0 \in 0 .. Len(x.c.mbhdtx) /\ Len(y.c.mbhdtx) = Len(x.c.mbhdtx) - 0
        /\ \A j \in 1 .. Len(y.c.mbhdtx) : y.c.mbhdtx[j].m = x.c.mbhdtx[0 + j].m
    BY <1>5, <2>2
  <2>4. y.c.st = x.c.st /\ y.c.idpart = x.c.idpart BY <1>4, <1>5 DEF Advances
  <2> QED BY <2>3, <2>4 DEF Mild
<1>16. y.acc = x.acc \o a /\ y.c.st # L4SDSCED
  <2>1. <<>> \o a = a BY <1>7, ConcatEmptySeq
  <2> QED BY <1>4, <1>5, <2>1, StatesDiffer
<1>17. Fine(h, K, N, G, M, I, s, y)
  <2>1. a \in Seq(Message) /\ y.out = x.out BY <1>5, <1>7
  <2>2. World(h, [KAt(K, s, x) EXCEPT ![s] = y.c], NAt(N, x),
              [GAt(G, s, x) EXCEPT ![s] = @ \o a], M, I)
    BY <1>14 DEF L, P, H
  <2>3. Result(x, y) BY <1>4
  <2> QED BY <1>15, <1>16, <2>1, <2>2, <2>3, FineTurn
<1> QED BY <1>17 DEF y

-----------------------------------------------------------------------------
(* A message comes too early: it is kept, unless there is one already.     *)
KeepsIt(c, o, m) ==
  [c EXCEPT !.mbhdos[o] = IF @ = NoMessage THEN m ELSE @,
            !.l4rs = IF @ = 0 THEN 1 ELSE @, !.acktim = @ \/ c.l4rs = 0]

LEMMA KeepsItIs ==
  ASSUME NEW c, Shaped(c), NEW o \in 1 .. Mod - 1, NEW m \in Message
  PROVE  LET d == KeepsIt(c, o, m)
         IN  /\ d.st = c.st /\ d.idpart = c.idpart /\ d.idxpar = c.idxpar
             /\ d.window = c.window /\ d.l4rxvs = c.l4rxvs /\ d.mbhdtx = c.mbhdtx
             /\ d.l4vr = c.l4vr
             /\ d.mbhdos = IF c.mbhdos[o] = NoMessage THEN [c.mbhdos EXCEPT ![o] = m]
                           ELSE c.mbhdos
<1>1. IsRec(c, CircuitFields) BY DEF Shaped
<1>2. c.mbhdos \in [1 .. Mod - 1 -> Message] BY DEF Shaped, Typed
<1>3. [c.mbhdos EXCEPT ![o] = IF @ = NoMessage THEN m ELSE @]
        = IF c.mbhdos[o] = NoMessage THEN [c.mbhdos EXCEPT ![o] = m] ELSE c.mbhdos
  BY <1>2
<1> DEFINE os == [c.mbhdos EXCEPT ![o] = IF @ = NoMessage THEN m ELSE @]
           rs == IF c.l4rs = 0 THEN 1 ELSE c.l4rs
           at == c.acktim \/ c.l4rs = 0
           d  == KeepsIt(c, o, m)
<1>4. d = [c EXCEPT !.mbhdos = os, !.l4rs = rs, !.acktim = at]
  BY <1>1 DEF KeepsIt, IsRec, CircuitFields
<1> HIDE DEF os, rs, at, d
<1>5. /\ d.st = c.st /\ d.idpart = c.idpart /\ d.idxpar = c.idxpar
      /\ d.window = c.window /\ d.l4rxvs = c.l4rxvs /\ d.mbhdtx = c.mbhdtx
      /\ d.l4vr = c.l4vr /\ d.mbhdos = os
  BY <1>1, <1>4 DEF IsRec, CircuitFields
<1> QED BY <1>3, <1>5 DEF os, d

LEMMA FineKeep ==
  ASSUME NEW h, NEW K, NEW N, NEW G, NEW M, NEW I, NEW s, NEW x,
         Fine(h, K, N, G, M, I, s, x), x.c.st = L4SIXFER, NEW f \in Frame,
         Brings(h, KAt(K, s, x), NAt(N, x), GAt(G, s, x), M, s, f),
         NEW z \in 1 .. Mod - 1, z = (f.a - x.c.l4vr) % Mod, z < x.c.window
  PROVE  Fine(h, K, N, G, M, I, s, [x EXCEPT !.c = KeepsIt(x.c, z, f.m)])
<1>0. Fit(h, K, N, G, s, x) BY FineTypes
<1> DEFINE L == KAt(K, s, x)
           P == NAt(N, x)
           H == GAt(G, s, x)
           d == KeepsIt(x.c, z, f.m)
           y == [x EXCEPT !.c = d]
           R == Len(H[s])
<1>1. /\ Ctx(x) /\ Sound(x.c) /\ Shaped(x.c) /\ x.c.ideige = s /\ s \in Id
      /\ L[s] = x.c /\ L \in [Id -> Good]
  BY <1>0 DEF Fit
<1>2. World(h, L, P, H, M, I) BY DEF Fine
<1>3. IsUp(L, s) BY <1>1 DEF IsUp
<1>4. f.m \in Message BY DEF Frame, Datagram
<1>5. Alike(x.c, d) BY <1>1, <1>4, KeptAlike DEF KeepsIt
<1>6. Sound(d) /\ d.ideige = x.c.ideige BY <1>1, <1>5, AlikeSound DEF Alike
<1>7. /\ d.st = x.c.st /\ d.idpart = x.c.idpart /\ d.idxpar = x.c.idxpar
      /\ d.window = x.c.window /\ d.l4rxvs = x.c.l4rxvs /\ d.mbhdtx = x.c.mbhdtx
      /\ d.l4vr = x.c.l4vr
      /\ d.mbhdos = IF x.c.mbhdos[z] = NoMessage THEN [x.c.mbhdos EXCEPT ![z] = f.m]
                    ELSE x.c.mbhdos
  BY <1>1, <1>4, KeepsItIs
<1> HIDE DEF L, P, H, d
<1>8. Result(x, y) /\ y.c = d /\ y.out = x.out /\ y.acc = x.acc
  BY <1>1, <1>6, SetSound, SetCircuit DEF Sound
<1> HIDE DEF y
<1>9. CASE x.c.mbhdos[z] # NoMessage
  <2>1. d.mbhdos = x.c.mbhdos BY <1>7, <1>9
  <2>2. Weaker(x.c, y.c) BY <1>7, <1>8, <2>1 DEF Weaker
  <2>3. y.c.st # L4SDSCED BY <1>7, <1>8, StatesDiffer
  <2>4. Result(x, y) /\ y.out = x.out /\ y.acc = x.acc BY <1>8
  <2>5. Fine(h, K, N, G, M, I, s, y) BY <2>2, <2>3, <2>4, FineSet
  <2> QED BY <2>5 DEF y, d
<1>10. CASE x.c.mbhdos[z] = NoMessage
  <2>1. Brings(h, L, P, H, M, s, f) BY DEF L, P, H
  <2>2. (f.a - L[s].l4vr) % Mod = z /\ z < L[s].window BY <1>1
  <2>3. R \in Nat BY <1>1, <1>2, WorldTypes
  <2>4. /\ f.m.no = R + ((f.a - L[s].l4vr) % Mod) + 1
        /\ f.m = [from |-> h[s].p, no |-> f.m.no]
        /\ (f.a - L[s].l4vr) % Mod < h[s].w
    <3>1. (f.a - L[s].l4vr) % Mod < L[s].window BY <2>2
    <3> QED BY <1>1, <1>2, <1>3, <2>1, <3>1, Offset
  <2>5. f.m.no = R + z + 1 /\ z < h[s].w BY <2>2, <2>4
  <2>6. Timely(h, L, P, H, M, s, f.m.no) BY <2>1 DEF Brings
  <2>7. d \in Good
    <3>1. s # 0 BY <1>1, BoundTypes DEF Id
    <3> QED BY <1>1, <1>6, <3>1, GoodCircuit DEF Named
  <2>8. Keeps(L[s], d, z, [from |-> h[s].p, no |-> f.m.no])
    <3>1. d.mbhdos = [x.c.mbhdos EXCEPT ![z] = f.m] BY <1>7, <1>10
    <3> QED BY <1>1, <1>7, <2>4, <3>1 DEF Keeps
  <2>9. World(h, [L EXCEPT ![s] = d], P, H, M, I)
    <3>1. s \in Id BY <1>1
    <3> DEFINE no == f.m.no
    <3>2. /\ no = Len(H[s]) + z + 1 /\ Timely(h, L, P, H, M, s, no)
          /\ Keeps(L[s], d, z, [from |-> h[s].p, no |-> no])
      BY <2>5, <2>6, <2>8
    <3> HIDE DEF no
    <3> QED BY <1>2, <1>3, <2>5, <2>7, <3>1, <3>2, Kept
  <2>10. H \in [Id -> Seq(Message)] BY <1>2 DEF World, Types
  <2>11. <<>> \in Seq(Message) /\ y.acc = x.acc \o <<>> /\ [H EXCEPT ![s] = @ \o <<>>] = H
    <3>1. H[s] \in Seq(Message) /\ x.acc \in Seq(Message) BY <1>0, <1>1, <2>10 DEF Fit
    <3>2. H[s] \o <<>> = H[s] /\ x.acc \o <<>> = x.acc BY <3>1, ConcatEmptySeq
    <3> QED BY <1>8, <2>10, <3>2, EmptySeq
  <2>12. World(h, [KAt(K, s, x) EXCEPT ![s] = y.c], NAt(N, x),
               [GAt(G, s, x) EXCEPT ![s] = @ \o <<>>], M, I)
    BY <1>8, <2>9, <2>11 DEF L, P, H
  <2>13. Mild(x.c, y.c)
    <3>1. x.c.mbhdtx \in Seq(Entry) BY <1>1 DEF Shaped, Typed
    <3>2. Len(x.c.mbhdtx) \in Nat BY <3>1, LenProperties
    <3>3. 0 \in 0 .. Len(x.c.mbhdtx) /\ Len(y.c.mbhdtx) = Len(x.c.mbhdtx) - 0
          /\ \A j \in 1 .. Len(y.c.mbhdtx) : y.c.mbhdtx[j].m = x.c.mbhdtx[0 + j].m
      BY <1>7, <1>8, <3>2
    <3> QED BY <1>7, <1>8, <3>3 DEF Mild
  <2>14. y.c.st # L4SDSCED BY <1>7, <1>8, StatesDiffer
  <2>15. Result(x, y) /\ y.out = x.out BY <1>8
  <2>16. Fine(h, K, N, G, M, I, s, y) BY <2>11, <2>12, <2>13, <2>14, <2>15, FineTurn
  <2> QED BY <2>16 DEF y, d
<1> QED BY <1>9, <1>10

-----------------------------------------------------------------------------
(* What s may still rely on when it has sent or confirmed something.       *)
LEMMA FineBrings ==
  ASSUME NEW h, NEW K, NEW N, NEW G, NEW M, NEW I, NEW s, NEW x, NEW y, NEW f,
         Fine(h, K, N, G, M, I, s, x), Fine(h, K, N, G, M, I, s, y),
         x.c.st = L4SIXFER, y.c.st = L4SIXFER, x.acc = y.acc,
         Brings(h, KAt(K, s, x), NAt(N, x), GAt(G, s, x), M, s, f)
  PROVE  Brings(h, KAt(K, s, y), NAt(N, y), GAt(G, s, y), M, s, f)
<1>1. Fit(h, K, N, G, s, x) /\ Fit(h, K, N, G, s, y) BY FineTypes
<1>2. World(h, KAt(K, s, x), NAt(N, x), GAt(G, s, x), M, I) BY DEF Fine
<1>3. s \in Id /\ KAt(K, s, x)[s] = x.c /\ KAt(K, s, y)[s] = y.c BY <1>1 DEF Fit
<1>4. IsUp(KAt(K, s, x), s) /\ IsUp(KAt(K, s, y), s) BY <1>3 DEF IsUp
<1>5. h[s].p \in Id /\ h[s].p # s BY <1>2, <1>3, <1>4, NotPartner
<1>6. KAt(K, s, y)[h[s].p] = KAt(K, s, x)[h[s].p] BY <1>1, <1>5 DEF Fit
<1>7. NAt(N, y)[h[s].n] = NAt(N, x)[h[s].n] BY <1>1 DEF Fit
<1>8. GAt(G, s, y)[s] = GAt(G, s, x)[s] BY <1>1 DEF Fit
<1>9. IsUp(KAt(K, s, y), s) = IsUp(KAt(K, s, x), s) BY <1>3 DEF IsUp
<1> QED BY <1>6, <1>7, <1>8, <1>9, BringsSame

LEMMA FineInftra ==
  ASSUME NEW h, NEW K, NEW N, NEW G, NEW M, NEW I, NEW s, NEW x,
         Fine(h, K, N, G, M, I, s, x), x.acc = <<>>, NEW f \in Frame,
         x.c.st = L4SIXFER => /\ Acks(h, KAt(K, s, x), NAt(N, x), GAt(G, s, x), M, s, f)
                              /\ Brings(h, KAt(K, s, x), NAt(N, x), GAt(G, s, x), M, s, f)
  PROVE  Fine(h, K, N, G, M, I, s, RxInftra(x, f))
<1>1. CASE x.c.st # L4SIXFER BY <1>1 DEF RxInftra
<1>2. CASE x.c.st = L4SIXFER
  <2> DEFINE y == Chksts(x, f)
             c == y.c
             ofs == (f.a - c.l4vr) % Mod
             z == [c EXCEPT !.acktim = TRUE]
             keep == [y EXCEPT !.c = KeepsIt(c, ofs, f.m)]
  <2>1. Fine(h, K, N, G, M, I, s, y) /\ y.acc = x.acc /\ y.c.st = L4SIXFER
    BY <1>2, FineChksts
  <2>2. RxInftra(x, f) = IF ~Passes(c, ofs) THEN [y EXCEPT !.c = z]
                         ELSE IF ofs = 0 THEN Takfrm(y, f, InRow(c)) ELSE keep
    <3>1. [y EXCEPT !.c.acktim = TRUE] = [y EXCEPT !.c = z] OBVIOUS
    <3>2. keep = [y EXCEPT !.c = [c EXCEPT
              !.mbhdos[ofs] = IF @ = NoMessage THEN f.m ELSE @,
              !.l4rs = IF @ = 0 THEN 1 ELSE @,
              !.acktim = @ \/ c.l4rs = 0]]
      BY DEF KeepsIt
    <3> HIDE DEF y, c, ofs, keep
    <3> QED BY <1>2, <3>1, <3>2 DEF RxInftra, y, c, ofs
  <2>3. Brings(h, KAt(K, s, y), NAt(N, y), GAt(G, s, y), M, s, f)
    BY <1>2, <2>1, FineBrings
  <2>4. Fit(h, K, N, G, s, y) BY <2>1, FineTypes
  <2>5. Sound(c) /\ Shaped(c) BY <2>4 DEF Fit
  <2> HIDE DEF y, ofs
  <2>6. ofs \in 0 .. Mod - 1
    <3>1. f.a \in Int /\ c.l4vr \in Int BY <2>5, ModType DEF Frame, Datagram, Shaped, Typed
    <3>2. f.a - c.l4vr \in Int BY <3>1
    <3> QED BY <3>2, ModInt DEF ofs
  <2>7. CASE ~Passes(c, ofs)
    <3>1. Alike(c, z) BY <2>5, AcktimAlike
    <3>2. Sound(z) /\ z.ideige = c.ideige BY <2>5, <3>1, AlikeSound DEF Alike
    <3>3. /\ z.st = c.st /\ z.idpart = c.idpart /\ z.idxpar = c.idxpar
          /\ z.mbhdtx = c.mbhdtx /\ z.window = c.window /\ z.mbhdos = c.mbhdos
          /\ z.l4rxvs = c.l4rxvs /\ z.l4vr = c.l4vr
      BY <2>5 DEF Shaped, IsRec, CircuitFields
    <3> HIDE DEF z
    <3>4. Weaker(y.c, z) BY <3>3 DEF Weaker
    <3>5. z.st # L4SDSCED BY <2>1, <3>3, StatesDiffer
    <3>6. Fine(h, K, N, G, M, I, s, [y EXCEPT !.c = z])
      BY <2>1, <3>2, <3>4, <3>5, FineTell
    <3> QED BY <2>2, <2>7, <3>6
  <2>8. CASE Passes(c, ofs) /\ ofs = 0
    <3>1. InRow(c) \in 0 .. Mod - 1 /\ \A o \in 1 .. InRow(c) : c.mbhdos[o] # NoMessage
      BY InRowFull
    <3>2. (f.a - y.c.l4vr) % Mod = 0 BY <2>8 DEF ofs
    <3>3. y.acc = <<>> BY <2>1
    <3>4. Fine(h, K, N, G, M, I, s, Takfrm(y, f, InRow(c)))
      BY <2>1, <2>3, <3>1, <3>2, <3>3, FineTake
    <3> QED BY <2>2, <2>8, <3>4
  <2>9. CASE Passes(c, ofs) /\ ofs # 0
    <3>1. ofs \in 1 .. Mod - 1 BY <2>6, <2>9, ModType
    <3>2. ofs = (f.a - y.c.l4vr) % Mod /\ ofs < y.c.window BY <2>9 DEF ofs, Passes
    <3>3. Fine(h, K, N, G, M, I, s, [y EXCEPT !.c = KeepsIt(y.c, ofs, f.m)])
      BY <2>1, <2>3, <3>1, <3>2, FineKeep
    <3> QED BY <2>2, <2>9, <3>3
  <2> QED BY <2>7, <2>8, <2>9
<1> QED BY <1>1, <1>2

-----------------------------------------------------------------------------
(* What a circuit makes of a datagram, unless it is the one that brings a  *)
(* partner.                                                                *)
LEMMA FineKnown ==
  ASSUME NEW h, NEW K, NEW N, NEW G, NEW M, NEW I, NEW s, NEW x,
         Fine(h, K, N, G, M, I, s, x), x.acc = <<>>, NEW f \in Frame, f.op # "CONREQ",
         ~(f.op = "CONACK" /\ ~f.choke /\ x.c.st = L4SLKSUP),
         Carries(f) /\ x.c.st = L4SIXFER =>
           /\ Acks(h, KAt(K, s, x), NAt(N, x), GAt(G, s, x), M, s, f)
           /\ f.op = "INFTRA" =>
                Brings(h, KAt(K, s, x), NAt(N, x), GAt(G, s, x), M, s, f)
  PROVE  Fine(h, K, N, G, M, I, s, RxKnown(x, f))
<1>0. Fit(h, K, N, G, s, x) BY FineTypes
<1>1. Ctx(x) /\ Shaped(x.c) BY <1>0 DEF Fit
<1>2. Fine(h, K, N, G, M, I, s, [x EXCEPT !.c = L4nsta(x.c)]) BY <1>1, FineDie
<1>3. f.op \in {"CONREQ", "CONACK", "DISREQ", "DISACK", "INFTRA", "INFACK"}
  BY DEF Frame, Datagram, Opcode
<1>4. CASE f.op = "CONACK"
  <2>1. RxKnown(x, f) = RxConack(x, f) BY <1>4 DEF RxKnown
  <2>2. CASE x.c.st # L4SLKSUP BY <2>1, <2>2 DEF RxConack
  <2>3. CASE x.c.st = L4SLKSUP
    <3>1. f.choke BY <1>4, <2>3
    <3>2. RxConack(x, f) = [x EXCEPT !.c = L4nsta(x.c)] BY <2>3, <3>1 DEF RxConack
    <3> QED BY <1>2, <2>1, <3>2
  <2> QED BY <2>2, <2>3
<1>5. CASE f.op = "DISREQ"
  <2> DEFINE g == ToPartner(x.c, "DISACK")
             d == L4nsta(x.c)
  <2>1. RxKnown(x, f) = [Send(x, g) EXCEPT !.c = d] BY <1>5 DEF RxKnown
  <2>2. g \in Frame /\ g.op = "DISACK" BY <1>1, ToPartnerType DEF Opcode
  <2>3. Fine(h, K, N, G, M, I, s, Send([x EXCEPT !.c = L4nsta(x.c)], g))
    BY <1>1, <2>2, FineDie DEF Token, Carries
  <2> HIDE DEF g, d
  <2>4. [Send(x, g) EXCEPT !.c = d] = Send([x EXCEPT !.c = d], g)
    BY <1>1 DEF Send, Ctx, IsRec, ContextFields
  <2> QED BY <2>1, <2>3, <2>4 DEF d
<1>6. CASE f.op = "DISACK"
  <2>1. RxKnown(x, f) = IF x.c.st = L4SDSCRQ THEN [x EXCEPT !.c = L4nsta(x.c)] ELSE x
    BY <1>6 DEF RxKnown
  <2> QED BY <1>2, <2>1
<1>7. CASE f.op = "INFTRA"
  <2>1. RxKnown(x, f) = RxInftra(x, f) BY <1>7 DEF RxKnown
  <2>2. Carries(f) BY <1>7 DEF Carries
  <2>3. x.c.st = L4SIXFER =>
           /\ Acks(h, KAt(K, s, x), NAt(N, x), GAt(G, s, x), M, s, f)
           /\ Brings(h, KAt(K, s, x), NAt(N, x), GAt(G, s, x), M, s, f)
    BY <1>7, <2>2
  <2>4. Fine(h, K, N, G, M, I, s, RxInftra(x, f)) BY <2>3, FineInftra
  <2> QED BY <2>1, <2>4
<1>8. CASE f.op = "INFACK"
  <2>1. RxKnown(x, f) = IF x.c.st = L4SIXFER THEN Chksts(x, f) ELSE x BY <1>8 DEF RxKnown
  <2>2. CASE x.c.st # L4SIXFER BY <2>1, <2>2
  <2>3. CASE x.c.st = L4SIXFER
    <3>1. Acks(h, KAt(K, s, x), NAt(N, x), GAt(G, s, x), M, s, f)
      BY <1>8, <2>3 DEF Carries
    <3>2. Fine(h, K, N, G, M, I, s, Chksts(x, f)) BY <2>3, <3>1, FineChksts
    <3> QED BY <2>1, <2>3, <3>2
  <2> QED BY <2>2, <2>3
<1> QED BY <1>3, <1>4, <1>5, <1>6, <1>7, <1>8

(* A circuit that changes in ways that do not matter, and may send an      *)
(* acknowledgement.                                                        *)
LEMMA FineAlike ==
  ASSUME NEW h, NEW K, NEW N, NEW G, NEW M, NEW I, NEW s, NEW x,
         Fine(h, K, N, G, M, I, s, x), x.c.st # L4SDSCED, NEW c, Sound(c),
         c.st = x.c.st, c.ideige = x.c.ideige, Weaker(x.c, c)
  PROVE  /\ Fine(h, K, N, G, M, I, s, [x EXCEPT !.c = c])
         /\ c.st = L4SIXFER => Fine(h, K, N, G, M, I, s, SndAck([x EXCEPT !.c = c]))
<1>0. Fit(h, K, N, G, s, x) BY FineTypes
<1>1. Ctx(x) BY <1>0 DEF Fit
<1>2. Fine(h, K, N, G, M, I, s, [x EXCEPT !.c = c]) BY FineTell
<1>3. [x EXCEPT !.c = c].c = c BY <1>1, SetCircuit DEF Sound
<1> QED BY <1>2, <1>3, FineAck

LEMMA Clr4rxWeaker ==
  ASSUME NEW c, Sound(c), NEW k \in 0 .. c.numrx
  PROVE  /\ Weaker(c, Clr4rx(c, k)) /\ Sound(Clr4rx(c, k))
         /\ Clr4rx(c, k).st = c.st /\ Clr4rx(c, k).ideige = c.ideige
         /\ \A flag \in SUBSET Flags : ("PBUSY" \in flag => "PBUSY" \in c.l4flag) =>
              LET d == [Clr4rx(c, k) EXCEPT !.l4flag = flag]
                  e == [Clr4rx(c, k) EXCEPT !.l4flag = flag, !.l4rs = 0]
              IN  /\ Sound(d) /\ d.st = c.st /\ d.ideige = c.ideige /\ Weaker(c, d)
                  /\ Sound(e) /\ e.st = c.st /\ e.ideige = c.ideige /\ Weaker(c, e)
<1> DEFINE b == Clr4rx(c, k)
<1>1. Shaped(c) BY DEF Sound
<1>2. Alike(c, b) BY <1>1, TakenAlike
<1>3. Sound(b) /\ b.st = c.st /\ b.ideige = c.ideige /\ Shaped(b)
  BY <1>2, AlikeSound DEF Alike
<1>4. /\ b.idpart = c.idpart /\ b.idxpar = c.idxpar
      /\ b.mbhdtx = c.mbhdtx /\ b.window = c.window /\ b.mbhdos = c.mbhdos
      /\ b.l4rxvs = c.l4rxvs /\ b.l4vr = c.l4vr /\ b.l4flag = c.l4flag
  BY <1>1 DEF Clr4rx, Shaped, IsRec, CircuitFields
<1> HIDE DEF b
<1>5. Weaker(c, b) BY <1>3, <1>4 DEF Weaker
<1>6. ASSUME NEW flag \in SUBSET Flags, "PBUSY" \in flag => "PBUSY" \in c.l4flag
      PROVE  LET d == [b EXCEPT !.l4flag = flag]
                 e == [b EXCEPT !.l4flag = flag, !.l4rs = 0]
             IN  /\ Sound(d) /\ d.st = c.st /\ d.ideige = c.ideige /\ Weaker(c, d)
                 /\ Sound(e) /\ e.st = c.st /\ e.ideige = c.ideige /\ Weaker(c, e)
  <2> DEFINE d == [b EXCEPT !.l4flag = flag]
             e == [b EXCEPT !.l4flag = flag, !.l4rs = 0]
  <2>1. Alike(b, d) /\ Alike(b, e) BY <1>3, <1>4, <1>6, BusyAlike
  <2>2. /\ Sound(d) /\ d.st = c.st /\ d.ideige = c.ideige
        /\ Sound(e) /\ e.st = c.st /\ e.ideige = c.ideige
    BY <1>3, <2>1, AlikeSound DEF Alike
  <2>3. /\ d.idpart = b.idpart /\ d.idxpar = b.idxpar
        /\ d.mbhdtx = b.mbhdtx /\ d.window = b.window /\ d.mbhdos = b.mbhdos
        /\ d.l4rxvs = b.l4rxvs /\ d.l4vr = b.l4vr
        /\ e.idpart = b.idpart /\ e.idxpar = b.idxpar
        /\ e.mbhdtx = b.mbhdtx /\ e.window = b.window /\ e.mbhdos = b.mbhdos
        /\ e.l4rxvs = b.l4rxvs /\ e.l4vr = b.l4vr
    BY <1>3 DEF Shaped, IsRec, CircuitFields
  <2> HIDE DEF d, e
  <2>4. Weaker(c, d) /\ Weaker(c, e) BY <1>4, <2>2, <2>3 DEF Weaker
  <2> QED BY <2>2, <2>4 DEF d, e
<1> QED BY <1>3, <1>5, <1>6 DEF b

(* l4rest.                                                                 *)
LEMMA FineRest ==
  ASSUME NEW h, NEW K, NEW N, NEW G, NEW M, NEW I, NEW s, NEW x,
         Fine(h, K, N, G, M, I, s, x), x.acc = <<>>, x.c.st # L4SDSCED,
         NEW k \in 0 .. x.c.numrx, NEW mem, NEW early
  PROVE  Fine(h, K, N, G, M, I, s, L4rest(x, k, mem, early))
<1>0. Fit(h, K, N, G, s, x) BY FineTypes
<1>1. Ctx(x) /\ Shaped(x.c) /\ Sound(x.c) BY <1>0 DEF Fit
<1> DEFINE c == Clr4rx(x.c, k)
           y == [x EXCEPT !.c = c]
           b == [c EXCEPT !.l4flag = @ \cup {"BUSY"}, !.l4rs = 0]
           d == [c EXCEPT !.l4flag = @ \ {"BUSY"}]
           busy == [y EXCEPT !.c = b]
           free == [y EXCEPT !.c = d]
<1>2. Fine(h, K, N, G, M, I, s, [x EXCEPT !.c = L4nsta(x.c)]) BY <1>1, FineDie
<1>3. x.c.st = L4SIXFER => Fine(h, K, N, G, M, I, s, EndCir(x)) BY FineEndCir
<1>4. c.l4flag = x.c.l4flag /\ c.l4flag \in SUBSET Flags
  BY <1>1 DEF Clr4rx, Shaped, IsRec, CircuitFields, Typed
<1>5. Weaker(x.c, c) /\ Sound(c) /\ c.st = x.c.st /\ c.ideige = x.c.ideige
  BY <1>1, Clr4rxWeaker
<1>6. /\ c.l4flag \cup {"BUSY"} \in SUBSET Flags
      /\ "PBUSY" \in c.l4flag \cup {"BUSY"} => "PBUSY" \in x.c.l4flag
      /\ c.l4flag \ {"BUSY"} \in SUBSET Flags
      /\ "PBUSY" \in c.l4flag \ {"BUSY"} => "PBUSY" \in x.c.l4flag
  BY <1>4 DEF Flags
<1>7. /\ Weaker(x.c, b) /\ Sound(b) /\ b.st = x.c.st /\ b.ideige = x.c.ideige
      /\ Weaker(x.c, d) /\ Sound(d) /\ d.st = x.c.st /\ d.ideige = x.c.ideige
  <2> DEFINE more == c.l4flag \cup {"BUSY"}
             less == c.l4flag \ {"BUSY"}
  <2>1. b = [c EXCEPT !.l4flag = more, !.l4rs = 0] /\ d = [c EXCEPT !.l4flag = less] OBVIOUS
  <2>2. /\ more \in SUBSET Flags /\ ("PBUSY" \in more => "PBUSY" \in x.c.l4flag)
        /\ less \in SUBSET Flags /\ ("PBUSY" \in less => "PBUSY" \in x.c.l4flag)
    BY <1>6
  <2>3. \A flag \in SUBSET Flags : ("PBUSY" \in flag => "PBUSY" \in x.c.l4flag) =>
          LET v == [c EXCEPT !.l4flag = flag]
              e == [c EXCEPT !.l4flag = flag, !.l4rs = 0]
          IN  /\ Sound(v) /\ v.st = x.c.st /\ v.ideige = x.c.ideige /\ Weaker(x.c, v)
              /\ Sound(e) /\ e.st = x.c.st /\ e.ideige = x.c.ideige /\ Weaker(x.c, e)
    BY <1>1, Clr4rxWeaker
  <2> HIDE DEF more, less, c, b, d
  <2> QED BY <2>1, <2>2, <2>3
<1>9. busy = [x EXCEPT !.c = b] /\ free = [x EXCEPT !.c = d]
  <2> HIDE DEF b, d, c
  <2> QED BY <1>1 DEF Ctx, IsRec, ContextFields
<1>10. L4rest(x, k, mem, early) =
         IF "DIMM" \in x.c.l4flag THEN [x EXCEPT !.c = L4nsta(x.c)]
         ELSE IF x.c.st # L4SIXFER THEN x
         ELSE IF "DSLE" \in x.c.l4flag /\ x.c.mbhdtx = <<>> THEN EndCir(x)
         ELSE IF "BUSY" \in c.l4flag
           THEN IF mem = "high" /\ Room(c) THEN SndAck(free) ELSE y
         ELSE IF mem = "low" THEN SndAck(busy)
         ELSE IF c.acktim /\ early /\ RxUnack(c) >= c.window \div 2 /\ Room(c)
           THEN SndAck(y)
         ELSE y
  BY DEF L4rest
<1> HIDE DEF c, b, d
<1>11. Fine(h, K, N, G, M, I, s, y) BY <1>5, FineAlike
<1>12. x.c.st = L4SIXFER => Fine(h, K, N, G, M, I, s, SndAck(y)) BY <1>5, FineAlike
<1>13. x.c.st = L4SIXFER => Fine(h, K, N, G, M, I, s, SndAck(busy)) BY <1>7, <1>9, FineAlike
<1>14. x.c.st = L4SIXFER => Fine(h, K, N, G, M, I, s, SndAck(free)) BY <1>7, <1>9, FineAlike
<1> HIDE DEF y, busy, free
<1> QED BY <1>2, <1>3, <1>10, <1>11, <1>12, <1>13, <1>14

-----------------------------------------------------------------------------
(* trasrv.  A setup that is repeated sends a CONREQ, which is another      *)
(* matter.                                                                 *)
LEMMA TriesType ==
  ASSUME NEW a \in 0 .. 127, ~(a + 1 >= Retry)
  PROVE  a + 1 < Retry /\ a + 1 \in 0 .. 127
BY RetryAssumption

LEMMA FineTimeout ==
  ASSUME NEW h, NEW K, NEW N, NEW G, NEW M, NEW I, NEW s, NEW x,
         Fine(h, K, N, G, M, I, s, x), x.acc = <<>>, x.c.st # L4SDSCED,
         ~(x.c.st = L4SLKSUP /\ Tries(x.c) < Retry)
  PROVE  /\ Fine(h, K, N, G, M, I, s, Timeout(x))
         /\ x.c.st = L4SIXFER => Timeout(x).c.st = L4SIXFER
<1>0. Fit(h, K, N, G, s, x) BY FineTypes
<1>1. Ctx(x) /\ Shaped(x.c) /\ Sound(x.c) BY <1>0 DEF Fit
<1>2. Result(x, Timeout(x)) BY <1>1, TimeoutSound
<1> DEFINE c == [x.c EXCEPT !.traout = FALSE]
           u == Unchoked(c)
           b == [c EXCEPT !.l4try = Tries(c)]
           y == [x EXCEPT !.c = b]
           d == [b EXCEPT !.traout = TRUE]
           f == ToPartner(b, "DISREQ")
<1>3. Shaped(c) /\ c.st = x.c.st /\ c.ideige = x.c.ideige BY <1>1, TimerType
<1>4. Tries(c) = Tries(x.c) BY <1>1 DEF Tries, Shaped, IsRec, CircuitFields
<1>5. Timeout(x) = IF c.st = L4SIXFER THEN [x EXCEPT !.c = u]
                   ELSE IF Tries(c) >= Retry THEN [x EXCEPT !.c = L4nsta(c)]
                   ELSE IF c.st = L4SLKSUP THEN SConrq(y) ELSE SDisrq(y)
  BY DEF Timeout
<1>6. CASE x.c.st = L4SIXFER
  <2>1. /\ u.st = x.c.st /\ u.idpart = x.c.idpart /\ u.idxpar = x.c.idxpar
        /\ u.mbhdtx = x.c.mbhdtx /\ u.window = x.c.window /\ u.mbhdos = x.c.mbhdos
        /\ u.l4rxvs = x.c.l4rxvs /\ u.l4vr = x.c.l4vr
    BY <1>1, <1>3 DEF Unchoked, Shaped, IsRec, CircuitFields
  <2> HIDE DEF c, u
  <2>2. Timeout(x) = [x EXCEPT !.c = u] BY <1>3, <1>5, <1>6
  <2>3. Timeout(x).c = u BY <1>1, <2>2 DEF Ctx, IsRec, ContextFields
  <2>4. Sound(u) /\ u.ideige = x.c.ideige BY <1>2, <2>3 DEF Result
  <2>5. Weaker(x.c, u) BY <2>1 DEF Weaker
  <2>6. u.st # L4SDSCED BY <1>6, <2>1, StatesDiffer
  <2>7. Fine(h, K, N, G, M, I, s, [x EXCEPT !.c = u]) BY <2>4, <2>5, <2>6, FineTell
  <2> QED BY <1>6, <2>1, <2>2, <2>3, <2>7
<1>7. CASE x.c.st # L4SIXFER /\ Tries(c) >= Retry
  <2>1. Timeout(x) = [x EXCEPT !.c = L4nsta(c)] BY <1>3, <1>5, <1>7
  <2>2. Fine(h, K, N, G, M, I, s, [x EXCEPT !.c = L4nsta(c)]) BY <1>3, FineDie
  <2> QED BY <1>7, <2>1, <2>2
<1>8. CASE x.c.st # L4SIXFER /\ ~(Tries(c) >= Retry)
  <2>1. x.c.st = L4SDSCRQ
    <3>1. x.c.l4try \in 0 .. 127 BY <1>1 DEF Shaped, Typed
    <3>2. Tries(x.c) < Retry
      <4>1. ~(x.c.l4try + 1 >= Retry) BY <1>4, <1>8 DEF Tries
      <4> QED BY <3>1, <4>1, TriesType DEF Tries
    <3>3. x.c.st \in States BY <1>1 DEF Shaped, Typed
    <3> QED BY <1>8, <3>2, <3>3 DEF States
  <2>2. IsRec(b, CircuitFields) /\ IsRec(x, ContextFields)
    BY <1>1, <1>3 DEF Shaped, Ctx, IsRec, CircuitFields
  <2>3. /\ b.st = x.c.st /\ b.idpart = x.c.idpart /\ b.idxpar = x.c.idxpar
        /\ b.mbhdtx = x.c.mbhdtx
    BY <1>1, <1>3 DEF Shaped, IsRec, CircuitFields
  <2> HIDE DEF b
  <2>4. /\ d.st = x.c.st /\ d.idpart = x.c.idpart /\ d.idxpar = x.c.idxpar
        /\ d.mbhdtx = x.c.mbhdtx
    BY <2>2, <2>3 DEF IsRec, CircuitFields
  <2>5. Timeout(x) = SDisrq(y) BY <1>3, <1>5, <1>8, <2>1, StatesDiffer
  <2>6. SDisrq(y) = Send([x EXCEPT !.c = d], f) /\ SDisrq(y).c = d
    BY <2>2 DEF SDisrq, Send, IsRec, ContextFields
  <2> HIDE DEF d
  <2>7. Sound(d) /\ d.ideige = x.c.ideige BY <1>2, <2>5, <2>6 DEF Result
  <2>8. Weaker(x.c, d) BY <2>1, <2>4, StatesDiffer DEF Weaker
  <2>9. d.st # L4SDSCED BY <2>1, <2>4, StatesDiffer
  <2>10. f \in Frame /\ f.op = "DISREQ"
    <3>1. f = ToPartner(x.c, "DISREQ") BY <2>3 DEF ToPartner
    <3> QED BY <1>1, <3>1, ToPartnerType DEF Opcode
  <2>11. ~Token(f) /\ ~Carries(f) BY <2>10 DEF Token, Carries
  <2> HIDE DEF f
  <2>12. Fine(h, K, N, G, M, I, s, Send([x EXCEPT !.c = d], f))
    BY <2>7, <2>8, <2>9, <2>10, <2>11, FineTell
  <2> QED BY <1>8, <2>5, <2>6, <2>12
<1> QED BY <1>6, <1>7, <1>8

LEMMA FineRepeat ==
  ASSUME NEW h, NEW K, NEW N, NEW G, NEW M, NEW I, NEW s, NEW x,
         Fine(h, K, N, G, M, I, s, x), x.acc = <<>>, x.c.st = L4SIXFER,
         NEW j \in 1 .. Fropen(x.c)
  PROVE  /\ Fine(h, K, N, G, M, I, s, Repeat(x, j))
         /\ Repeat(x, j).c.st = L4SIXFER \/ ~Repeat(x, j).c.acktim
<1>0. Fit(h, K, N, G, s, x) BY FineTypes
<1>1. Ctx(x) /\ Shaped(x.c) /\ Sound(x.c) BY <1>0 DEF Fit
<1> DEFINE tries == x.c.mbhdtx[j].l4trie + 1
           entry == [x.c.mbhdtx[j] EXCEPT !.l4trie = tries]
           tx == [x.c.mbhdtx EXCEPT ![j] = entry]
           d == [x.c EXCEPT !.mbhdtx = tx]
           y == [x EXCEPT !.c = d]
           seq == (x.c.l4rxvs + j - 1) % Mod
           m == x.c.mbhdtx[j].m
<1>2. [x EXCEPT !.c.mbhdtx[j].l4trie = tries] = y
  <2> HIDE DEF tries
  <2> QED BY <1>1 DEF Ctx, Shaped, IsRec, CircuitFields, ContextFields
<1>3. Repeat(x, j) = IF tries >= Retry THEN [x EXCEPT !.c = L4nsta(x.c)]
                     ELSE SndFrm(y, seq, m)
  BY <1>2 DEF Repeat
<1>4. x.c.mbhdtx \in Seq(Entry) /\ j \in 1 .. Len(x.c.mbhdtx) /\ j \in Nat /\ j <= x.c.window
  <2>1. x.c.mbhdtx \in Seq(Entry) /\ x.c.window \in 1 .. Mod - 1 BY <1>1 DEF Shaped, Typed
  <2>2. Fropen(x.c) <= Len(x.c.mbhdtx) /\ Fropen(x.c) <= x.c.window
    BY <1>1, StatesDiffer DEF Sound, Windowed
  <2>3. Fropen(x.c) \in 0 .. Mod - 1 BY <1>1, FropenType
  <2>4. Len(x.c.mbhdtx) \in Nat BY <2>1, LenProperties
  <2> QED BY <2>1, <2>2, <2>3, <2>4, ModType
<1>5. x.c.mbhdtx[j] \in Entry BY <1>4, ElementOfSeq
<1>6. m \in Message /\ x.c.mbhdtx[j].l4trie \in 0 .. 127 BY <1>5 DEF Entry
<1> HIDE DEF seq
<1>7. CASE tries >= Retry
  <2>1. Repeat(x, j) = [x EXCEPT !.c = L4nsta(x.c)] BY <1>3, <1>7
  <2>2. Fine(h, K, N, G, M, I, s, [x EXCEPT !.c = L4nsta(x.c)]) BY <1>1, FineDie
  <2>3. Repeat(x, j).c = L4nsta(x.c)
    <3> DEFINE e == L4nsta(x.c)
    <3> HIDE DEF e
    <3>1. [x EXCEPT !.c = e].c = e BY <1>1 DEF Ctx, IsRec, ContextFields
    <3> QED BY <2>1, <3>1 DEF e
  <2>4. ~L4nsta(x.c).acktim BY <1>1, L4nstaEnds
  <2> QED BY <2>1, <2>2, <2>3, <2>4
<1>8. CASE ~(tries >= Retry)
  <2>1. tries \in 0 .. 127
    <3>1. x.c.mbhdtx[j].l4trie \in 0 .. 127 BY <1>6
    <3> QED BY <1>8, <3>1, TriesType
  <2>2. Repeat(x, j) = SndFrm(y, seq, m) BY <1>3, <1>8
  <2> HIDE DEF tries
  <2>3. entry \in Entry /\ entry.m = m BY <1>5, <2>1 DEF Entry
  <2> HIDE DEF entry
  <2>4. /\ tx \in Seq(Entry) /\ Len(tx) = Len(x.c.mbhdtx)
        /\ \A i \in 1 .. Len(x.c.mbhdtx) : tx[i].m = x.c.mbhdtx[i].m
    <3>1. tx \in Seq(Entry) /\ Len(tx) = Len(x.c.mbhdtx) BY <1>4, <2>3, ExceptSeq
    <3>2. x.c.mbhdtx = [i \in 1 .. Len(x.c.mbhdtx) |-> x.c.mbhdtx[i]] BY <1>4, LenProperties
    <3>3. \A i \in 1 .. Len(x.c.mbhdtx) : tx[i] = IF i = j THEN entry ELSE x.c.mbhdtx[i]
      BY <3>2
    <3> QED BY <2>3, <3>1, <3>3
  <2> HIDE DEF tx
  <2>5. IsRec(d, CircuitFields) BY <1>1 DEF Shaped, IsRec
  <2>6. Typed(d) BY <1>1, <2>4, <2>5 DEF Shaped, IsRec, CircuitFields, Typed
  <2>7. /\ d.mbhdtx = tx /\ d.st = x.c.st /\ d.idpart = x.c.idpart /\ d.idxpar = x.c.idxpar
        /\ d.window = x.c.window /\ d.mbhdos = x.c.mbhdos
        /\ d.l4rxvs = x.c.l4rxvs /\ d.l4vr = x.c.l4vr /\ d.ideige = x.c.ideige
    BY <1>1 DEF Shaped, IsRec, CircuitFields
  <2>8. Alike(x.c, d)
    BY <1>1, <2>4, <2>5, <2>6 DEF Alike, Shaped, IsRec, CircuitFields
  <2>9. Sound(d) BY <1>1, <2>8, AlikeSound
  <2> HIDE DEF d
  <2>10. Weaker(x.c, d) BY <2>4, <2>7 DEF Weaker
  <2>11. d.st # L4SDSCED BY <2>7, StatesDiffer
  <2>12. Fine(h, K, N, G, M, I, s, y) BY <2>7, <2>9, <2>10, <2>11, FineTell
  <2>13. y.c = d /\ Ctx(y) BY <1>1, <2>9, SetCircuit DEF Sound
  <2> HIDE DEF y
  <2>14. Fine(h, K, N, G, M, I, s, SndFrm(y, seq, m))
    <3>1. y.c.st = L4SIXFER /\ j \in 1 .. Len(y.c.mbhdtx) /\ j <= y.c.window
      BY <1>4, <2>4, <2>7, <2>13
    <3>2. seq = (y.c.l4rxvs + j - 1) % Mod /\ m = y.c.mbhdtx[j].m
      BY <1>4, <2>4, <2>7, <2>13 DEF seq
    <3> HIDE DEF m
    <3> QED BY <2>12, <3>1, <3>2, FineFrm
  <2>15. SndFrm(y, seq, m).c = AckSent(d)
    <3>1. x.c.l4rxvs + j - 1 \in Int
      <4>1. x.c.l4rxvs \in Int BY <1>1, ModType DEF Shaped, Typed
      <4> QED BY <1>4, <4>1
    <3>2. seq \in 0 .. Mod - 1 BY <3>1, ModInt DEF seq
    <3>3. seq \in Nat BY <3>2, ModType
    <3> QED BY <1>6, <2>13, <3>3, SndFrmType
  <2>16. AckSent(d).st = d.st BY <2>9, AckSentWeaker DEF Sound
  <2> QED BY <2>2, <2>7, <2>14, <2>15, <2>16
<1> QED BY <1>7, <1>8

LEMMA FineAckDue ==
  ASSUME NEW h, NEW K, NEW N, NEW G, NEW M, NEW I, NEW s, NEW x,
         Fine(h, K, N, G, M, I, s, x), x.c.st = L4SIXFER
  PROVE  Fine(h, K, N, G, M, I, s, AckDue(x))
<1>0. Fit(h, K, N, G, s, x) BY FineTypes
<1>1. Ctx(x) /\ Shaped(x.c) /\ Sound(x.c) BY <1>0 DEF Fit
<1> DEFINE slow == x.c.numrx > x.c.window \div 2 /\ RxUnack(x.c) >= x.c.window
           d == [x.c EXCEPT !.l4flag = x.c.l4flag \cup {"BUSY"}, !.l4rs = 0]
           y == [x EXCEPT !.c = d]
<1>2. AckDue(x) = SndAck(IF slow THEN y ELSE x) BY DEF AckDue
<1> HIDE DEF slow
<1>3. Sound(d) /\ d.ideige = x.c.ideige /\ d.st = x.c.st
  <2>1. Shaped(x.c) /\ x.c.l4flag \in SUBSET Flags BY <1>1 DEF Shaped, Typed
  <2>2. x.c.l4flag \cup {"BUSY"} \in SUBSET Flags BY <2>1 DEF Flags
  <2>3. "PBUSY" \in x.c.l4flag \cup {"BUSY"} => "PBUSY" \in x.c.l4flag OBVIOUS
  <2>4. Alike(x.c, d) BY <2>1, <2>2, <2>3, BusyAlike
  <2> QED BY <1>1, <2>4, AlikeSound DEF Alike
<1>4. /\ d.idpart = x.c.idpart /\ d.idxpar = x.c.idxpar
      /\ d.mbhdtx = x.c.mbhdtx /\ d.window = x.c.window /\ d.mbhdos = x.c.mbhdos
      /\ d.l4rxvs = x.c.l4rxvs /\ d.l4vr = x.c.l4vr
  BY <1>1 DEF Shaped, IsRec, CircuitFields
<1> HIDE DEF d
<1>5. Weaker(x.c, d) BY <1>3, <1>4 DEF Weaker
<1>6. Fine(h, K, N, G, M, I, s, SndAck(y)) BY <1>3, <1>5, StatesDiffer, FineAlike
<1>7. Fine(h, K, N, G, M, I, s, SndAck(x)) BY FineAck
<1> QED BY <1>2, <1>6, <1>7

LEMMA FineTrasrv ==
  ASSUME NEW h, NEW K, NEW N, NEW G, NEW M, NEW I, NEW s, NEW x,
         Fine(h, K, N, G, M, I, s, x), x.acc = <<>>, x.c.st # L4SDSCED,
         NEW t, "tranoa" \notin t.due,
         x.c.st = L4SIXFER /\ t.open # 0 => t.open \in 1 .. Fropen(x.c),
         "traout" \in t.due /\ x.c.traout =>
           ~(x.c.st = L4SLKSUP /\ Tries(x.c) < Retry)
  PROVE  Fine(h, K, N, G, M, I, s, Trasrv(x, t))
<1> DEFINE up == x.c.st = L4SIXFER
           afterT == IF "traout" \in t.due /\ x.c.traout THEN Timeout(x)
                     ELSE IF up /\ ~x.c.traout /\ t.open # 0 THEN Repeat(x, t.open)
                     ELSE x
<1>1. Trasrv(x, t) = IF up /\ "acktim" \in t.due /\ afterT.c.acktim THEN AckDue(afterT)
                     ELSE afterT
  BY DEF Trasrv
<1>2. ASSUME "traout" \in t.due, x.c.traout
      PROVE  /\ Fine(h, K, N, G, M, I, s, Timeout(x))
             /\ up => Timeout(x).c.st = L4SIXFER
  BY <1>2, FineTimeout
<1>3. ASSUME up, t.open # 0
      PROVE  /\ Fine(h, K, N, G, M, I, s, Repeat(x, t.open))
             /\ Repeat(x, t.open).c.st = L4SIXFER \/ ~Repeat(x, t.open).c.acktim
  <2>1. t.open \in 1 .. Fropen(x.c) BY <1>3
  <2> QED BY <1>3, <2>1, FineRepeat
<1>4. /\ Fine(h, K, N, G, M, I, s, afterT)
      /\ up => afterT.c.st = L4SIXFER \/ ~afterT.c.acktim
  <2> HIDE DEF Timeout, Repeat
  <2> QED BY <1>2, <1>3
<1> HIDE DEF afterT
<1>5. ASSUME up, afterT.c.acktim PROVE Fine(h, K, N, G, M, I, s, AckDue(afterT))
  BY <1>4, <1>5, FineAckDue
<1> QED BY <1>1, <1>4, <1>5
=============================================================================
