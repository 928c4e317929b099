---------------------------- MODULE ConversProofs ----------------------------
(***************************************************************************)
(* Proofs about Convers, for every network of hosts and all users.         *)
(***************************************************************************)
EXTENDS Convers, FiniteSetTheorems, SequenceTheorems, WellFoundedInduction, TLAPS

-----------------------------------------------------------------------------
(* The inductive invariant.  The lines under way are not part of it: what  *)
(* a line says is checked when it is read.                                 *)

Fields == {"conn", "ends", "q", "perm", "dest", "local", "remote", "chans"}

IsRec(w) == w = [f \in Fields |-> w[f]]

OfHosts(f) == f = [n \in Host |-> f[n]]

Tables == {"conn", "perm", "dest", "local", "remote", "chans"}

IsWorld(w) == IsRec(w) /\ \A f \in Tables : OfHosts(w[f])

ConnTypes == {"none", "unknown", "host", "closed"}
Permlink == [conn : Stream \cup {NoStream}, locked : BOOLEAN]
Peers(n) == {Peer(s, n) : s \in StreamsOf(n)}

IsList(l) == Len(l) \in Nat /\ l = [i \in 1 .. Len(l) |-> l[i]]

IsUser(x) == x = [list |-> x.list, def |-> x.def, away |-> x.away] /\ IsList(x.list)

IsEntry(r) == r = [u |-> r.u, h |-> r.h, via |-> r.via, ch |-> r.ch, away |-> r.away]

(* The tables of host n have the shape the code gives them.                *)
ShapeOK(w, n) ==
  /\ w.conn[n] \in [StreamsOf(n) -> ConnTypes]
  /\ w.perm[n] \in [Peers(n) -> Permlink]
  /\ w.dest[n] = [h \in Host |-> w.dest[n][h]]
  /\ w.local[n] = [u \in User |-> w.local[n][u]]
  /\ \A u \in User : IsUser(w.local[n][u])
  /\ IsList(w.remote[n])
  /\ \A r \in Range(w.remote[n]) : IsEntry(r)

(* Every channel that somebody is on exists.                               *)
ChansOK(w, n) ==
  /\ \A u \in User : Range(w.local[n][u].list) \subseteq w.chans[n]
  /\ \A r \in Range(w.remote[n]) : r.ch \in w.chans[n]

(* A PERMLINK's connection is one with its host, and a connection that is  *)
(* a host's is that of its PERMLINK.                                       *)
LinksOK(w, n) ==
  /\ \A m \in Peers(n) : w.perm[n][m].conn \in Between(n, m) \cup {NoStream}
  /\ \A s \in StreamsOf(n) : w.conn[n][s] = "host" => w.perm[n][Peer(s, n)].conn = s

(* Users and destinations are reached by connections of hosts.             *)
UsersOK(w, n) ==
  \A r \in Range(w.remote[n]) : r.via \in StreamsOf(n) /\ w.conn[n][r.via] = "host"

DestsOK(w, n) ==
  \A h \in Host : w.dest[n][h].rtt # 0 =>
    /\ w.dest[n][h].link \in Peers(n)
    /\ w.perm[n][w.dest[n][h].link].conn # NoStream
    /\ w.conn[n][w.perm[n][w.dest[n][h].link].conn] = "host"

HostOK(w, n) ==
  ShapeOK(w, n) /\ ChansOK(w, n) /\ LinksOK(w, n) /\ UsersOK(w, n) /\ DestsOK(w, n)

Good(w) == IsWorld(w) /\ \A n \in Host : HostOK(w, n)

-----------------------------------------------------------------------------
(* Lists.                                                                  *)

Before == {p \in Nat \X Nat : p[1] < p[2]}

LEMMA BeforeWF == IsWellFoundedOn(Before, Nat)
BY NatLessThanWellFounded DEF OpToRel, Before

LEMMA LeastElement ==
  ASSUME NEW S \in SUBSET Nat, S # {}
  PROVE  \E x \in S : \A y \in S : x <= y
<1>1. PICK x \in S : \A y \in S : <<y, x>> \notin Before BY BeforeWF, WFMin
<1>2. \A y \in S : ~(y < x) BY <1>1 DEF Before
<1> QED BY <1>1, <1>2

LEMMA SetInduction ==
  ASSUME NEW S, 0 \in S, \A n \in Nat : n \in S => n + 1 \in S
  PROVE  Nat \subseteq S
<1> SUFFICES ASSUME Nat \ S # {} PROVE FALSE OBVIOUS
<1>1. PICK x \in Nat \ S : \A y \in Nat \ S : x <= y BY LeastElement
<1>2. x # 0 BY <1>1
<1>3. x - 1 \in Nat BY <1>1, <1>2
<1>4. x - 1 \in S BY <1>1, <1>3
<1>5. (x - 1) + 1 \in S BY <1>3, <1>4
<1> QED BY <1>1, <1>5

LEMMA ListIntro ==
  ASSUME NEW m \in Nat, NEW f, f = [i \in 1 .. m |-> f[i]]
  PROVE  IsList(f) /\ Len(f) = m
<1>1. Len(f) = m OBVIOUS
<1> QED BY <1>1 DEF IsList

LEMMA ListSeq == ASSUME NEW l, IsList(l) PROVE l \in Seq(Range(l)) /\ DOMAIN l = 1 .. Len(l)
BY DEF IsList, Range

LEMMA SeqList == ASSUME NEW S, NEW l \in Seq(S) PROVE IsList(l)
BY DEF IsList

(* Every position but the last of a finite set of positions has a next one.*)
LEMMA Ranked ==
  ASSUME NEW m \in Nat, NEW I \in SUBSET (1 .. m), NEW k \in 1 .. Cardinality(I)
  PROVE  \E i \in I : Cardinality({j \in I : j < i}) = k - 1
<1> DEFINE below(i) == {j \in I : j < i}
           S == {c \in Nat : c < Cardinality(I) => \E i \in I : Cardinality(below(i)) = c}
<1>1. IsFiniteSet(I) /\ Cardinality(I) \in Nat
  <2>1. IsFiniteSet(1 .. m) BY FS_Interval
  <2> QED BY <2>1, FS_Subset, FS_CardinalityType
<1>2. I \in SUBSET Nat OBVIOUS
<1>3. 0 \in S
  <2>1. SUFFICES ASSUME 0 < Cardinality(I) PROVE \E i \in I : Cardinality(below(i)) = 0 OBVIOUS
  <2>2. I # {} BY <1>1, <2>1, FS_EmptySet
  <2>3. PICK i \in I : \A j \in I : i <= j BY <1>2, <2>2, LeastElement
  <2>4. \A j \in I : ~(j < i) BY <1>2, <2>3
  <2>5. below(i) = {} BY <2>4
  <2> QED BY <2>5, FS_EmptySet
<1>4. ASSUME NEW c \in Nat, c \in S PROVE c + 1 \in S
  <2>1. SUFFICES ASSUME c + 1 < Cardinality(I) PROVE \E i \in I : Cardinality(below(i)) = c + 1
    OBVIOUS
  <2>2. PICK i \in I : Cardinality(below(i)) = c BY <1>1, <1>4, <2>1
  <2> DEFINE T == below(i)
             U == {j \in I : i < j}
  <2>3. IsFiniteSet(T) /\ i \notin T BY <1>1, <1>2, FS_Subset
  <2>4. IsFiniteSet(T \cup {i}) /\ Cardinality(T \cup {i}) = c + 1
    BY <2>2, <2>3, FS_AddElement
  <2>5. U # {}
    <3>1. SUFFICES ASSUME U = {} PROVE FALSE OBVIOUS
    <3>2. \A j \in I : j < i \/ j = i BY <1>2, <3>1
    <3>3. I = T \cup {i} BY <3>2
    <3> HIDE DEF T
    <3> QED BY <1>1, <2>1, <2>4, <3>3
  <2>6. PICK x \in U : \A y \in U : x <= y
    <3>1. U \in SUBSET Nat BY <1>2
    <3> HIDE DEF U
    <3> QED BY <2>5, <3>1, LeastElement
  <2>7. \A j \in I : j < x <=> j < i \/ j = i
    <3>1. SUFFICES ASSUME NEW j \in I PROVE j < x <=> j < i \/ j = i OBVIOUS
    <3>2. i \in Nat /\ j \in Nat /\ x \in Nat /\ i < x BY <1>2, <2>6
    <3>3. i < j => x <= j BY <2>6
    <3> HIDE DEF U
    <3> QED BY <3>2, <3>3
  <2>8. below(x) = T \cup {i} BY <2>7
  <2> HIDE DEF T
  <2> QED BY <2>4, <2>6, <2>8
<1>5. Nat \subseteq S
  <2> HIDE DEF S
  <2> QED BY <1>3, <1>4, SetInduction
<1>6. k - 1 \in Nat /\ k - 1 < Cardinality(I) BY <1>1
<1> QED BY <1>5, <1>6

(* Those(l, I) is a list of what l has at the positions I.                 *)
LEMMA ThoseList ==
  ASSUME NEW l, IsList(l), NEW I \in SUBSET (DOMAIN l)
  PROVE  IsList(Those(l, I)) /\ \A x \in Range(Those(l, I)) : \E i \in I : x = l[i]
<1> DEFINE nth(k) == CHOOSE i \in I : Cardinality({j \in I : j < i}) = k - 1
<1>1. Len(l) \in Nat /\ DOMAIN l = 1 .. Len(l) BY DEF IsList
<1>2. I \in SUBSET (1 .. Len(l)) BY <1>1
<1>3. Cardinality(I) \in Nat
  <2>1. IsFiniteSet(1 .. Len(l)) BY <1>1, FS_Interval
  <2> QED BY <1>2, <2>1, FS_Subset, FS_CardinalityType
<1>4. Those(l, I) = [k \in 1 .. Cardinality(I) |-> l[nth(k)]] BY DEF Those
<1>5. ASSUME NEW k \in 1 .. Cardinality(I) PROVE nth(k) \in I
  <2>1. \E i \in I : Cardinality({j \in I : j < i}) = k - 1 BY <1>1, <1>2, Ranked
  <2> QED BY <2>1
<1> HIDE DEF nth
<1>6. DOMAIN Those(l, I) = 1 .. Cardinality(I)
      /\ \A k \in 1 .. Cardinality(I) : Those(l, I)[k] = l[nth(k)]
  BY <1>4
<1>7. Those(l, I) = [k \in 1 .. Cardinality(I) |-> Those(l, I)[k]] BY <1>4
<1>8. IsList(Those(l, I)) BY <1>3, <1>7, ListIntro
<1>9. ASSUME NEW x \in Range(Those(l, I)) PROVE \E i \in I : x = l[i]
  <2>1. PICK k \in 1 .. Cardinality(I) : x = Those(l, I)[k] BY <1>6 DEF Range
  <2> QED BY <1>5, <1>6, <2>1
<1> QED BY <1>8, <1>9

LEMMA ConsList ==
  ASSUME NEW l, IsList(l), NEW x
  PROVE  IsList(<<x>> \o l) /\ \A y \in Range(<<x>> \o l) : y = x \/ y \in Range(l)
<1> DEFINE S == Range(l) \cup {x}
           c == <<x>> \o l
<1>1. l \in Seq(Range(l)) BY ListSeq
<1>2. l \in Seq(S) /\ <<x>> \in Seq(S) BY <1>1
<1>3. c \in Seq(S) /\ DOMAIN c = 1 .. Len(c)
  <2> HIDE DEF S
  <2> QED BY <1>2
<1>4. IsList(c) BY <1>3, SeqList
<1>5. \A y \in Range(c) : y \in S BY <1>3 DEF Range
<1> QED BY <1>4, <1>5

LEMMA RemoveList ==
  ASSUME NEW l, IsList(l), NEW i \in DOMAIN l
  PROVE  IsList(RemoveAt(l, i)) /\ Range(RemoveAt(l, i)) \subseteq Range(l)
<1> DEFINE S == Range(l)
           c == RemoveAt(l, i)
<1>1. l \in Seq(S) /\ i \in 1 .. Len(l) /\ Len(l) \in Nat BY ListSeq DEF IsList
<1>2. c \in Seq(S)
  <2> HIDE DEF S
  <2>1. SubSeq(l, 1, i - 1) \in Seq(S) BY <1>1
  <2>2. SubSeq(l, i + 1, Len(l)) \in Seq(S) BY <1>1
  <2> QED BY <2>1, <2>2 DEF RemoveAt
<1>3. IsList(c) BY <1>2, SeqList
<1>4. DOMAIN c = 1 .. Len(c) /\ \A k \in 1 .. Len(c) : c[k] \in S BY <1>2
<1> QED BY <1>3, <1>4 DEF Range

LEMMA ExceptList ==
  ASSUME NEW l, IsList(l), NEW i \in DOMAIN l, NEW x
  PROVE  /\ IsList([l EXCEPT ![i] = x])
         /\ \A y \in Range([l EXCEPT ![i] = x]) : y = x \/ y \in Range(l)
<1> DEFINE c == [l EXCEPT ![i] = x]
<1>1. Len(l) \in Nat /\ DOMAIN l = 1 .. Len(l) BY DEF IsList
<1>2. c = [k \in 1 .. Len(l) |-> c[k]] BY <1>1
<1>3. IsList(c) /\ DOMAIN c = 1 .. Len(l) BY <1>1, <1>2, ListIntro
<1>4. \A k \in 1 .. Len(l) : c[k] = x \/ c[k] = l[k] BY <1>1
<1> QED BY <1>1, <1>3, <1>4 DEF Range

LEMMA Selected ==
  ASSUME NEW m \in Nat, NEW I \in SUBSET (1 .. m)
  PROVE  LET i == IF I # {} THEN Min(I) ELSE 0
         IN  IF I # {} THEN i \in I ELSE i = 0
<1>1. CASE I # {}
  <2>1. \E x \in I : \A y \in I : x <= y BY <1>1, LeastElement
  <2>2. Min(I) \in I BY <2>1 DEF Min
  <2> QED BY <1>1, <2>2
<1> QED BY <1>1

-----------------------------------------------------------------------------
(* What the operators change.                                              *)

(* v differs from w only in the tables F of host n (and in the streams).   *)
Within(w, v, n, F) ==
  /\ IsWorld(v)
  /\ \A f \in Tables, k \in Host : f \notin F \/ k # n => v[f][k] = w[f][k]

Put(w, f, n, x) == [w EXCEPT ![f][n] = x]

LEMMA SetTable ==
  ASSUME NEW w, IsWorld(w), NEW n \in Host, NEW f \in Tables, NEW x
  PROVE  Within(w, Put(w, f, n, x), n, {f}) /\ Put(w, f, n, x)[f][n] = x
<1> DEFINE v == [w EXCEPT ![f][n] = x]
<1>1. w = [g \in Fields |-> w[g]] /\ f \in Fields BY DEF IsWorld, IsRec, Tables, Fields
<1>2. v[f] = [w[f] EXCEPT ![n] = x] /\ \A g \in Fields \ {f} : v[g] = w[g] BY <1>1
<1>3. w[f] = [k \in Host |-> w[f][k]] BY DEF IsWorld, OfHosts
<1>4. v[f][n] = x /\ \A k \in Host \ {n} : v[f][k] = w[f][k] BY <1>2, <1>3
<1>5. OfHosts(v[f]) BY <1>2, <1>3 DEF OfHosts
<1>6. \A g \in Tables \ {f} : OfHosts(v[g]) BY <1>2 DEF IsWorld, Tables, Fields
<1>7. IsRec(v) BY <1>1 DEF IsRec
<1> HIDE DEF v
<1>8. \A g \in Tables, k \in Host : g # f \/ k # n => v[g][k] = w[g][k]
  BY <1>2, <1>4 DEF Tables, Fields
<1>9. Within(w, v, n, {f}) /\ v[f][n] = x
  <2>1. \A g \in Tables : OfHosts(v[g]) BY <1>5, <1>6
  <2> QED BY <1>4, <1>7, <1>8, <2>1 DEF Within, IsWorld
<1> QED BY <1>9 DEF v, Put

LEMMA SetLines ==
  ASSUME NEW w, IsWorld(w), NEW n, NEW f \in {"q", "ends"}, NEW x
  PROVE  Within(w, [w EXCEPT ![f] = x], n, {})
<1> DEFINE v == [w EXCEPT ![f] = x]
<1>1. w = [g \in Fields |-> w[g]] /\ f \in Fields BY DEF IsWorld, IsRec, Fields
<1>2. \A g \in Fields \ {f} : v[g] = w[g] BY <1>1
<1>3. \A g \in Tables : v[g] = w[g] BY <1>2 DEF Tables, Fields
<1>4. IsRec(v) BY <1>1 DEF IsRec
<1> HIDE DEF v
<1>5. Within(w, v, n, {}) BY <1>3, <1>4 DEF Within, IsWorld
<1> QED BY <1>5 DEF v

LEMMA SendToOnly ==
  ASSUME NEW w, IsWorld(w), NEW n, NEW S, NEW lines
  PROVE  Within(w, SendTo(w, n, S, lines), n, {})
BY SetLines DEF SendTo

LEMMA WithinTrans ==
  ASSUME NEW w, NEW v, NEW x, NEW n, NEW F, NEW G, Within(w, v, n, F), Within(v, x, n, G)
  PROVE  Within(w, x, n, F \cup G)
BY DEF Within

LEMMA UpdateDestinationsOnly ==
  ASSUME NEW w, IsWorld(w), NEW n \in Host, NEW m, NEW hs, NEW rtt
  PROVE  LET v == UpdateDestinations(w, n, m, hs, rtt) IN
         /\ Within(w, v, n, {"dest"})
         /\ v.dest[n] = [h \in Host |-> v.dest[n][h]]
         /\ \A h \in Host : IF h \in hs THEN v.dest[n][h].link = m /\ v.dest[n][h].rtt = rtt
                            ELSE v.dest[n][h] = w.dest[n][h]
<1> DEFINE S == {s \in HostConns(w, n) : Peer(s, n) # m /\ w.perm[n][Peer(s, n)].conn = s}
           told == {h \in hs : S # {} /\ Abs(rtt - w.dest[n][h].sent) > w.dest[n][h].sent \div 8}
           entry(h) == [link |-> m, rtt |-> rtt,
                        sent |-> IF h \in told THEN rtt ELSE w.dest[n][h].sent]
           line(h) == [t |-> "DEST", h |-> h, rtt |-> rtt]
           lines == SetToSeq({line(h) : h \in told})
           row == [h \in Host |-> IF h \in hs THEN entry(h) ELSE w.dest[n][h]]
           x == [w EXCEPT !.dest[n] = row]
           v == SendTo(x, n, S, lines)
<1>1. UpdateDestinations(w, n, m, hs, rtt) = v
  <2>1. [w EXCEPT !.dest[n] = [h \in Host |-> IF h \in hs THEN entry(h) ELSE @[h]]] = x
    BY DEF IsWorld, IsRec, Tables, Fields, OfHosts
  <2> HIDE DEF x, S, told
  <2> QED BY <2>1 DEF UpdateDestinations, S, told
<1>2. Within(w, x, n, {"dest"}) /\ x.dest[n] = row
  <2>1. x = Put(w, "dest", n, row) BY DEF Put
  <2>2. "dest" \in Tables BY DEF Tables
  <2> HIDE DEF x, row
  <2> QED BY <2>1, <2>2, SetTable
<1>3. IsWorld(x) BY <1>2 DEF Within
<1>4. Within(x, v, n, {})
  <2> HIDE DEF x, S, lines
  <2> QED BY <1>3, SendToOnly
<1>5. Within(w, v, n, {"dest"})
  <2> HIDE DEF x, v
  <2>1. Within(w, v, n, {"dest"} \cup {}) BY <1>2, <1>4, WithinTrans
  <2> QED BY <2>1 DEF Within
<1>6. v.dest[n] = row
  <2> HIDE DEF x, v, row
  <2> QED BY <1>2, <1>4 DEF Within, Tables
<1>7. \A h \in Host : IF h \in hs THEN row[h].link = m /\ row[h].rtt = rtt
                     ELSE row[h] = w.dest[n][h] OBVIOUS
<1>8. row = [h \in Host |-> row[h]] OBVIOUS
<1> HIDE DEF v, row
<1> QED BY <1>1, <1>5, <1>6, <1>7, <1>8

(* What update_permlinks() does to w.                                      *)
Cleared(w, v, n, m, s) ==
  /\ Within(w, v, n, {"perm", "dest"})
  /\ v.perm[n] = IF s = NoStream THEN w.perm[n] ELSE [w.perm[n] EXCEPT ![m].conn = s]
  /\ v.dest[n] = [h \in Host |-> v.dest[n][h]]
  /\ \A h \in Host : v.dest[n][h].rtt # 0 =>
       v.dest[n][h] = w.dest[n][h] /\ v.dest[n][h].link # m

LEMMA UpdatePermlinksOnly ==
  ASSUME NEW w, IsWorld(w), NEW n \in Host, NEW m, NEW s
  PROVE  Cleared(w, UpdatePermlinks(w, n, m, s), n, m, s)
<1> DEFINE row == IF s = NoStream THEN w.perm[n] ELSE [w.perm[n] EXCEPT ![m].conn = s]
           x == IF s = NoStream THEN w ELSE [w EXCEPT !.perm[n][m].conn = s]
           hs == {h \in Host : w.dest[n][h].rtt # 0 /\ w.dest[n][h].link = m}
           v == UpdateDestinations(x, n, m, hs, 0)
<1>1. UpdatePermlinks(w, n, m, s) = v
  <2> HIDE DEF x
  <2> QED BY DEF UpdatePermlinks, x
<1>2. Within(w, x, n, {"perm"}) /\ x.perm[n] = row
  <2>1. CASE s = NoStream BY <2>1 DEF Within
  <2>2. CASE s # NoStream
    <3>1. x = Put(w, "perm", n, row) BY <2>2 DEF Put, IsWorld, IsRec, OfHosts, Tables, Fields
    <3>2. "perm" \in Tables BY DEF Tables
    <3> HIDE DEF x, row
    <3> QED BY <3>1, <3>2, SetTable
  <2> QED BY <2>1, <2>2
<1> HIDE DEF x, row
<1>3. IsWorld(x) BY <1>2 DEF Within
<1>4. /\ Within(x, v, n, {"dest"})
      /\ v.dest[n] = [h \in Host |-> v.dest[n][h]]
      /\ \A h \in Host : IF h \in hs THEN v.dest[n][h].link = m /\ v.dest[n][h].rtt = 0
                         ELSE v.dest[n][h] = x.dest[n][h]
  <2> HIDE DEF hs
  <2> QED BY <1>3, UpdateDestinationsOnly
<1> HIDE DEF v
<1>5. Within(w, v, n, {"perm"} \cup {"dest"}) BY <1>2, <1>4, WithinTrans
<1>6. {"perm"} \cup {"dest"} = {"perm", "dest"} OBVIOUS
<1>7. v.perm[n] = row BY <1>2, <1>4 DEF Within, Tables
<1>8. \A h \in Host : x.dest[n][h] = w.dest[n][h] BY <1>2 DEF Within, Tables
<1>9. \A h \in Host : v.dest[n][h].rtt # 0 =>
        v.dest[n][h] = w.dest[n][h] /\ v.dest[n][h].link # m
  BY <1>4, <1>8
<1>10. Cleared(w, v, n, m, s) BY <1>4, <1>5, <1>6, <1>7, <1>9 DEF row, Cleared
<1> QED BY <1>1, <1>10

LEMMA DropIfEmptyOnly ==
  ASSUME NEW w, IsWorld(w), NEW n \in Host, NEW chs
  PROVE  LET v == DropIfEmpty(w, n, chs) IN
         /\ Within(w, v, n, {"chans"})
         /\ ChansOK(w, n) => ChansOK(v, n)
<1> DEFINE row == {ch \in w.chans[n] : \/ ch \notin chs
                                       \/ \E i \in DOMAIN w.remote[n] : w.remote[n][i].ch = ch
                                       \/ \E u \in User : On(w, n, u, ch)}
           v == DropIfEmpty(w, n, chs)
<1>1. v = Put(w, "chans", n, row)
  BY DEF Put, DropIfEmpty, IsWorld, IsRec, OfHosts, Tables, Fields
<1>2. Within(w, v, n, {"chans"}) /\ v.chans[n] = row
  <2> HIDE DEF row, v
  <2>1. "chans" \in Tables BY DEF Tables
  <2> QED BY <1>1, <2>1, SetTable
<1> HIDE DEF v
<1>3. v.local[n] = w.local[n] /\ v.remote[n] = w.remote[n] BY <1>2 DEF Within, Tables
<1>4. ChansOK(w, n) => ChansOK(v, n)
  BY <1>2, <1>3 DEF ChansOK, On, Range
<1> QED BY <1>2, <1>4 DEF v

-----------------------------------------------------------------------------
(* The invariant is one of each host.                                      *)

LEMMA LocalStep ==
  ASSUME NEW w, NEW v, Good(w), NEW n \in Host, Within(w, v, n, Tables), HostOK(v, n)
  PROVE  Good(v)
<1>1. IsWorld(v) BY DEF Within
<1>2. ASSUME NEW k \in Host, k # n PROVE HostOK(v, k)
  <2>1. /\ v.conn[k] = w.conn[k] /\ v.perm[k] = w.perm[k] /\ v.dest[k] = w.dest[k]
        /\ v.local[k] = w.local[k] /\ v.remote[k] = w.remote[k] /\ v.chans[k] = w.chans[k]
    BY <1>2 DEF Within, Tables
  <2>2. HostOK(w, k) BY DEF Good
  <2>3. ShapeOK(v, k) BY <2>1, <2>2 DEF HostOK, ShapeOK
  <2>4. ChansOK(v, k) BY <2>1, <2>2 DEF HostOK, ChansOK
  <2>5. LinksOK(v, k) BY <2>1, <2>2 DEF HostOK, LinksOK
  <2>6. UsersOK(v, k) BY <2>1, <2>2 DEF HostOK, UsersOK
  <2>7. DestsOK(v, k) BY <2>1, <2>2 DEF HostOK, DestsOK
  <2> QED BY <2>3, <2>4, <2>5, <2>6, <2>7 DEF HostOK
<1> QED BY <1>1, <1>2 DEF Good

(* What only changes streams keeps it.                                     *)
LEMMA StreamStep ==
  ASSUME NEW w, NEW v, NEW n, Good(w), Within(w, v, n, {})
  PROVE  Good(v)
<1>1. IsWorld(v) BY DEF Within
<1>2. ASSUME NEW k \in Host PROVE HostOK(v, k)
  <2>1. /\ v.conn[k] = w.conn[k] /\ v.perm[k] = w.perm[k] /\ v.dest[k] = w.dest[k]
        /\ v.local[k] = w.local[k] /\ v.remote[k] = w.remote[k] /\ v.chans[k] = w.chans[k]
    BY DEF Within, Tables
  <2>2. HostOK(w, k) BY DEF Good
  <2>3. ShapeOK(v, k) BY <2>1, <2>2 DEF HostOK, ShapeOK
  <2>4. ChansOK(v, k) BY <2>1, <2>2 DEF HostOK, ChansOK
  <2>5. LinksOK(v, k) BY <2>1, <2>2 DEF HostOK, LinksOK
  <2>6. UsersOK(v, k) BY <2>1, <2>2 DEF HostOK, UsersOK
  <2>7. DestsOK(v, k) BY <2>1, <2>2 DEF HostOK, DestsOK
  <2> QED BY <2>3, <2>4, <2>5, <2>6, <2>7 DEF HostOK
<1> QED BY <1>1, <1>2 DEF Good

LEMMA SendToGood ==
  ASSUME NEW w, Good(w), NEW n, NEW S, NEW lines
  PROVE  Good(SendTo(w, n, S, lines))
BY SendToOnly, StreamStep DEF Good

LEMMA DropIfEmptyGood ==
  ASSUME NEW w, Good(w), NEW n \in Host, NEW chs
  PROVE  Good(DropIfEmpty(w, n, chs))
<1> DEFINE v == DropIfEmpty(w, n, chs)
<1>1. IsWorld(w) /\ HostOK(w, n) BY DEF Good
<1>2. Within(w, v, n, {"chans"}) /\ ChansOK(v, n) BY <1>1, DropIfEmptyOnly DEF HostOK
<1> HIDE DEF v
<1>3. /\ v.conn[n] = w.conn[n] /\ v.perm[n] = w.perm[n] /\ v.dest[n] = w.dest[n]
      /\ v.local[n] = w.local[n] /\ v.remote[n] = w.remote[n]
  BY <1>2 DEF Within, Tables
<1>4. ShapeOK(v, n) BY <1>1, <1>3 DEF HostOK, ShapeOK
<1>5. LinksOK(v, n) BY <1>1, <1>3 DEF HostOK, LinksOK
<1>6. UsersOK(v, n) BY <1>1, <1>3 DEF HostOK, UsersOK
<1>7. DestsOK(v, n) BY <1>1, <1>3 DEF HostOK, DestsOK
<1>8. Within(w, v, n, Tables) BY <1>2 DEF Within, Tables
<1>9. Good(v) BY <1>2, <1>4, <1>5, <1>6, <1>7, <1>8, LocalStep DEF HostOK
<1> QED BY <1>9 DEF v

LEMMA PeerFacts ==
  ASSUME NEW n \in Host, NEW s \in StreamsOf(n)
  PROVE  /\ s \in Stream /\ Peer(s, n) \in Host /\ Peer(s, n) \in Peers(n)
         /\ s \in Between(n, Peer(s, n))
BY StreamAssumption DEF StreamsOf, Peer, Peers, Between

LEMMA BetweenFacts ==
  ASSUME NEW n \in Host, NEW m, NEW s \in Between(n, m)
  PROVE  s \in Stream /\ s \in StreamsOf(n) /\ Peer(s, n) = m
BY StreamAssumption DEF StreamsOf, Peer, Between

(* A PERMLINK's connection and its peer belong together.                   *)
LEMMA PermFacts ==
  ASSUME NEW w, NEW n \in Host, HostOK(w, n), NEW m \in Peers(n), w.perm[n][m].conn # NoStream
  PROVE  w.perm[n][m].conn \in StreamsOf(n) /\ Peer(w.perm[n][m].conn, n) = m
<1>1. w.perm[n][m].conn \in Between(n, m) BY DEF HostOK, LinksOK
<1> QED BY <1>1, BetweenFacts

LEMMA UpdateDestinationsGood ==
  ASSUME NEW w, Good(w), NEW n \in Host, NEW m \in Peers(n), NEW hs, NEW rtt,
         w.perm[n][m].conn # NoStream, w.conn[n][w.perm[n][m].conn] = "host"
  PROVE  Good(UpdateDestinations(w, n, m, hs, rtt))
<1> DEFINE v == UpdateDestinations(w, n, m, hs, rtt)
<1>1. IsWorld(w) /\ HostOK(w, n) BY DEF Good
<1>2. /\ Within(w, v, n, {"dest"})
      /\ v.dest[n] = [h \in Host |-> v.dest[n][h]]
      /\ \A h \in Host : IF h \in hs THEN v.dest[n][h].link = m /\ v.dest[n][h].rtt = rtt
                         ELSE v.dest[n][h] = w.dest[n][h]
  BY <1>1, UpdateDestinationsOnly
<1> HIDE DEF v
<1>3. /\ v.conn[n] = w.conn[n] /\ v.perm[n] = w.perm[n] /\ v.chans[n] = w.chans[n]
      /\ v.local[n] = w.local[n] /\ v.remote[n] = w.remote[n]
  BY <1>2 DEF Within, Tables
<1>4. ShapeOK(v, n) BY <1>1, <1>2, <1>3 DEF HostOK, ShapeOK
<1>5. ChansOK(v, n) BY <1>1, <1>3 DEF HostOK, ChansOK
<1>6. LinksOK(v, n) BY <1>1, <1>3 DEF HostOK, LinksOK
<1>7. UsersOK(v, n) BY <1>1, <1>3 DEF HostOK, UsersOK
<1>8. DestsOK(v, n) BY <1>1, <1>2, <1>3 DEF HostOK, DestsOK
<1>9. Within(w, v, n, Tables) BY <1>2 DEF Within, Tables
<1>10. Good(v) BY <1>4, <1>5, <1>6, <1>7, <1>8, <1>9, LocalStep DEF HostOK
<1> QED BY <1>10 DEF v

(* The connections of hosts stay; a PERMLINK changes its connection only   *)
(* when there is none of its host.                                         *)
LEMMA LinksStep ==
  ASSUME NEW w, NEW v, Good(w), NEW n \in Host, Within(w, v, n, {"conn", "perm"}),
         v.conn[n] \in [StreamsOf(n) -> ConnTypes], v.perm[n] \in [Peers(n) -> Permlink],
         \A x \in StreamsOf(n) : v.conn[n][x] = "host" <=> w.conn[n][x] = "host",
         \A m \in Peers(n) :
           \/ v.perm[n][m].conn = w.perm[n][m].conn
           \/ /\ v.perm[n][m].conn \in Between(n, m) \cup {NoStream}
              /\ \A x \in Between(n, m) : w.conn[n][x] # "host"
  PROVE  Good(v)
<1>1. IsWorld(w) /\ HostOK(w, n) BY DEF Good
<1>2. /\ v.dest[n] = w.dest[n] /\ v.chans[n] = w.chans[n]
      /\ v.local[n] = w.local[n] /\ v.remote[n] = w.remote[n]
  BY DEF Within, Tables
<1>3. ShapeOK(v, n) BY <1>1, <1>2 DEF HostOK, ShapeOK
<1>4. ChansOK(v, n) BY <1>1, <1>2 DEF HostOK, ChansOK
<1>5. LinksOK(v, n)
  <2>1. \A m \in Peers(n) : v.perm[n][m].conn \in Between(n, m) \cup {NoStream}
    BY <1>1 DEF HostOK, LinksOK
  <2>2. ASSUME NEW x \in StreamsOf(n), v.conn[n][x] = "host" PROVE v.perm[n][Peer(x, n)].conn = x
    <3>1. w.conn[n][x] = "host" /\ x \in Between(n, Peer(x, n)) /\ Peer(x, n) \in Peers(n)
      BY <2>2, PeerFacts
    <3>2. w.perm[n][Peer(x, n)].conn = x BY <1>1, <3>1 DEF HostOK, LinksOK
    <3> QED BY <3>1, <3>2
  <2> QED BY <2>1, <2>2 DEF LinksOK
<1>6. UsersOK(v, n) BY <1>1, <1>2 DEF HostOK, UsersOK
<1>7. DestsOK(v, n)
  <2>1. ASSUME NEW h \in Host, w.dest[n][h].rtt # 0
        PROVE  /\ w.dest[n][h].link \in Peers(n)
               /\ v.perm[n][w.dest[n][h].link].conn # NoStream
               /\ v.conn[n][v.perm[n][w.dest[n][h].link].conn] = "host"
    <3> DEFINE m == w.dest[n][h].link
               x == w.perm[n][m].conn
    <3>1. m \in Peers(n) /\ x # NoStream /\ w.conn[n][x] = "host"
      BY <1>1, <2>1 DEF HostOK, DestsOK
    <3>2. x \in Between(n, m) BY <1>1, <3>1 DEF HostOK, LinksOK
    <3>3. x \in StreamsOf(n) BY <3>2, BetweenFacts
    <3>4. v.perm[n][m].conn = x BY <3>1, <3>2
    <3> HIDE DEF m, x
    <3>5. v.conn[n][x] = "host" BY <3>1, <3>3
    <3> QED BY <3>1, <3>4, <3>5 DEF m
  <2> QED BY <1>2, <2>1 DEF DestsOK
<1>8. Within(w, v, n, Tables) BY DEF Within, Tables
<1> QED BY <1>3, <1>4, <1>5, <1>6, <1>7, <1>8, LocalStep DEF HostOK

(* A connection that is not a host's may become another such connection.   *)
LEMMA ConnStep ==
  ASSUME NEW w, Good(w), NEW n \in Host, NEW s \in StreamsOf(n), w.conn[n][s] # "host",
         NEW t \in ConnTypes, t # "host"
  PROVE  Good(Put(w, "conn", n, [w.conn[n] EXCEPT ![s] = t]))
<1> DEFINE c == [w.conn[n] EXCEPT ![s] = t]
           v == Put(w, "conn", n, c)
<1>1. IsWorld(w) /\ HostOK(w, n) BY DEF Good
<1>2. Within(w, v, n, {"conn"}) /\ v.conn[n] = c
  <2> HIDE DEF c
  <2> QED BY <1>1, SetTable DEF Tables
<1>3. /\ c \in [StreamsOf(n) -> ConnTypes]
      /\ \A x \in StreamsOf(n) : c[x] = "host" <=> w.conn[n][x] = "host"
  BY <1>1 DEF HostOK, ShapeOK
<1> HIDE DEF v, c
<1>4. Within(w, v, n, {"conn", "perm"}) /\ v.perm[n] = w.perm[n] BY <1>2 DEF Within, Tables
<1>5. w.perm[n] \in [Peers(n) -> Permlink] BY <1>1 DEF HostOK, ShapeOK
<1>6. Good(v) BY <1>2, <1>3, <1>4, <1>5, LinksStep
<1> QED BY <1>6 DEF v, c

(* What bye_command2() leaves of connection s.                             *)
Closed(w, v, n, s) ==
  /\ Good(v)
  /\ v.perm[n] = w.perm[n]
  /\ \A x \in StreamsOf(n) :
       v.conn[n][x] = IF x = s /\ w.conn[n][s] \in {"unknown", "host"} THEN "closed"
                      ELSE w.conn[n][x]

LEMMA ByeUnknown ==
  ASSUME NEW w, Good(w), NEW n \in Host, NEW s \in StreamsOf(n), w.conn[n][s] = "unknown"
  PROVE  Closed(w, Bye(w, n, s), n, s)
<1> DEFINE c == [w.conn[n] EXCEPT ![s] = "closed"]
           v == Put(w, "conn", n, c)
<1>1. IsWorld(w) /\ HostOK(w, n) BY DEF Good
<1>2. Bye(w, n, s) = [w EXCEPT !.conn[n][s] = "closed"] BY DEF Bye
<1>3. [w EXCEPT !.conn[n][s] = "closed"] = v
  BY <1>1 DEF IsWorld, IsRec, OfHosts, Tables, Fields, Put
<1>4. Good(v) BY ConnStep DEF ConnTypes
<1>5. Within(w, v, n, {"conn"}) /\ v.conn[n] = c
  <2> HIDE DEF c
  <2> QED BY <1>1, SetTable DEF Tables
<1>6. \A x \in StreamsOf(n) : c[x] = IF x = s THEN "closed" ELSE w.conn[n][x]
  BY <1>1 DEF HostOK, ShapeOK
<1>7. v.perm[n] = w.perm[n]
  <2> HIDE DEF v
  <2> QED BY <1>5 DEF Within, Tables
<1> HIDE DEF v, c
<1> QED BY <1>2, <1>3, <1>4, <1>5, <1>6, <1>7 DEF Closed

LEMMA NotByList ==
  ASSUME NEW w, NEW n, NEW s, IsList(w.remote[n])
  PROVE  /\ IsList(NotBy(w, n, s))
         /\ \A r \in Range(NotBy(w, n, s)) : r \in Range(w.remote[n]) /\ r.via # s
<1> DEFINE I == {i \in DOMAIN w.remote[n] : w.remote[n][i].via # s}
<1>1. NotBy(w, n, s) = Those(w.remote[n], I) BY DEF NotBy
<1>2. I \in SUBSET (DOMAIN w.remote[n]) BY DEF IsList
<1>3. \A i \in I : w.remote[n][i].via # s OBVIOUS
<1> HIDE DEF I
<1>4. IsList(Those(w.remote[n], I))
      /\ \A x \in Range(Those(w.remote[n], I)) : \E i \in I : x = w.remote[n][i]
  BY <1>2, ThoseList
<1> QED BY <1>1, <1>2, <1>3, <1>4 DEF Range

LEMMA ByeHost ==
  ASSUME NEW w, Good(w), NEW n \in Host, NEW s \in StreamsOf(n), w.conn[n][s] = "host"
  PROVE  Closed(w, Bye(w, n, s), n, s)
<1> DEFINE c == [w.conn[n] EXCEPT ![s] = "closed"]
           R == NotBy(w, n, s)
           closed == [w EXCEPT !.conn[n][s] = "closed", !.remote[n] = NotBy(w, n, s)]
           v == UpdatePermlinks(closed, n, Peer(s, n), NoStream)
           gone == By(w, n, s)
           chs == {gone[i].ch : i \in DOMAIN gone}
           lines == [i \in DOMAIN gone |-> UserChange(gone[i].u, gone[i].h, gone[i].ch, -1)]
<1>1. IsWorld(w) /\ HostOK(w, n) BY DEF Good
<1>2. Bye(w, n, s) = SendTo(DropIfEmpty(v, n, chs), n, HostConns(w, n) \ {s}, lines)
  <2> HIDE DEF v, chs, lines, gone
  <2> QED BY DEF Bye, v, chs, lines, gone
<1>3. closed = Put(Put(w, "conn", n, c), "remote", n, R)
  <2> HIDE DEF R
  <2> QED BY <1>1 DEF IsWorld, IsRec, OfHosts, Tables, Fields, Put, R
<1> HIDE DEF closed, R
<1>4. /\ Within(w, closed, n, {"conn", "remote"})
      /\ closed.conn[n] = c /\ closed.remote[n] = R
  <2> DEFINE x == Put(w, "conn", n, c)
  <2> HIDE DEF c
  <2>1. Within(w, x, n, {"conn"}) /\ x.conn[n] = c BY <1>1, SetTable DEF Tables
  <2> HIDE DEF x
  <2>2. IsWorld(x) BY <2>1 DEF Within
  <2>3. Within(x, closed, n, {"remote"}) /\ closed.remote[n] = R
    BY <1>3, <2>2, SetTable DEF Tables, x
  <2>4. Within(w, closed, n, {"conn"} \cup {"remote"}) BY <2>1, <2>3, WithinTrans
  <2>5. {"conn"} \cup {"remote"} = {"conn", "remote"} OBVIOUS
  <2>6. closed.conn[n] = c BY <2>1, <2>3 DEF Within, Tables
  <2> QED BY <2>3, <2>4, <2>5, <2>6
<1>5. /\ Within(closed, v, n, {"perm", "dest"})
      /\ v.perm[n] = closed.perm[n]
      /\ v.dest[n] = [h \in Host |-> v.dest[n][h]]
      /\ \A h \in Host : v.dest[n][h].rtt # 0 =>
           v.dest[n][h] = closed.dest[n][h] /\ v.dest[n][h].link # Peer(s, n)
  <2>1. IsWorld(closed) BY <1>4 DEF Within
  <2>2. Cleared(closed, v, n, Peer(s, n), NoStream) BY <2>1, UpdatePermlinksOnly
  <2> HIDE DEF v
  <2> QED BY <2>2 DEF Cleared
<1> HIDE DEF v
<1>6. Within(w, v, n, Tables)
  <2>1. Within(w, v, n, {"conn", "remote"} \cup {"perm", "dest"}) BY <1>4, <1>5, WithinTrans
  <2> QED BY <2>1 DEF Within, Tables
<1>7. /\ v.conn[n] = c /\ v.remote[n] = R /\ v.perm[n] = w.perm[n]
      /\ v.local[n] = w.local[n] /\ v.chans[n] = w.chans[n]
  BY <1>4, <1>5 DEF Within, Tables
<1>8. \A h \in Host : v.dest[n][h].rtt # 0 =>
        v.dest[n][h] = w.dest[n][h] /\ v.dest[n][h].link # Peer(s, n)
  BY <1>4, <1>5 DEF Within, Tables
<1>9. IsList(R) /\ \A r \in Range(R) : r \in Range(w.remote[n]) /\ r.via # s
  BY <1>1, NotByList DEF HostOK, ShapeOK, R
<1>10. /\ c \in [StreamsOf(n) -> ConnTypes]
       /\ \A x \in StreamsOf(n) : c[x] = IF x = s THEN "closed" ELSE w.conn[n][x]
  BY <1>1 DEF HostOK, ShapeOK, ConnTypes
<1> HIDE DEF c
<1>11. ShapeOK(v, n) BY <1>1, <1>5, <1>7, <1>9, <1>10 DEF HostOK, ShapeOK
<1>12. ChansOK(v, n) BY <1>1, <1>7, <1>9 DEF HostOK, ChansOK
<1>13. LinksOK(v, n) BY <1>1, <1>7, <1>10 DEF HostOK, LinksOK
<1>14. UsersOK(v, n) BY <1>1, <1>7, <1>9, <1>10 DEF HostOK, UsersOK
<1>15. DestsOK(v, n)
  <2>1. SUFFICES ASSUME NEW h \in Host, v.dest[n][h].rtt # 0
                 PROVE  /\ v.dest[n][h].link \in Peers(n)
                        /\ w.perm[n][v.dest[n][h].link].conn # NoStream
                        /\ c[w.perm[n][v.dest[n][h].link].conn] = "host"
    BY <1>7 DEF DestsOK
  <2> DEFINE m == w.dest[n][h].link
  <2>2. v.dest[n][h] = w.dest[n][h] /\ m # Peer(s, n) BY <1>8, <2>1
  <2>3. /\ m \in Peers(n)
        /\ w.perm[n][m].conn # NoStream
        /\ w.conn[n][w.perm[n][m].conn] = "host"
    BY <1>1, <2>1, <2>2 DEF HostOK, DestsOK
  <2> HIDE DEF m
  <2>4. w.perm[n][m].conn \in StreamsOf(n) /\ Peer(w.perm[n][m].conn, n) = m
    BY <1>1, <2>3, PermFacts
  <2>5. c[w.perm[n][m].conn] = "host" BY <1>10, <2>2, <2>3, <2>4
  <2> QED BY <2>2, <2>3, <2>5 DEF m
<1>16. Good(v) BY <1>6, <1>11, <1>12, <1>13, <1>14, <1>15, LocalStep DEF HostOK
<1>17. Closed(w, SendTo(DropIfEmpty(v, n, chs), n, HostConns(w, n) \ {s}, lines), n, s)
  <2> HIDE DEF chs, lines
  <2> DEFINE x == DropIfEmpty(v, n, chs)
             y == SendTo(x, n, HostConns(w, n) \ {s}, lines)
  <2>1. Good(x) /\ Within(v, x, n, {"chans"}) BY <1>16, DropIfEmptyGood, DropIfEmptyOnly DEF Good
  <2> HIDE DEF x
  <2>2. Good(y) /\ Within(x, y, n, {}) BY <2>1, SendToGood, SendToOnly DEF Good
  <2> HIDE DEF y
  <2>3. y.perm[n] = v.perm[n] /\ y.conn[n] = v.conn[n] BY <2>1, <2>2 DEF Within, Tables
  <2>4. Closed(w, y, n, s) BY <1>7, <1>10, <2>2, <2>3 DEF Closed
  <2> QED BY <2>4 DEF x, y
<1> HIDE DEF chs, lines
<1> QED BY <1>2, <1>17

LEMMA ByeClosed ==
  ASSUME NEW w, Good(w), NEW n \in Host, NEW s \in StreamsOf(n)
  PROVE  Closed(w, Bye(w, n, s), n, s)
<1>1. CASE w.conn[n][s] \notin {"unknown", "host"}
  <2>1. Bye(w, n, s) = w BY <1>1 DEF Bye
  <2> QED BY <1>1, <2>1 DEF Closed
<1> QED BY <1>1, ByeUnknown, ByeHost

-----------------------------------------------------------------------------
(* Users and channels.                                                     *)

(* User u of host n becomes x, and the channels C exist.                   *)
PutUser(w, n, u, x, C) == [w EXCEPT !.local[n][u] = x, !.chans[n] = @ \cup C]

(* The users of other hosts become R, and the channels C exist.            *)
PutRemote(w, n, R, C) == [w EXCEPT !.remote[n] = R, !.chans[n] = @ \cup C]

LEMMA PutTwo ==
  ASSUME NEW w, IsWorld(w), NEW n \in Host, NEW f \in Tables, NEW g \in Tables, f # g, NEW x, NEW y
  PROVE  LET v == Put(Put(w, f, n, x), g, n, y) IN
         Within(w, v, n, {f, g}) /\ v[f][n] = x /\ v[g][n] = y
<1> DEFINE p == Put(w, f, n, x)
           v == Put(p, g, n, y)
<1>1. Within(w, p, n, {f}) /\ p[f][n] = x BY SetTable
<1> HIDE DEF p
<1>2. Within(p, v, n, {g}) /\ v[g][n] = y BY <1>1, SetTable DEF Within
<1> HIDE DEF v
<1>3. Within(w, v, n, {f} \cup {g}) BY <1>1, <1>2, WithinTrans
<1>4. {f} \cup {g} = {f, g} OBVIOUS
<1>5. v[f][n] = x BY <1>1, <1>2 DEF Within
<1>6. Within(w, v, n, {f, g}) /\ v[f][n] = x /\ v[g][n] = y BY <1>2, <1>3, <1>4, <1>5
<1> QED BY <1>6 DEF v, p

LEMMA PutUserGood ==
  ASSUME NEW w, Good(w), NEW n \in Host, NEW u \in User, NEW x, NEW C,
         IsUser(x), Range(x.list) \subseteq w.chans[n] \cup C
  PROVE  Good(PutUser(w, n, u, x, C))
<1> DEFINE row == [w.local[n] EXCEPT ![u] = x]
           chs == w.chans[n] \cup C
           v == PutUser(w, n, u, x, C)
<1>1. IsWorld(w) /\ HostOK(w, n) BY DEF Good
<1>2. v = Put(Put(w, "local", n, row), "chans", n, chs)
  BY <1>1 DEF IsWorld, IsRec, OfHosts, Tables, Fields, Put, PutUser
<1> HIDE DEF v
<1>3. Within(w, v, n, {"local", "chans"}) /\ v.local[n] = row /\ v.chans[n] = chs
  <2> HIDE DEF row, chs
  <2> QED BY <1>1, <1>2, PutTwo DEF Tables
<1>4. /\ row = [k \in User |-> row[k]] /\ row[u] = x
      /\ \A k \in User : k # u => row[k] = w.local[n][k]
  BY <1>1 DEF HostOK, ShapeOK
<1>5. /\ v.conn[n] = w.conn[n] /\ v.perm[n] = w.perm[n] /\ v.dest[n] = w.dest[n]
      /\ v.remote[n] = w.remote[n]
  BY <1>3 DEF Within, Tables
<1> HIDE DEF row
<1>6. ShapeOK(v, n)
  <2>1. \A k \in User : IsUser(row[k]) BY <1>1, <1>4 DEF HostOK, ShapeOK
  <2> QED BY <1>1, <1>3, <1>4, <1>5, <2>1 DEF HostOK, ShapeOK
<1>7. ChansOK(v, n) BY <1>1, <1>3, <1>4, <1>5 DEF HostOK, ChansOK
<1>8. LinksOK(v, n) BY <1>1, <1>5 DEF HostOK, LinksOK
<1>9. UsersOK(v, n) BY <1>1, <1>5 DEF HostOK, UsersOK
<1>10. DestsOK(v, n) BY <1>1, <1>5 DEF HostOK, DestsOK
<1>11. Within(w, v, n, Tables) BY <1>3 DEF Within, Tables
<1>12. Good(v) BY <1>6, <1>7, <1>8, <1>9, <1>10, <1>11, LocalStep DEF HostOK
<1> QED BY <1>12 DEF v

LEMMA PutRemoteGood ==
  ASSUME NEW w, Good(w), NEW n \in Host, NEW R, NEW C, IsList(R),
         \A r \in Range(R) : /\ IsEntry(r) /\ r.ch \in w.chans[n] \cup C
                             /\ r.via \in StreamsOf(n) /\ w.conn[n][r.via] = "host"
  PROVE  Good(PutRemote(w, n, R, C))
<1> DEFINE chs == w.chans[n] \cup C
           v == PutRemote(w, n, R, C)
<1>1. IsWorld(w) /\ HostOK(w, n) BY DEF Good
<1>2. v = Put(Put(w, "remote", n, R), "chans", n, chs)
  BY <1>1 DEF IsWorld, IsRec, OfHosts, Tables, Fields, Put, PutRemote
<1> HIDE DEF v
<1>3. Within(w, v, n, {"remote", "chans"}) /\ v.remote[n] = R /\ v.chans[n] = chs
  <2> HIDE DEF chs
  <2> QED BY <1>1, <1>2, PutTwo DEF Tables
<1>4. /\ v.conn[n] = w.conn[n] /\ v.perm[n] = w.perm[n] /\ v.dest[n] = w.dest[n]
      /\ v.local[n] = w.local[n]
  BY <1>3 DEF Within, Tables
<1>5. ShapeOK(v, n) BY <1>1, <1>3, <1>4 DEF HostOK, ShapeOK
<1>6. ChansOK(v, n) BY <1>1, <1>3, <1>4 DEF HostOK, ChansOK
<1>7. LinksOK(v, n) BY <1>1, <1>4 DEF HostOK, LinksOK
<1>8. UsersOK(v, n) BY <1>3, <1>4 DEF UsersOK
<1>9. DestsOK(v, n) BY <1>1, <1>4 DEF HostOK, DestsOK
<1>10. Within(w, v, n, Tables) BY <1>3 DEF Within, Tables
<1>11. Good(v) BY <1>5, <1>6, <1>7, <1>8, <1>9, <1>10, LocalStep DEF HostOK
<1> QED BY <1>11 DEF v

(* What is known of a user and of his table.                               *)
LEMMA UserFacts ==
  ASSUME NEW w, Good(w), NEW n \in Host, NEW u \in User
  PROVE  /\ IsWorld(w)
         /\ w.local[n] = [k \in User |-> w.local[n][k]]
         /\ IsUser(w.local[n][u])
         /\ Range(w.local[n][u].list) \subseteq w.chans[n]
BY DEF Good, HostOK, ShapeOK, ChansOK

(* Changes of single fields are changes of the user.                       *)
Set(f, e, x) == [f EXCEPT ![e] = x]

LEMMA SetFacts ==
  ASSUME NEW f, NEW e \in DOMAIN f, NEW x, NEW y
  PROVE  /\ Set(f, e, x)[e] = x /\ DOMAIN Set(f, e, x) = DOMAIN f
         /\ Set(Set(f, e, x), e, y) = Set(f, e, y)
BY DEF Set

(* User u of host n becomes x.                                             *)
SetUser(w, n, u, x) == Set(w, "local", Set(w.local, n, Set(w.local[n], u, x)))

LEMMA SetUserTwice ==
  ASSUME NEW w, NEW n, NEW u, NEW x, NEW y,
         "local" \in DOMAIN w, n \in DOMAIN w.local, u \in DOMAIN w.local[n]
  PROVE  /\ SetUser(SetUser(w, n, u, x), n, u, y) = SetUser(w, n, u, y)
         /\ SetUser(w, n, u, x).local[n][u] = x
<1> DEFINE v == SetUser(w, n, u, x)
<1>1. v.local = Set(w.local, n, Set(w.local[n], u, x)) BY SetFacts DEF SetUser
<1>2. v.local[n] = Set(w.local[n], u, x) BY <1>1, SetFacts
<1>3. v.local[n][u] = x BY <1>2, SetFacts
<1>4. Set(v.local[n], u, y) = Set(w.local[n], u, y) BY <1>2, SetFacts
<1>5. Set(v.local, n, Set(v.local[n], u, y)) = Set(w.local, n, Set(w.local[n], u, y))
  BY <1>1, <1>4, SetFacts
<1>6. SetUser(v, n, u, y) = Set(v, "local", Set(w.local, n, Set(w.local[n], u, y)))
  BY <1>5 DEF SetUser
<1>7. SetUser(v, n, u, y) = SetUser(w, n, u, y)
  <2> HIDE DEF v
  <2>1. v = Set(w, "local", Set(w.local, n, Set(w.local[n], u, x))) BY DEF v, SetUser
  <2> QED BY <1>6, <2>1, SetFacts DEF SetUser
<1> HIDE DEF v
<1> QED BY <1>3, <1>7 DEF v

FieldEdits(l, a, b) ==
  /\ Set(l, "def", b) = [list |-> l.list, def |-> b, away |-> l.away]
  /\ Set(l, "away", b) = [list |-> l.list, def |-> l.def, away |-> b]
  /\ Set(Set(l, "list", a), "def", b) = [list |-> a, def |-> b, away |-> l.away]

LEMMA UserFields ==
  ASSUME NEW l, l = [list |-> l.list, def |-> l.def, away |-> l.away], NEW a, NEW b
  PROVE  FieldEdits(l, a, b)
<1> DEFINE rec(x, y, z) == [list |-> x, def |-> y, away |-> z]
<1>1. ASSUME NEW x, NEW y, NEW z, NEW e
      PROVE  /\ Set(rec(x, y, z), "list", e) = rec(e, y, z)
             /\ Set(rec(x, y, z), "def", e) = rec(x, e, z)
             /\ Set(rec(x, y, z), "away", e) = rec(x, y, e)
  <2>1. Set(rec(x, y, z), "list", e) = rec(e, y, z) BY DEF Set
  <2>2. Set(rec(x, y, z), "def", e) = rec(x, e, z) BY DEF Set
  <2>3. Set(rec(x, y, z), "away", e) = rec(x, y, e) BY DEF Set
  <2> QED BY <2>1, <2>2, <2>3
<1>2. l = rec(l.list, l.def, l.away) OBVIOUS
<1> HIDE DEF rec
<1>3. /\ Set(l, "def", b) = rec(l.list, b, l.away)
      /\ Set(l, "away", b) = rec(l.list, l.def, b)
      /\ Set(l, "list", a) = rec(a, l.def, l.away)
  BY <1>1, <1>2
<1>4. Set(Set(l, "list", a), "def", b) = rec(a, b, l.away) BY <1>1, <1>3
<1> QED BY <1>3, <1>4 DEF rec, FieldEdits

(* How changes of w for user u of host n are written with PutUser.         *)
Edits(w, n, u, a, b, C) ==
  LET l == w.local[n][u] IN
  /\ [w EXCEPT !.local[n][u] = a] = PutUser(w, n, u, a, {})
  /\ [w EXCEPT !.local[n][u].def = b]
       = PutUser(w, n, u, [list |-> l.list, def |-> b, away |-> l.away], {})
  /\ [w EXCEPT !.local[n][u].away = b]
       = PutUser(w, n, u, [list |-> l.list, def |-> l.def, away |-> b], {})
  /\ [w EXCEPT !.local[n][u].list = a, !.local[n][u].def = b]
       = PutUser(w, n, u, [list |-> a, def |-> b, away |-> l.away], {})
  /\ [w EXCEPT !.local[n][u].list = a, !.local[n][u].def = b, !.chans[n] = @ \cup C]
       = PutUser(w, n, u, [list |-> a, def |-> b, away |-> l.away], C)

LEMMA EditUser ==
  ASSUME NEW w, Good(w), NEW n \in Host, NEW u \in User, NEW a, NEW b, NEW C
  PROVE  Edits(w, n, u, a, b, C)
<1> DEFINE l == w.local[n][u]
           with(x) == SetUser(w, n, u, x)
           lb == [[l EXCEPT !.list = a] EXCEPT !.def = b]
<1>1. /\ DOMAIN w = Fields /\ DOMAIN w.local = Host /\ DOMAIN w.local[n] = User
      /\ "local" \in Fields /\ "chans" \in Fields
  <2>1. IsWorld(w) /\ w.local[n] = [k \in User |-> w.local[n][k]] BY UserFacts
  <2> QED BY <2>1 DEF IsWorld, IsRec, OfHosts, Tables, Fields
<1>2. ASSUME NEW x
      PROVE  /\ [w EXCEPT !.local[n][u] = x] = with(x)
             /\ with(x).chans = w.chans /\ DOMAIN with(x) = DOMAIN w
  BY <1>1 DEF SetUser, Set
<1>3. ASSUME NEW x, NEW D
      PROVE  PutUser(w, n, u, x, D)
               = [with(x) EXCEPT !.chans = [w.chans EXCEPT ![n] = w.chans[n] \cup D]]
  BY <1>1 DEF PutUser, SetUser, Set
<1>4. ASSUME NEW x PROVE PutUser(w, n, u, x, {}) = with(x)
  <2> DEFINE z == with(x)
  <2>1. w.chans[n] \cup {} = w.chans[n] OBVIOUS
  <2>2. w.chans = [w.chans EXCEPT ![n] = w.chans[n]] BY UserFacts DEF IsWorld, OfHosts, Tables
  <2>3. PutUser(w, n, u, x, {}) = [z EXCEPT !.chans = w.chans]
    <3>1. PutUser(w, n, u, x, {})
            = [z EXCEPT !.chans = [w.chans EXCEPT ![n] = w.chans[n] \cup {}]]
      BY <1>3
    <3> HIDE DEF z
    <3> QED BY <2>1, <2>2, <3>1
  <2>4. z.chans = w.chans /\ DOMAIN z = DOMAIN w /\ z = [f \in DOMAIN z |-> z[f]]
    BY <1>2 DEF SetUser, Set
  <2> HIDE DEF z
  <2>5. [z EXCEPT !.chans = w.chans] = z BY <1>1, <2>4
  <2> QED BY <2>3, <2>5 DEF z
<1>5. [w EXCEPT !.local[n][u].def = b] = with([l EXCEPT !.def = b])
      /\ [w EXCEPT !.local[n][u].away = b] = with([l EXCEPT !.away = b])
  BY DEF SetUser, Set
<1>6. [w EXCEPT !.local[n][u].list = a, !.local[n][u].def = b] = with(lb)
  <2> DEFINE v == with([l EXCEPT !.list = a])
             e == [v.local[n][u] EXCEPT !.def = b]
  <2>1. v.local[n][u] = [l EXCEPT !.list = a] /\ SetUser(v, n, u, e) = with(e)
    BY <1>1, SetUserTwice
  <2>2. [w EXCEPT !.local[n][u].list = a, !.local[n][u].def = b] = SetUser(v, n, u, e)
    BY DEF SetUser, Set
  <2> QED BY <2>1, <2>2
<1>7. [w EXCEPT !.local[n][u].list = a, !.local[n][u].def = b, !.chans[n] = @ \cup C]
        = PutUser(w, n, u, lb, C)
  <2> DEFINE v == [w EXCEPT !.local[n][u].list = a, !.local[n][u].def = b]
  <2>1. [w EXCEPT !.local[n][u].list = a, !.local[n][u].def = b, !.chans[n] = @ \cup C]
          = [v EXCEPT !.chans = [v.chans EXCEPT ![n] = v.chans[n] \cup C]]
    OBVIOUS
  <2> HIDE DEF with, v
  <2>2. v = with(lb) /\ v.chans = w.chans BY <1>2, <1>6 DEF v
  <2> HIDE DEF lb
  <2>3. PutUser(w, n, u, lb, C)
          = [with(lb) EXCEPT !.chans = [w.chans EXCEPT ![n] = w.chans[n] \cup C]]
    BY <1>3
  <2>4. [v EXCEPT !.chans = [v.chans EXCEPT ![n] = v.chans[n] \cup C]] = PutUser(w, n, u, lb, C)
    BY <2>2, <2>3
  <2> QED BY <2>1, <2>4 DEF v
<1>8. l = [list |-> l.list, def |-> l.def, away |-> l.away] BY UserFacts DEF IsUser
<1> HIDE DEF with, l
<1>9. /\ [l EXCEPT !.def = b] = [list |-> l.list, def |-> b, away |-> l.away]
      /\ [l EXCEPT !.away = b] = [list |-> l.list, def |-> l.def, away |-> b]
      /\ [[l EXCEPT !.list = a] EXCEPT !.def = b] = [list |-> a, def |-> b, away |-> l.away]
  <2>1. FieldEdits(l, a, b) BY <1>8, UserFields
  <2> QED BY <2>1 DEF FieldEdits, Set
<1>10. [w EXCEPT !.local[n][u] = a] = PutUser(w, n, u, a, {}) BY <1>2, <1>4
<1>11. [w EXCEPT !.local[n][u].def = b]
         = PutUser(w, n, u, [list |-> l.list, def |-> b, away |-> l.away], {})
  BY <1>4, <1>5, <1>9
<1>12. [w EXCEPT !.local[n][u].away = b]
         = PutUser(w, n, u, [list |-> l.list, def |-> l.def, away |-> b], {})
  BY <1>4, <1>5, <1>9
<1>13. [w EXCEPT !.local[n][u].list = a, !.local[n][u].def = b]
         = PutUser(w, n, u, [list |-> a, def |-> b, away |-> l.away], {})
  BY <1>4, <1>6, <1>9
<1>14. [w EXCEPT !.local[n][u].list = a, !.local[n][u].def = b, !.chans[n] = @ \cup C]
         = PutUser(w, n, u, [list |-> a, def |-> b, away |-> l.away], C)
  BY <1>7, <1>9
<1> QED BY <1>10, <1>11, <1>12, <1>13, <1>14 DEF l, Edits

LEMMA ByeUserGood ==
  ASSUME NEW w, Good(w), NEW n \in Host, NEW u \in User
  PROVE  Good(ByeUser(w, n, u))
<1> DEFINE list == w.local[n][u].list
           x == [w EXCEPT !.local[n][u] = NotHere]
           lines == [i \in DOMAIN list |-> UserChange(u, n, list[i], -1)]
<1>1. x = PutUser(w, n, u, NotHere, {})
  <2>1. Edits(w, n, u, NotHere, 0, {}) BY EditUser
  <2> QED BY <2>1 DEF Edits
<1>2. IsUser(NotHere) /\ Range(NotHere.list) \subseteq w.chans[n] \cup {}
  BY DEF NotHere, IsUser, IsList, Range
<1>3. Good(x)
  <2> HIDE DEF x
  <2> QED BY <1>1, <1>2, PutUserGood
<1>4. ByeUser(w, n, u) = SendTo(DropIfEmpty(x, n, Range(list)), n, HostConns(w, n), lines)
  <2> HIDE DEF x, lines
  <2> QED BY DEF ByeUser, x, lines
<1> HIDE DEF x, list, lines
<1> QED BY <1>3, <1>4, DropIfEmptyGood, SendToGood

LEMMA NameGood ==
  ASSUME NEW w, Good(w), NEW n \in Host, NEW u \in User, NEW ch
  PROVE  Good(Name(w, n, u, ch))
<1> DEFINE x == [list |-> <<ch>>, def |-> ch, away |-> FALSE]
<1>1. IsUser(x) /\ Range(x.list) \subseteq w.chans[n] \cup {ch} BY DEF IsUser, IsList, Range
<1> HIDE DEF x
<1>2. Good(PutUser(w, n, u, x, {ch})) BY <1>1, PutUserGood
<1>3. Name(w, n, u, ch) =
        SendTo(PutUser(w, n, u, x, {ch}), n, HostConns(w, n), <<UserChange(u, n, -1, ch)>>)
  BY DEF Name, PutUser, x
<1> QED BY <1>2, <1>3, SendToGood

LEMMA JoinChannelGood ==
  ASSUME NEW w, Good(w), NEW n \in Host, NEW u \in User, NEW ch
  PROVE  Good(JoinChannel(w, n, u, ch))
<1> DEFINE l == w.local[n][u]
<1>1. /\ IsWorld(w) /\ w.local[n] = [k \in User |-> w.local[n][k]]
      /\ IsUser(l) /\ Range(l.list) \subseteq w.chans[n]
  BY UserFacts
<1>2. CASE On(w, n, u, ch)
  <2> DEFINE x == [list |-> l.list, def |-> ch, away |-> l.away]
  <2>1. [w EXCEPT !.local[n][u].def = ch] = PutUser(w, n, u, x, {})
    <3>1. Edits(w, n, u, 0, ch, {}) BY EditUser
    <3> QED BY <3>1 DEF Edits
  <2>2. IsUser(x) /\ Range(x.list) \subseteq w.chans[n] \cup {} BY <1>1 DEF IsUser
  <2> HIDE DEF x
  <2> QED BY <1>2, <2>1, <2>2, PutUserGood DEF JoinChannel
<1>3. CASE ~On(w, n, u, ch)
  <2> DEFINE x == [list |-> <<ch>> \o l.list, def |-> ch, away |-> l.away]
             v == [w EXCEPT !.local[n][u].list = <<ch>> \o @, !.local[n][u].def = ch,
                            !.chans[n] = @ \cup {ch}]
  <2>1. v = PutUser(w, n, u, x, {ch})
    <3>1. Edits(w, n, u, <<ch>> \o l.list, ch, {ch}) BY EditUser
    <3> QED BY <3>1 DEF Edits
  <2>2. IsList(<<ch>> \o l.list)
        /\ \A y \in Range(<<ch>> \o l.list) : y = ch \/ y \in Range(l.list)
    BY <1>1, ConsList DEF IsUser
  <2>3. IsUser(x) /\ Range(x.list) \subseteq w.chans[n] \cup {ch}
    <3> HIDE DEF l
    <3> QED BY <1>1, <2>2 DEF IsUser
  <2>4. JoinChannel(w, n, u, ch) = SendTo(v, n, HostConns(w, n), <<UserChange(u, n, -1, ch)>>)
    BY <1>3 DEF JoinChannel
  <2> HIDE DEF x, v
  <2> QED BY <2>1, <2>3, <2>4, PutUserGood, SendToGood
<1> QED BY <1>2, <1>3

LEMMA WithoutList ==
  ASSUME NEW l, IsList(l), NEW ch
  PROVE  IsList(Without(l, ch)) /\ Range(Without(l, ch)) \subseteq Range(l)
<1> DEFINE I == {i \in DOMAIN l : l[i] # ch}
<1>1. Without(l, ch) = Those(l, I) BY DEF Without
<1>2. I \in SUBSET (DOMAIN l) BY DEF IsList
<1> HIDE DEF I
<1>3. IsList(Those(l, I)) /\ \A x \in Range(Those(l, I)) : \E i \in I : x = l[i]
  BY <1>2, ThoseList
<1> QED BY <1>1, <1>2, <1>3 DEF Range

LEMMA LeaveChannelGood ==
  ASSUME NEW w, Good(w), NEW n \in Host, NEW u \in User, NEW ch
  PROVE  Good(LeaveChannel(w, n, u, ch))
<1> DEFINE l == w.local[n][u]
           rest == Without(l.list, ch)
           def == IF ch = l.def THEN Head(rest) ELSE l.def
           x == [list |-> rest, def |-> def, away |-> l.away]
           v == [w EXCEPT !.local[n][u].list = rest, !.local[n][u].def = def]
<1>1. /\ IsWorld(w) /\ w.local[n] = [k \in User |-> w.local[n][k]]
      /\ IsUser(l) /\ Range(l.list) \subseteq w.chans[n]
  BY UserFacts
<1>2. CASE Len(l.list) = 1 BY <1>2, ByeUserGood DEF LeaveChannel
<1>3. CASE Len(l.list) # 1
  <2>1. v = PutUser(w, n, u, x, {})
    <3> HIDE DEF rest, def
    <3>1. Edits(w, n, u, rest, def, {}) BY EditUser
    <3> QED BY <3>1 DEF Edits
  <2>2. IsList(rest) /\ Range(rest) \subseteq Range(l.list) BY <1>1, WithoutList DEF IsUser
  <2>3. IsUser(x) /\ Range(x.list) \subseteq w.chans[n] \cup {}
    <3> HIDE DEF l, rest, def
    <3> QED BY <1>1, <2>2 DEF IsUser
  <2>4. LeaveChannel(w, n, u, ch) =
          SendTo(DropIfEmpty(v, n, {ch}), n, HostConns(w, n), <<UserChange(u, n, ch, -1)>>)
    BY <1>3 DEF LeaveChannel
  <2> HIDE DEF x, v
  <2>5. Good(v) BY <2>1, <2>3, PutUserGood
  <2> QED BY <2>4, <2>5, DropIfEmptyGood, SendToGood
<1> QED BY <1>2, <1>3

-----------------------------------------------------------------------------
(* Commands of hosts.                                                      *)

(* What is known of n's table of users.                                    *)
LEMMA RemoteFacts ==
  ASSUME NEW w, Good(w), NEW n \in Host
  PROVE  /\ IsWorld(w) /\ IsList(w.remote[n])
         /\ \A r \in Range(w.remote[n]) : /\ IsEntry(r) /\ r.ch \in w.chans[n]
                                          /\ r.via \in StreamsOf(n) /\ w.conn[n][r.via] = "host"
BY DEF Good, HostOK, ShapeOK, ChansOK, UsersOK

LEMMA EntryEdits ==
  ASSUME NEW r, IsEntry(r), NEW c
  PROVE  /\ Set(r, "ch", c) = [u |-> r.u, h |-> r.h, via |-> r.via, ch |-> c, away |-> r.away]
         /\ Set(r, "away", c) = [u |-> r.u, h |-> r.h, via |-> r.via, ch |-> r.ch, away |-> c]
<1> DEFINE rec(x, y, z, e, f) == [u |-> x, h |-> y, via |-> z, ch |-> e, away |-> f]
<1>1. ASSUME NEW x, NEW y, NEW z, NEW e, NEW f
      PROVE  Set(rec(x, y, z, e, f), "ch", c) = rec(x, y, z, c, f)
  BY DEF Set
<1>2. ASSUME NEW x, NEW y, NEW z, NEW e, NEW f
      PROVE  Set(rec(x, y, z, e, f), "away", c) = rec(x, y, z, e, c)
  BY DEF Set
<1>3. r = rec(r.u, r.h, r.via, r.ch, r.away) BY DEF IsEntry
<1> HIDE DEF rec
<1>4. Set(r, "ch", c) = rec(r.u, r.h, r.via, c, r.away) BY <1>1, <1>3
<1>5. Set(r, "away", c) = rec(r.u, r.h, r.via, r.ch, c) BY <1>2, <1>3
<1> QED BY <1>4, <1>5 DEF rec

LEMMA HUserGood ==
  ASSUME NEW w, Good(w), NEW n \in Host, NEW s \in StreamsOf(n), w.conn[n][s] = "host", NEW l
  PROVE  Good(HUser(w, n, s, l))
<1> DEFINE same(r) == r.via = s /\ r.u = l.u /\ r.h = l.h /\ r.ch = l.old
           R == w.remote[n]
           i == SelectInSeq(R, same)
           entry == [u |-> l.u, h |-> l.h, via |-> s, ch |-> l.new, away |-> FALSE]
           changed == [R EXCEPT ![i].ch = l.new]
           table == CASE i # 0 /\ l.new # -1 -> changed
                      [] i # 0 /\ l.new = -1 -> RemoveAt(R, i)
                      [] i = 0 /\ l.new # -1 -> <<entry>> \o R
                      [] OTHER -> R
           opened == IF l.new = -1 THEN {} ELSE {l.new}
           ok(r) == /\ IsEntry(r) /\ r.ch \in w.chans[n] \cup opened
                    /\ r.via \in StreamsOf(n) /\ w.conn[n][r.via] = "host"
<1>1. IsList(R) /\ \A r \in Range(R) : ok(r) BY RemoteFacts
<1>2. i = 0 \/ i \in DOMAIN R
  <2> DEFINE I == {j \in 1 .. Len(R) : same(R[j])}
  <2>1. i = IF I # {} THEN Min(I) ELSE 0 BY DEF SelectInSeq
  <2>2. Len(R) \in Nat /\ DOMAIN R = 1 .. Len(R) BY <1>1 DEF IsList
  <2>3. I \in SUBSET (1 .. Len(R)) OBVIOUS
  <2> HIDE DEF I, i, R
  <2> QED BY <2>1, <2>2, <2>3, Selected
<1> HIDE DEF i
<1>3. ASSUME i # 0 /\ l.new # -1
      PROVE  IsList(table) /\ \A r \in Range(table) : ok(r)
  <2> DEFINE x == [u |-> R[i].u, h |-> R[i].h, via |-> R[i].via, ch |-> l.new, away |-> R[i].away]
  <2>1. R[i] \in Range(R) /\ ok(R[i]) BY <1>1, <1>2, <1>3 DEF Range
  <2>2. Set(R[i], "ch", l.new) = x BY <2>1, EntryEdits
  <2>3. changed = [R EXCEPT ![i] = x] BY <2>2 DEF Set
  <2>4. ok(x) BY <1>3, <2>1 DEF IsEntry
  <2>5. table = [R EXCEPT ![i] = x] BY <1>3, <2>3
  <2> HIDE DEF R, ok, x, table
  <2>6. IsList(table) /\ \A y \in Range(table) : y = x \/ y \in Range(R)
    BY <1>1, <1>2, <1>3, <2>5, ExceptList
  <2>7. IsList(table) /\ \A y \in Range(table) : ok(y) BY <1>1, <2>4, <2>6
  <2> QED BY <2>7
<1>4. ASSUME i # 0 /\ l.new = -1
      PROVE  IsList(table) /\ \A r \in Range(table) : ok(r)
  <2>1. table = RemoveAt(R, i) BY <1>4
  <2> HIDE DEF R, ok, table
  <2> QED BY <1>1, <1>2, <1>4, <2>1, RemoveList
<1>5. ASSUME i = 0 /\ l.new # -1
      PROVE  IsList(table) /\ \A r \in Range(table) : ok(r)
  <2>1. table = <<entry>> \o R BY <1>5
  <2>2. ok(entry) BY <1>5 DEF IsEntry
  <2> HIDE DEF R, ok, entry, table
  <2>3. IsList(table) /\ \A y \in Range(table) : y = entry \/ y \in Range(R)
    BY <1>1, <2>1, ConsList
  <2> QED BY <1>1, <2>2, <2>3
<1>6. ASSUME i = 0 /\ l.new = -1
      PROVE  IsList(table) /\ \A r \in Range(table) : ok(r)
  <2>1. table = R BY <1>6
  <2> HIDE DEF R, ok, table
  <2> QED BY <1>1, <2>1
<1>7. IsList(table) /\ \A r \in Range(table) : ok(r) BY <1>3, <1>4, <1>5, <1>6
<1>8. HUser(w, n, s, l) = SendTo(DropIfEmpty(PutRemote(w, n, table, opened), n, {l.old}),
                                 n, HostConns(w, n) \ {s}, <<l>>)
  <2> HIDE DEF opened
  <2> QED BY DEF HUser, PutRemote, i, opened
<1> HIDE DEF table, opened
<1>9. Good(PutRemote(w, n, table, opened)) BY <1>7, PutRemoteGood
<1> QED BY <1>8, <1>9, DropIfEmptyGood, SendToGood

LEMMA HAwayGood ==
  ASSUME NEW w, Good(w), NEW n \in Host, NEW s, NEW l
  PROVE  Good(HAway(w, n, s, l))
<1> DEFINE his(r) == r.u = l.u /\ r.h = l.h
           differs(r) == his(r) /\ ~(r.away /\ l.away)
           R == w.remote[n]
           i == SelectInSeq(R, differs)
           own == l.h = n /\ l.u \in {u \in User : w.local[n][u].list # <<>>}
           w1 == CASE own -> [w EXCEPT !.local[n][l.u].away = l.away]
                   [] ~own /\ i # 0 -> [w EXCEPT !.remote[n][i].away = l.away]
                   [] ~own /\ i = 0 -> w
           news == IF own THEN ~(w.local[n][l.u].away /\ l.away)
                   ELSE i # 0 /\ i = SelectInSeq(R, his)
           ok(r) == /\ IsEntry(r) /\ r.ch \in w.chans[n] \cup {}
                    /\ r.via \in StreamsOf(n) /\ w.conn[n][r.via] = "host"
<1>1. IsWorld(w) /\ IsList(R) /\ \A r \in Range(R) : ok(r) BY RemoteFacts
<1>2. i = 0 \/ i \in DOMAIN R
  <2> DEFINE I == {j \in 1 .. Len(R) : differs(R[j])}
  <2>1. i = IF I # {} THEN Min(I) ELSE 0 BY DEF SelectInSeq
  <2>2. Len(R) \in Nat /\ DOMAIN R = 1 .. Len(R) BY <1>1 DEF IsList
  <2>3. I \in SUBSET (1 .. Len(R)) OBVIOUS
  <2> HIDE DEF I, i, R
  <2> QED BY <2>1, <2>2, <2>3, Selected
<1>3. HAway(w, n, s, l) = IF news THEN SendTo(w1, n, HostConns(w, n) \ {s}, <<l>>) ELSE w1
  BY DEF HAway
<1> HIDE DEF i, news
<1>4. Good(w1)
  <2>1. CASE ~own /\ i = 0 BY <2>1
  <2>3. CASE own
    <3> DEFINE u == l.u
               e == w.local[n][u]
               x == [list |-> e.list, def |-> e.def, away |-> l.away]
    <3>1. u \in User BY <2>3
    <3>2. IsUser(e) /\ Range(e.list) \subseteq w.chans[n] BY <3>1, UserFacts
    <3>3. [w EXCEPT !.local[n][u].away = l.away] = PutUser(w, n, u, x, {})
      <4>1. Edits(w, n, u, 0, l.away, {}) BY <3>1, EditUser
      <4> QED BY <4>1 DEF Edits
    <3>4. IsUser(x) /\ Range(x.list) \subseteq w.chans[n] \cup {} BY <3>2 DEF IsUser
    <3>5. w1 = [w EXCEPT !.local[n][u].away = l.away] BY <2>3
    <3> HIDE DEF x, w1
    <3> QED BY <3>1, <3>3, <3>4, <3>5, PutUserGood
  <2>2. CASE ~own /\ i # 0
    <3> DEFINE x == [u |-> R[i].u, h |-> R[i].h, via |-> R[i].via, ch |-> R[i].ch, away |-> l.away]
               table == [R EXCEPT ![i] = x]
               p == Put(w, "remote", n, table)
    <3>1. R[i] \in Range(R) /\ ok(R[i]) BY <1>1, <1>2, <2>2 DEF Range
    <3>2. Set(R[i], "away", l.away) = x BY <3>1, EntryEdits
    <3>3. [R EXCEPT ![i].away = l.away] = table BY <3>2 DEF Set
    <3>4. [w EXCEPT !.remote[n][i].away = l.away] = Put(w, "remote", n, [R EXCEPT ![i].away = l.away])
      BY DEF Put
    <3>5. w1 = p BY <2>2, <3>3, <3>4
    <3>6. ok(x) BY <3>1 DEF IsEntry
    <3>7. IsList(table) /\ \A y \in Range(table) : ok(y)
      <4> HIDE DEF R, ok, x
      <4>1. IsList(table) /\ \A y \in Range(table) : y = x \/ y \in Range(R)
        BY <1>1, <1>2, <2>2, ExceptList
      <4> QED BY <1>1, <3>6, <4>1
    <3> HIDE DEF table
    <3>8. Good(PutRemote(w, n, table, {})) BY <3>7, PutRemoteGood
    <3>9. PutRemote(w, n, table, {}) = Put(Put(w, "remote", n, table), "chans", n, w.chans[n])
      <4>1. w.chans[n] \cup {} = w.chans[n] OBVIOUS
      <4> QED BY <1>1, <4>1 DEF IsWorld, IsRec, OfHosts, Tables, Fields, Put, PutRemote
    <3>10. Within(w, p, n, {"remote"}) BY <1>1, SetTable DEF Tables
    <3> HIDE DEF p
    <3>11. p.chans = w.chans BY <1>1, <3>10 DEF Within, IsWorld, OfHosts, Tables
    <3>12. Put(p, "chans", n, w.chans[n]) = p
      BY <3>10, <3>11 DEF Within, IsWorld, IsRec, OfHosts, Tables, Fields, Put
    <3> QED BY <3>5, <3>8, <3>9, <3>12 DEF p
  <2> QED BY <2>1, <2>2, <2>3
<1> HIDE DEF w1
<1> QED BY <1>3, <1>4, SendToGood

LEMMA HDestGood ==
  ASSUME NEW w, Good(w), NEW n \in Host, NEW s \in StreamsOf(n), w.conn[n][s] = "host", NEW l
  PROVE  Good(HDest(w, n, s, l))
<1>1. w.perm[n][Peer(s, n)].conn = s BY DEF Good, HostOK, LinksOK
<1>2. s # NoStream /\ Peer(s, n) \in Peers(n) BY StreamAssumption, PeerFacts
<1> QED BY <1>1, <1>2, UpdateDestinationsGood DEF HDest

LEMMA PassOnGood ==
  ASSUME NEW w, Good(w), NEW n, NEW ch, NEW from
  PROVE  Good(PassOn(w, n, ch, from))
BY SendToGood DEF PassOn

LEMMA PermStep ==
  ASSUME NEW w, Good(w), NEW n \in Host, NEW P \in [Peers(n) -> Permlink],
         \A m \in Peers(n) :
           \/ P[m].conn = w.perm[n][m].conn
           \/ P[m].conn = NoStream /\ \A x \in Between(n, m) : w.conn[n][x] # "host"
  PROVE  Good(Put(w, "perm", n, P))
<1> DEFINE v == Put(w, "perm", n, P)
<1>1. IsWorld(w) /\ HostOK(w, n) BY DEF Good
<1>2. Within(w, v, n, {"perm"}) /\ v.perm[n] = P BY <1>1, SetTable DEF Tables
<1> HIDE DEF v
<1>3. Within(w, v, n, {"conn", "perm"}) /\ v.conn[n] = w.conn[n] BY <1>2 DEF Within, Tables
<1>4. w.conn[n] \in [StreamsOf(n) -> ConnTypes] BY <1>1 DEF HostOK, ShapeOK
<1>5. Good(v) BY <1>2, <1>3, <1>4, LinksStep
<1> QED BY <1>5 DEF v

LEMMA LoopDetectGood ==
  ASSUME NEW w, Good(w), NEW n \in Host, NEW s \in StreamsOf(n)
  PROVE  Good(LoopDetect(w, n, s))
<1> DEFINE m == Peer(s, n)
           P == [w.perm[n] EXCEPT ![m].locked = TRUE]
           v == [w EXCEPT !.perm[n][m].locked = TRUE]
<1>1. w.perm[n] \in [Peers(n) -> Permlink] BY DEF Good, HostOK, ShapeOK
<1>2. P \in [Peers(n) -> Permlink] /\ \A x \in Peers(n) : P[x].conn = w.perm[n][x].conn
  <2> HIDE DEF m
  <2> QED BY <1>1 DEF Permlink
<1>3. v = Put(w, "perm", n, P) BY DEF Put
<1> HIDE DEF P
<1>4. Good(v)
  <2> HIDE DEF v
  <2> QED BY <1>2, <1>3, PermStep
<1>5. LoopDetect(w, n, s) = Bye(v, n, s) BY DEF LoopDetect
<1> HIDE DEF v
<1> QED BY <1>4, <1>5, ByeClosed DEF Closed

LEMMA BrokenGood ==
  ASSUME NEW w, Good(w), NEW n \in Host, NEW s \in StreamsOf(n)
  PROVE  Good(Broken(w, n, s))
<1> DEFINE x == [w EXCEPT !.ends[s] = @ \ {n}]
           y == [x EXCEPT !.q[s][n] = <<>>]
           z == [w EXCEPT !.ends[s] = @ \ {n}, !.q[s][n] = <<>>]
<1>1. Good(x)
  <2>1. x = [w EXCEPT !["ends"] = [w.ends EXCEPT ![s] = @ \ {n}]] OBVIOUS
  <2>2. IsWorld(w) BY DEF Good
  <2> QED BY <2>1, <2>2, SetLines, StreamStep
<1>2. Good(y)
  <2> HIDE DEF x
  <2>1. y = [x EXCEPT !["q"] = [x.q EXCEPT ![s] = [x.q[s] EXCEPT ![n] = <<>>]]] OBVIOUS
  <2>2. IsWorld(x) BY <1>1 DEF Good
  <2> QED BY <1>1, <2>1, <2>2, SetLines, StreamStep
<1>3. z = y OBVIOUS
<1>4. Broken(w, n, s) = Bye(z, n, s) BY DEF Broken
<1> HIDE DEF x, y, z
<1> QED BY <1>2, <1>3, <1>4, ByeClosed DEF Closed

(* Connection s becomes one of type t and the connection of its PERMLINK,  *)
(* which has no other connection of a host.                                *)
LEMMA TakeOver ==
  ASSUME NEW w, Good(w), NEW n \in Host, NEW s \in StreamsOf(n), NEW t \in ConnTypes,
         w.conn[n][s] # "host",
         \A x \in Between(n, Peer(s, n)) : x # s => w.conn[n][x] # "host"
  PROVE  LET v == UpdatePermlinks([w EXCEPT !.conn[n][s] = t], n, Peer(s, n), s) IN
         /\ Good(v)
         /\ v.perm[n][Peer(s, n)].conn = s /\ v.conn[n][s] = t
<1> DEFINE m == Peer(s, n)
           c == [w.conn[n] EXCEPT ![s] = t]
           x == [w EXCEPT !.conn[n][s] = t]
           v == UpdatePermlinks(x, n, m, s)
<1>1. IsWorld(w) /\ HostOK(w, n) BY DEF Good
<1>2. x = Put(w, "conn", n, c) BY DEF Put
<1> HIDE DEF x
<1>3. Within(w, x, n, {"conn"}) /\ x.conn[n] = c
  <2> HIDE DEF c
  <2> QED BY <1>1, <1>2, SetTable DEF Tables
<1>4. Cleared(x, v, n, m, s)
  <2>1. IsWorld(x) BY <1>3 DEF Within
  <2> QED BY <2>1, UpdatePermlinksOnly
<1> HIDE DEF v
<1>5. s # NoStream /\ m \in Peers(n) /\ s \in Between(n, m) BY StreamAssumption, PeerFacts
<1>6. Within(w, v, n, Tables)
  <2>1. Within(w, v, n, {"conn"} \cup {"perm", "dest"}) BY <1>3, <1>4, WithinTrans DEF Cleared
  <2> QED BY <2>1 DEF Within, Tables
<1>7. /\ v.conn[n] = c /\ v.chans[n] = w.chans[n]
      /\ v.local[n] = w.local[n] /\ v.remote[n] = w.remote[n]
  BY <1>3, <1>4 DEF Within, Tables, Cleared
<1>8. v.perm[n] = [w.perm[n] EXCEPT ![m].conn = s]
  BY <1>3, <1>4, <1>5 DEF Within, Tables, Cleared
<1>9. /\ v.perm[n] \in [Peers(n) -> Permlink] /\ v.perm[n][m].conn = s
      /\ \A p \in Peers(n) : p # m => v.perm[n][p] = w.perm[n][p]
  <2>1. w.perm[n] \in [Peers(n) -> Permlink] BY <1>1 DEF HostOK, ShapeOK
  <2>2. s \in Stream BY PeerFacts
  <2> HIDE DEF m
  <2> QED BY <1>5, <1>8, <2>1, <2>2 DEF Permlink
<1>10. /\ c \in [StreamsOf(n) -> ConnTypes]
       /\ \A y \in StreamsOf(n) : c[y] = IF y = s THEN t ELSE w.conn[n][y]
  BY <1>1 DEF HostOK, ShapeOK
<1> HIDE DEF c, m
<1>11. ShapeOK(v, n) BY <1>1, <1>4, <1>7, <1>9, <1>10 DEF HostOK, ShapeOK, Cleared
<1>12. ChansOK(v, n) BY <1>1, <1>7 DEF HostOK, ChansOK
<1>13. LinksOK(v, n)
  <2>1. \A p \in Peers(n) : v.perm[n][p].conn \in Between(n, p) \cup {NoStream}
    BY <1>1, <1>5, <1>9 DEF HostOK, LinksOK
  <2>2. ASSUME NEW y \in StreamsOf(n), c[y] = "host" PROVE v.perm[n][Peer(y, n)].conn = y
    <3>1. CASE y = s BY <1>9, <3>1 DEF m
    <3>2. CASE y # s
      <4>1. w.conn[n][y] = "host" BY <1>10, <2>2, <3>2
      <4>2. w.perm[n][Peer(y, n)].conn = y BY <1>1, <4>1 DEF HostOK, LinksOK
      <4>3. Peer(y, n) # m /\ Peer(y, n) \in Peers(n) BY <3>2, <4>1, PeerFacts DEF m
      <4> QED BY <1>9, <4>2, <4>3
    <3> QED BY <3>1, <3>2
  <2> QED BY <1>7, <2>1, <2>2 DEF LinksOK
<1>14. UsersOK(v, n) BY <1>1, <1>7, <1>10 DEF HostOK, UsersOK
<1>15. DestsOK(v, n)
  <2>1. ASSUME NEW h \in Host, v.dest[n][h].rtt # 0
        PROVE  /\ v.dest[n][h].link \in Peers(n)
               /\ v.perm[n][v.dest[n][h].link].conn # NoStream
               /\ c[v.perm[n][v.dest[n][h].link].conn] = "host"
    <3> DEFINE p == w.dest[n][h].link
    <3>1. v.dest[n][h] = w.dest[n][h] /\ p # m
      BY <1>3, <1>4, <2>1 DEF Cleared, Within, Tables
    <3>2. p \in Peers(n) /\ w.perm[n][p].conn # NoStream /\ w.conn[n][w.perm[n][p].conn] = "host"
      BY <1>1, <2>1, <3>1 DEF HostOK, DestsOK
    <3> HIDE DEF p
    <3>3. w.perm[n][p].conn \in StreamsOf(n) BY <1>1, <3>2, PermFacts
    <3>4. v.perm[n][p].conn = w.perm[n][p].conn BY <1>9, <3>1, <3>2
    <3>5. c[w.perm[n][p].conn] = "host" BY <1>10, <3>2, <3>3
    <3> QED BY <3>1, <3>2, <3>4, <3>5 DEF p
  <2> QED BY <1>7, <2>1 DEF DestsOK
<1>16. Good(v) BY <1>6, <1>11, <1>12, <1>13, <1>14, <1>15, LocalStep DEF HostOK
<1>17. v.perm[n][m].conn = s /\ v.conn[n][s] = t BY <1>7, <1>9, <1>10
<1> QED BY <1>16, <1>17 DEF v, x, m

LEMMA CcpcvsGood ==
  ASSUME NEW w, Good(w), NEW n \in Host, NEW s \in StreamsOf(n), w.conn[n][s] = "none"
  PROVE  Good(Ccpcvs(w, n, s))
<1> DEFINE m == Peer(s, n)
           old == w.perm[n][m].conn
           w1 == IF old = NoStream THEN w ELSE Bye(w, n, old)
           v == UpdatePermlinks([w1 EXCEPT !.conn[n][s] = "unknown"], n, m, s)
<1>1. IsWorld(w) /\ HostOK(w, n) BY DEF Good
<1>2. m \in Peers(n) /\ s \in Between(n, m) BY PeerFacts
<1>3. \A x \in Between(n, m) : w.conn[n][x] = "host" => old = x
  BY <1>1, BetweenFacts DEF HostOK, LinksOK
<1> HIDE DEF m
<1>4. old # NoStream => old \in StreamsOf(n) BY <1>1, <1>2, PermFacts
<1>5. ASSUME old # NoStream PROVE Closed(w, Bye(w, n, old), n, old)
  <2> HIDE DEF old
  <2> QED BY <1>4, <1>5, ByeClosed
<1>6. Good(w1) BY <1>5 DEF Closed
<1>7. w1.conn[n][s] = "none" /\ \A x \in Between(n, m) : w1.conn[n][x] # "host"
  <2> HIDE DEF old
  <2>1. CASE old = NoStream
    <3>1. \A x \in Between(n, m) : x # NoStream BY StreamAssumption DEF Between
    <3> QED BY <1>3, <2>1, <3>1
  <2>2. CASE old # NoStream
    <3>1. \A x \in StreamsOf(n) :
            w1.conn[n][x] = IF x = old /\ w.conn[n][old] \in {"unknown", "host"} THEN "closed"
                            ELSE w.conn[n][x]
      BY <1>5, <2>2 DEF Closed
    <3>2. \A x \in Between(n, m) : x \in StreamsOf(n) BY BetweenFacts
    <3> HIDE DEF w1
    <3> QED BY <1>3, <3>1, <3>2
  <2> QED BY <2>1, <2>2
<1>8. Good(v)
  <2> HIDE DEF w1
  <2>1. "unknown" \in ConnTypes BY DEF ConnTypes
  <2> QED BY <1>6, <1>7, <2>1, TakeOver DEF m
<1>9. Ccpcvs(w, n, s) = IF w.perm[n][m].locked THEN w ELSE v
  BY DEF Ccpcvs, m
<1> HIDE DEF v
<1> QED BY <1>8, <1>9

LEMMA TwoBetween ==
  ASSUME NEW n, NEW m, NEW s \in Between(n, m), NEW o \in Between(n, m), s # o,
         NEW x \in Between(n, m)
  PROVE  x = s \/ x = o
BY DEF Between

LEMMA HHostGood ==
  ASSUME NEW w, Good(w), NEW n \in Host, NEW s \in StreamsOf(n), w.conn[n][s] = "unknown"
  PROVE  Good(HHost(w, n, s))
<1> DEFINE m == Peer(s, n)
           other == {o \in Between(n, m) \ {s} : w.conn[n][o] \in {"unknown", "host"}}
           o == CHOOSE y \in other : TRUE
           w1 == IF other = {} THEN w ELSE Bye(w, n, o)
           w2 == UpdatePermlinks([w1 EXCEPT !.conn[n][s] = "host"], n, m, s)
           known == {h \in Host : w2.dest[n][h].rtt # 0}
           line(h) == [t |-> "DEST", h |-> h, rtt |-> w2.dest[n][h].rtt + 99]
           lines == (IF s[2] = n THEN <<[t |-> "HOST"]>> ELSE <<>>)
                    \o SetToSeq({line(h) : h \in known}) \o UserLines(w2, n)
<1>1. m \in Peers(n) /\ s \in Between(n, m) BY PeerFacts
<1>2. w1.conn[n][s] = "unknown" /\ Good(w1)
      /\ \A x \in Between(n, m) : x # s => w1.conn[n][x] # "host"
  <2>1. CASE other = {}
    <3>1. w1 = w BY <2>1
    <3> HIDE DEF m, w1
    <3> QED BY <2>1, <3>1
  <2>2. CASE other # {}
    <3>1. o \in other BY <2>2
    <3>2. o \in Between(n, m) /\ o # s /\ w.conn[n][o] \in {"unknown", "host"} BY <3>1
    <3>3. w1 = Bye(w, n, o) BY <2>2
    <3> HIDE DEF m, o, w1, other
    <3>4. o \in StreamsOf(n) BY <3>2, BetweenFacts
    <3>5. Closed(w, w1, n, o) BY <3>3, <3>4, ByeClosed
    <3>6. \A x \in StreamsOf(n) : w1.conn[n][x] = IF x = o THEN "closed" ELSE w.conn[n][x]
      BY <3>2, <3>5 DEF Closed
    <3>7. \A x \in Between(n, m) : x = s \/ x = o BY <1>1, <3>2, TwoBetween
    <3> QED BY <3>2, <3>4, <3>5, <3>6, <3>7 DEF Closed
  <2> HIDE DEF w1, other
  <2> QED BY <2>1, <2>2
<1>3. Good(w2) /\ w2.perm[n][m].conn = s /\ w2.conn[n][s] = "host"
  <2> HIDE DEF w1
  <2>1. "host" \in ConnTypes BY DEF ConnTypes
  <2> QED BY <1>2, <2>1, TakeOver
<1>4. HHost(w, n, s) = UpdateDestinations(SendTo(w2, n, {s}, lines), n, m, {m}, 1)
  <2> HIDE DEF w2
  <2> QED BY DEF HHost, w2
<1> HIDE DEF w2, lines
<1> DEFINE x == SendTo(w2, n, {s}, lines)
<1>5. Good(x) /\ Within(w2, x, n, {}) BY <1>3, SendToGood, SendToOnly DEF Good
<1> HIDE DEF x
<1>6. x.perm[n][m].conn = s /\ x.conn[n][s] = "host" BY <1>3, <1>5 DEF Within, Tables
<1>7. s # NoStream BY StreamAssumption, PeerFacts
<1> HIDE DEF m
<1>8. Good(UpdateDestinations(x, n, m, {m}, 1))
  BY <1>1, <1>5, <1>6, <1>7, UpdateDestinationsGood
<1> QED BY <1>4, <1>8 DEF x

-----------------------------------------------------------------------------
(* The sweep of conversd() and the operators' links command.               *)

(* conn[n] becomes c and perm[n] becomes P.                                *)
LEMMA PutLinks ==
  ASSUME NEW w, Good(w), NEW n \in Host,
         NEW c \in [StreamsOf(n) -> ConnTypes], NEW P \in [Peers(n) -> Permlink],
         \A x \in StreamsOf(n) : c[x] = "host" <=> w.conn[n][x] = "host",
         \A m \in Peers(n) :
           \/ P[m].conn = w.perm[n][m].conn
           \/ /\ P[m].conn \in Between(n, m) \cup {NoStream}
              /\ \A x \in Between(n, m) : w.conn[n][x] # "host"
  PROVE  LET v == Put(Put(w, "conn", n, c), "perm", n, P) IN
         Good(v) /\ v.conn[n] = c /\ v.perm[n] = P
<1> DEFINE v == Put(Put(w, "conn", n, c), "perm", n, P)
<1>1. Within(w, v, n, {"conn", "perm"}) /\ v.conn[n] = c /\ v.perm[n] = P
  BY PutTwo DEF Tables, Good
<1> HIDE DEF v
<1>2. Good(v) BY <1>1, LinksStep
<1> QED BY <1>1, <1>2 DEF v

LEMMA FreeConnectionsGood ==
  ASSUME NEW w, Good(w), NEW n \in Host, NEW S \in SUBSET StreamsOf(n),
         \A s \in S : w.conn[n][s] # "host"
  PROVE  LET v == FreeConnections(w, n, S) IN
         /\ Good(v)
         /\ \A x \in StreamsOf(n) : v.conn[n][x] = IF x \in S THEN "none" ELSE w.conn[n][x]
         /\ \A m \in Peers(n) : w.perm[n][m].conn \in S \cup {NoStream} =>
                                  v.perm[n][m].conn = NoStream
<1> DEFINE open == {s \in S : n \in w.ends[s]}
           w1 == SendTo(w, n, open, <<[t |-> "EOF"]>>)
           c == [s \in StreamsOf(n) |-> IF s \in S THEN "none" ELSE w1.conn[n][s]]
           P == [m \in DOMAIN w1.perm[n] |->
                   IF w1.perm[n][m].conn \in S THEN [w1.perm[n][m] EXCEPT !.conn = NoStream]
                   ELSE w1.perm[n][m]]
           E == [s \in Stream |-> IF s \in open THEN w1.ends[s] \ {n} ELSE w1.ends[s]]
           Q == [s \in Stream |-> IF s \in open THEN [w1.q[s] EXCEPT ![n] = <<>>] ELSE w1.q[s]]
           x == Put(Put(w1, "conn", n, c), "perm", n, P)
           y == [x EXCEPT !["ends"] = E]
           v == [y EXCEPT !["q"] = Q]
<1>1. FreeConnections(w, n, S) = v
  <2> HIDE DEF w1, open
  <2>1. FreeConnections(w, n, S) =
          [w1 EXCEPT !.conn[n] = [s \in StreamsOf(n) |-> IF s \in S THEN "none" ELSE @[s]],
                !.perm[n] = [m \in DOMAIN @ |->
                               IF @[m].conn \in S THEN [@[m] EXCEPT !.conn = NoStream] ELSE @[m]],
                !.ends = [s \in Stream |-> IF s \in open THEN @[s] \ {n} ELSE @[s]],
                !.q = [s \in Stream |-> IF s \in open THEN [@[s] EXCEPT ![n] = <<>>] ELSE @[s]]]
    BY DEF FreeConnections, w1, open
  <2> QED BY <2>1 DEF Put
<1>2. Good(w1) /\ Within(w, w1, n, {}) BY SendToGood, SendToOnly DEF Good
<1> HIDE DEF w1, open
<1>3. w1.conn[n] = w.conn[n] /\ w1.perm[n] = w.perm[n] BY <1>2 DEF Within, Tables
<1>4. HostOK(w, n) BY DEF Good
<1>5. w.conn[n] \in [StreamsOf(n) -> ConnTypes] /\ w.perm[n] \in [Peers(n) -> Permlink]
  BY <1>4 DEF HostOK, ShapeOK
<1>6. /\ c \in [StreamsOf(n) -> ConnTypes]
      /\ \A z \in StreamsOf(n) : c[z] = IF z \in S THEN "none" ELSE w.conn[n][z]
  BY <1>3, <1>5 DEF ConnTypes
<1>7. /\ P \in [Peers(n) -> Permlink]
      /\ \A m \in Peers(n) : P[m].conn = IF w.perm[n][m].conn \in S THEN NoStream
                                         ELSE w.perm[n][m].conn
  BY <1>3, <1>5 DEF Permlink
<1> HIDE DEF c, P
<1>8. Good(x) /\ x.conn[n] = c /\ x.perm[n] = P
  <2>1. \A z \in StreamsOf(n) : c[z] = "host" <=> w1.conn[n][z] = "host" BY <1>3, <1>6
  <2>2. ASSUME NEW m \in Peers(n), P[m].conn # w1.perm[n][m].conn
        PROVE  /\ P[m].conn \in Between(n, m) \cup {NoStream}
               /\ \A z \in Between(n, m) : w1.conn[n][z] # "host"
    <3>1. P[m].conn = NoStream /\ w.perm[n][m].conn \in S BY <1>3, <1>7, <2>2
    <3>2. \A z \in Between(n, m) : w.conn[n][z] = "host" => w.perm[n][m].conn = z
      BY <1>4, BetweenFacts DEF HostOK, LinksOK
    <3> QED BY <1>3, <3>1, <3>2
  <2> QED BY <1>2, <1>6, <1>7, <2>1, <2>2, PutLinks
<1> HIDE DEF x
<1>9. Within(x, y, n, {}) /\ Good(y) BY <1>8, SetLines, StreamStep DEF Good
<1> HIDE DEF y
<1>10. Within(y, v, n, {}) /\ Good(v) BY <1>9, SetLines, StreamStep DEF Good
<1> HIDE DEF v
<1>11. v.conn[n] = c /\ v.perm[n] = P BY <1>8, <1>9, <1>10 DEF Within, Tables
<1>12. /\ \A z \in StreamsOf(n) : v.conn[n][z] = IF z \in S THEN "none" ELSE w.conn[n][z]
       /\ \A m \in Peers(n) : w.perm[n][m].conn \in S \cup {NoStream} =>
                                v.perm[n][m].conn = NoStream
  BY <1>6, <1>7, <1>11
<1> QED BY <1>1, <1>10, <1>12

LEMMA ConnectCvshostGood ==
  ASSUME NEW w, Good(w), NEW n \in Host, NEW S \in SUBSET StreamsOf(n),
         \A s \in S : w.conn[n][s] # "host" /\ s[1] = n,
         \A m \in Peers(n) : <<n, m>> \in S => w.perm[n][m].conn = NoStream
  PROVE  Good(ConnectCvshost(w, n, S))
<1> DEFINE c == [s \in StreamsOf(n) |-> IF s \in S THEN "unknown" ELSE w.conn[n][s]]
           P == [m \in DOMAIN w.perm[n] |->
                   IF <<n, m>> \in S THEN [conn |-> <<n, m>>, locked |-> FALSE] ELSE w.perm[n][m]]
           E == [s \in Stream |-> IF s \in S THEN {n} ELSE w.ends[s]]
           x == Put(Put(w, "conn", n, c), "perm", n, P)
           v == [x EXCEPT !["ends"] = E]
<1>1. ConnectCvshost(w, n, S) = v BY DEF ConnectCvshost, Put
<1>2. HostOK(w, n) BY DEF Good
<1>3. w.conn[n] \in [StreamsOf(n) -> ConnTypes] /\ w.perm[n] \in [Peers(n) -> Permlink]
  BY <1>2 DEF HostOK, ShapeOK
<1>4. /\ c \in [StreamsOf(n) -> ConnTypes]
      /\ \A z \in StreamsOf(n) : c[z] = "host" <=> w.conn[n][z] = "host"
  BY <1>3 DEF ConnTypes
<1>5. /\ P \in [Peers(n) -> Permlink]
      /\ \A m \in Peers(n) : P[m].conn = IF <<n, m>> \in S THEN <<n, m>> ELSE w.perm[n][m].conn
  <2>1. \A s \in S : s \in Stream BY DEF StreamsOf
  <2> QED BY <1>3, <2>1 DEF Permlink
<1> HIDE DEF c, P
<1>6. Good(x)
  <2>1. ASSUME NEW m \in Peers(n), P[m].conn # w.perm[n][m].conn
        PROVE  /\ P[m].conn \in Between(n, m) \cup {NoStream}
               /\ \A z \in Between(n, m) : w.conn[n][z] # "host"
    <3>1. <<n, m>> \in S /\ P[m].conn = <<n, m>> /\ w.perm[n][m].conn = NoStream BY <1>5, <2>1
    <3>2. <<n, m>> \in Stream BY <3>1 DEF StreamsOf
    <3>3. P[m].conn \in Between(n, m) BY <3>1, <3>2 DEF Between
    <3>4. \A z \in Between(n, m) : w.conn[n][z] = "host" => w.perm[n][m].conn = z
      BY <1>2, BetweenFacts DEF HostOK, LinksOK
    <3>5. \A z \in Between(n, m) : z # NoStream BY StreamAssumption DEF Between
    <3> QED BY <3>1, <3>3, <3>4, <3>5
  <2> QED BY <1>4, <1>5, <2>1, PutLinks
<1> HIDE DEF x
<1>7. Good(v) BY <1>6, SetLines, StreamStep DEF Good
<1> QED BY <1>1, <1>7

-----------------------------------------------------------------------------
(* Every action keeps the invariant.                                       *)

IInv == Good(World)

LEMMA Record ==
  ASSUME NEW a, NEW b, NEW c, NEW d, NEW e, NEW f, NEW g, NEW h
  PROVE  LET v == [conn |-> a, ends |-> b, q |-> c, perm |-> d, dest |-> e,
                   local |-> f, remote |-> g, chans |-> h] IN
         /\ IsRec(v)
         /\ v["conn"] = a /\ v["perm"] = d /\ v["dest"] = e
         /\ v["local"] = f /\ v["remote"] = g /\ v["chans"] = h
BY DEF IsRec, Fields

(* The state becomes w, or differs from it only in the streams.            *)
LEMMA BecomeGood ==
  ASSUME NEW w, Good(w), conn' = w.conn, perm' = w.perm, dest' = w.dest,
         local' = w.local, remote' = w.remote, chans' = w.chans
  PROVE  IInv'
<1> DEFINE v == World'
<1>1. IsRec(v) /\ \A f \in Tables : v[f] = w[f] BY Record DEF World, Tables
<1> HIDE DEF v
<1>2. Within(w, v, 0, {}) BY <1>1 DEF Within, Good, IsWorld
<1>3. Good(v) BY <1>2, StreamStep
<1> QED BY <1>3 DEF v, IInv

LEMMA Becomes ==
  ASSUME NEW w, Good(w), Become(w)
  PROVE  IInv'
BY BecomeGood DEF Become

LEMMA WorldFacts ==
  /\ World.conn = conn /\ World.perm = perm /\ World.dest = dest /\ World.local = local
  /\ World.remote = remote /\ World.chans = chans /\ World.ends = ends /\ World.q = q
BY DEF World

LEMMA Streams ==
  ASSUME IInv, UNCHANGED <<conn, perm, dest, local, remote, chans>>
  PROVE  IInv'
BY BecomeGood, WorldFacts DEF IInv

(* A line is taken from a stream.                                          *)
LEMMA RestGood ==
  ASSUME IInv, NEW n, NEW s
  PROVE  Good(Rest(n, s)) /\ Rest(n, s).conn = conn
<1> DEFINE v == Rest(n, s)
<1>1. v = [World EXCEPT !["q"] = [World.q EXCEPT ![s] = [World.q[s] EXCEPT ![n] = Tail(@)]]]
  BY DEF Rest
<1>2. IsWorld(World) /\ Good(World) BY DEF IInv, Good
<1>3. Within(World, v, n, {})
  <2> HIDE DEF v
  <2> QED BY <1>1, <1>2, SetLines
<1>4. v.conn = World.conn BY DEF Rest, World
<1> HIDE DEF v
<1>5. Good(v) BY <1>2, <1>3, StreamStep
<1> QED BY <1>4, <1>5, WorldFacts DEF v

LEMMA ReceiveGood ==
  ASSUME IInv, NEW n \in Host, NEW s \in StreamsOf(n), Receive(n, s)
  PROVE  IInv'
<1> DEFINE r == Rest(n, s)
<1>1. Good(r) /\ r.conn = conn BY RestGood
<1> HIDE DEF r
<1>2. CASE Lost(n, s) BY <1>2, BrokenGood, Becomes DEF Lost, IInv
<1>3. CASE ConversLine(n, s)
  <2>1. Good(Ccpcvs(r, n, s)) BY <1>1, <1>3, CcpcvsGood DEF ConversLine
  <2> QED BY <1>3, <2>1, Becomes DEF ConversLine, r
<1>4. CASE HostLine(n, s)
  <2>1. Good(HHost(r, n, s)) BY <1>1, <1>4, HHostGood DEF HostLine
  <2> QED BY <1>4, <2>1, Becomes DEF HostLine, r
<1>5. CASE LoopedLine(n, s)
  <2>1. Good(LoopDetect(r, n, s)) BY <1>1, LoopDetectGood
  <2> QED BY <1>5, <2>1, Becomes DEF LoopedLine, r
<1>6. CASE DestLine(n, s)
  <2>1. Good(HDest(r, n, s, First(n, s))) BY <1>1, <1>6, HDestGood DEF DestLine
  <2> QED BY <1>6, <2>1, Becomes DEF DestLine, r
<1>7. CASE UserLine(n, s)
  <2>1. Good(HUser(r, n, s, First(n, s))) BY <1>1, <1>7, HUserGood DEF UserLine
  <2> QED BY <1>7, <2>1, Becomes DEF UserLine, r
<1>8. CASE AwayLine(n, s)
  <2>1. Good(HAway(r, n, s, First(n, s))) BY <1>1, HAwayGood
  <2> QED BY <1>8, <2>1, Becomes DEF AwayLine, r
<1>9. CASE CmsgLine(n, s)
  <2>1. Good(PassOn(r, n, First(n, s).ch, s)) BY <1>1, PassOnGood
  <2> QED BY <1>9, <2>1, Becomes DEF CmsgLine, r
<1>10. CASE Dropped(n, s)
  <2>1. Become(r) BY <1>10 DEF Dropped, r
  <2> QED BY <1>1, <2>1, Becomes
<1> QED BY <1>2, <1>3, <1>4, <1>5, <1>6, <1>7, <1>8, <1>9, <1>10 DEF Receive

LEMMA ConversdGood ==
  ASSUME IInv, NEW n \in Host, NEW late \in SUBSET StreamsOf(n), NEW due \in SUBSET StreamsOf(n),
         Conversd(n, late, due)
  PROVE  IInv'
<1> DEFINE swept == late \cup {s \in StreamsOf(n) : conn[n][s] = "closed"}
           x == FreeConnections(World, n, swept)
<1>1. /\ late \subseteq Waiting(n) /\ due \subseteq Due(n, swept)
      /\ Become(ConnectCvshost(x, n, due))
  BY DEF Conversd
<1>2. swept \in SUBSET StreamsOf(n) /\ \A s \in swept : World.conn[n][s] # "host"
  BY <1>1, WorldFacts DEF Waiting
<1> HIDE DEF swept
<1>3. /\ Good(x)
      /\ \A s \in StreamsOf(n) : x.conn[n][s] = IF s \in swept THEN "none" ELSE World.conn[n][s]
      /\ \A m \in Peers(n) : World.perm[n][m].conn \in swept \cup {NoStream} =>
                               x.perm[n][m].conn = NoStream
  BY <1>2, FreeConnectionsGood DEF IInv
<1> HIDE DEF x
<1>4. ASSUME NEW s \in due
      PROVE  /\ s[1] = n /\ perm[n][s[2]].conn \in swept \cup {NoStream}
             /\ s \in swept \/ conn[n][s] = "none"
  BY <1>1 DEF Due
<1>5. \A s \in due : x.conn[n][s] # "host" /\ s[1] = n BY <1>3, <1>4, WorldFacts
<1>6. \A m \in Peers(n) : <<n, m>> \in due => x.perm[n][m].conn = NoStream
  BY <1>3, <1>4, WorldFacts
<1>7. Good(ConnectCvshost(x, n, due)) BY <1>3, <1>5, <1>6, ConnectCvshostGood
<1> QED BY <1>1, <1>7, Becomes

LEMMA LinksGood ==
  ASSUME IInv, NEW n \in Host, NEW m, Links(n, m)
  PROVE  IInv'
<1> DEFINE old == World.perm[n][m].conn
           w == IF old = NoStream THEN World ELSE Bye(World, n, old)
           P == [w.perm[n] EXCEPT ![m] = [conn |-> NoStream, locked |-> FALSE]]
           v == [w EXCEPT !.perm[n][m] = [conn |-> NoStream, locked |-> FALSE]]
<1>1. m \in DOMAIN World.perm[n] /\ Become(v) BY WorldFacts DEF Links
<1>2. Good(World) /\ HostOK(World, n) BY DEF IInv, Good
<1>3. m \in Peers(n) BY <1>1, <1>2 DEF HostOK, ShapeOK
<1>4. \A x \in Between(n, m) : World.conn[n][x] = "host" => old = x
  BY <1>2, BetweenFacts DEF HostOK, LinksOK
<1>5. old # NoStream => old \in StreamsOf(n) BY <1>2, <1>3, PermFacts
<1>6. ASSUME old # NoStream PROVE Closed(World, Bye(World, n, old), n, old)
  <2> HIDE DEF old
  <2> QED BY <1>2, <1>5, <1>6, ByeClosed
<1>7. Good(w) BY <1>2, <1>6 DEF Closed
<1>8. \A x \in Between(n, m) : w.conn[n][x] # "host"
  <2> HIDE DEF old
  <2>1. CASE old = NoStream
    <3>1. \A x \in Between(n, m) : x # NoStream BY StreamAssumption DEF Between
    <3> QED BY <1>4, <2>1, <3>1
  <2>2. CASE old # NoStream
    <3>1. \A x \in StreamsOf(n) :
            w.conn[n][x] = IF x = old /\ World.conn[n][old] \in {"unknown", "host"} THEN "closed"
                           ELSE World.conn[n][x]
      BY <1>6, <2>2 DEF Closed
    <3>2. \A x \in Between(n, m) : x \in StreamsOf(n) BY BetweenFacts
    <3> HIDE DEF w
    <3> QED BY <1>4, <3>1, <3>2
  <2> QED BY <2>1, <2>2
<1>9. v = Put(w, "perm", n, P)
  <2> HIDE DEF w
  <2> QED BY DEF Put
<1> HIDE DEF w, v
<1>10. P \in [Peers(n) -> Permlink] /\ P[m].conn = NoStream
       /\ \A x \in Peers(n) : x # m => P[x] = w.perm[n][x]
  <2>1. w.perm[n] \in [Peers(n) -> Permlink] BY <1>7 DEF Good, HostOK, ShapeOK
  <2> QED BY <1>3, <2>1 DEF Permlink
<1> HIDE DEF P
<1>11. Good(v) BY <1>7, <1>8, <1>9, <1>10, PermStep
<1> QED BY <1>1, <1>11, Becomes

LEMMA UserGood ==
  ASSUME IInv, NEW n \in Host, NEW u \in User
  PROVE  /\ Quit(n, u) \/ Away(n, u) \/ Say(n, u) => IInv'
         /\ \A ch \in Channel : Login(n, u, ch) \/ Join(n, u, ch) \/ Leave(n, u, ch) => IInv'
<1>1. Good(World) BY DEF IInv
<1>2. ASSUME Quit(n, u) PROVE IInv' BY <1>1, <1>2, ByeUserGood, Becomes DEF Quit
<1>3. ASSUME Away(n, u) PROVE IInv'
  <2> DEFINE away == ~local[n][u].away
             l == World.local[n][u]
             x == [list |-> l.list, def |-> l.def, away |-> away]
             v == [World EXCEPT !.local[n][u].away = away]
  <2>1. v = PutUser(World, n, u, x, {})
    <3> HIDE DEF away
    <3>1. Edits(World, n, u, 0, away, {}) BY <1>1, EditUser
    <3> QED BY <3>1 DEF Edits
  <2>2. IsUser(x) /\ Range(x.list) \subseteq World.chans[n] \cup {}
    <3>1. IsUser(l) /\ Range(l.list) \subseteq World.chans[n] BY <1>1, UserFacts
    <3> HIDE DEF l, away
    <3> QED BY <3>1 DEF IsUser
  <2>3. \E line : Become(SendTo(v, n, HostConns(World, n), line)) BY <1>3 DEF Away
  <2> HIDE DEF v, x
  <2>4. Good(v) BY <1>1, <2>1, <2>2, PutUserGood
  <2> QED BY <2>3, <2>4, SendToGood, Becomes
<1>4. ASSUME Say(n, u) PROVE IInv' BY <1>1, <1>4, PassOnGood, Becomes DEF Say
<1>5. ASSUME NEW ch \in Channel, Login(n, u, ch) PROVE IInv'
  BY <1>1, <1>5, NameGood, Becomes DEF Login
<1>6. ASSUME NEW ch \in Channel, Join(n, u, ch) PROVE IInv'
  BY <1>1, <1>6, JoinChannelGood, Becomes DEF Join
<1>7. ASSUME NEW ch \in Channel, Leave(n, u, ch) PROVE IInv'
  BY <1>1, <1>7, LeaveChannelGood, Becomes DEF Leave
<1> QED BY <1>2, <1>3, <1>4, <1>5, <1>6, <1>7

LEMMA NextGood == IInv /\ [Next]_vars => IInv'
<1> SUFFICES ASSUME IInv, [Next]_vars PROVE IInv' OBVIOUS
<1>1. CASE UNCHANGED vars BY <1>1, Streams DEF vars
<1>2. ASSUME NEW s \in Stream, Established(s) \/ NotEstablished(s) \/ Fail(s) PROVE IInv'
  BY <1>2, Streams DEF Established, NotEstablished, Fail
<1>3. ASSUME NEW n \in Host, NEW s \in StreamsOf(n), Receive(n, s) PROVE IInv'
  BY <1>3, ReceiveGood
<1>4. ASSUME NEW n \in Host, NEW late \in SUBSET StreamsOf(n), NEW due \in SUBSET StreamsOf(n),
             Conversd(n, late, due)
      PROVE  IInv'
  BY <1>4, ConversdGood
<1>5. ASSUME NEW n \in Host, NEW m \in Host, Links(n, m) PROVE IInv' BY <1>5, LinksGood
<1>6. ASSUME NEW n \in Host, NEW u \in User, Quit(n, u) \/ Away(n, u) \/ Say(n, u) PROVE IInv'
  BY <1>6, UserGood
<1>7. ASSUME NEW n \in Host, NEW u \in User, NEW ch \in Channel,
             Login(n, u, ch) \/ Join(n, u, ch) \/ Leave(n, u, ch)
      PROVE  IInv'
  BY <1>7, UserGood
<1>8. CASE Next BY <1>2, <1>3, <1>4, <1>5, <1>6, <1>7, <1>8 DEF Next
<1> QED BY <1>1, <1>8

LEMMA InitGood == Init => IInv
<1> SUFFICES ASSUME Init PROVE IInv OBVIOUS
<1>1. /\ conn = [n \in Host |-> [s \in StreamsOf(n) |-> "none"]]
      /\ perm = [n \in Host |-> [m \in {Peer(s, n) : s \in Stream \cap StreamsOf(n)} |->
                                 [conn |-> NoStream, locked |-> FALSE]]]
      /\ dest = [n \in Host |-> [h \in Host |-> [link |-> NoHost, rtt |-> 0, sent |-> 0]]]
      /\ local = [n \in Host |-> [u \in User |-> NotHere]]
      /\ remote = [n \in Host |-> <<>>]
      /\ OfHosts(chans)
  BY DEF Init, Start, Unconnected, OfHosts
<1>2. IsWorld(World)
  <2>1. IsRec(World) BY Record DEF World
  <2>2. /\ OfHosts(conn) /\ OfHosts(perm) /\ OfHosts(dest)
        /\ OfHosts(local) /\ OfHosts(remote) /\ OfHosts(chans)
    BY <1>1 DEF OfHosts
  <2> QED BY <2>1, <2>2, WorldFacts DEF IsWorld, Tables
<1>3. ASSUME NEW n \in Host PROVE HostOK(World, n)
  <2>1. Stream \cap StreamsOf(n) = StreamsOf(n) BY DEF StreamsOf
  <2>2. /\ conn[n] = [s \in StreamsOf(n) |-> "none"]
        /\ perm[n] = [m \in Peers(n) |-> [conn |-> NoStream, locked |-> FALSE]]
        /\ dest[n] = [h \in Host |-> [link |-> NoHost, rtt |-> 0, sent |-> 0]]
        /\ local[n] = [u \in User |-> NotHere]
        /\ remote[n] = <<>>
    BY <1>1, <2>1 DEF Peers
  <2>3. IsUser(NotHere) /\ Range(NotHere.list) = {} BY DEF NotHere, IsUser, IsList, Range
  <2>4. IsList(<<>>) /\ Range(<<>>) = {} BY DEF IsList, Range
  <2>5. ShapeOK(World, n)
    <3>1. conn[n] \in [StreamsOf(n) -> ConnTypes] BY <2>2 DEF ConnTypes
    <3>2. perm[n] \in [Peers(n) -> Permlink] BY <2>2 DEF Permlink
    <3>3. dest[n] = [h \in Host |-> dest[n][h]] BY <2>2
    <3>4. local[n] = [u \in User |-> local[n][u]] /\ \A u \in User : IsUser(local[n][u])
      BY <2>2, <2>3
    <3>5. IsList(remote[n]) /\ \A r \in Range(remote[n]) : IsEntry(r) BY <2>2, <2>4
    <3> QED BY <3>1, <3>2, <3>3, <3>4, <3>5, WorldFacts DEF ShapeOK
  <2>6. ChansOK(World, n) BY <2>2, <2>3, <2>4, WorldFacts DEF ChansOK
  <2>7. LinksOK(World, n) BY <2>2, WorldFacts DEF LinksOK
  <2>8. UsersOK(World, n) BY <2>2, <2>4, WorldFacts DEF UsersOK
  <2>9. DestsOK(World, n) BY <2>2, WorldFacts DEF DestsOK
  <2> QED BY <2>5, <2>6, <2>7, <2>8, <2>9 DEF HostOK
<1> QED BY <1>2, <1>3 DEF IInv, Good

-----------------------------------------------------------------------------
(* Results.                                                                *)

(* In every network of hosts, a channel that a user of this or another     *)
(* host is on exists: destroy_channel() frees none that is still in use,   *)
(* so process_input() and send_msg_to_channel() find it.                   *)
THEOREM ChannelsAlwaysExist == Spec => []ChannelsExist
<1>1. IInv => ChannelsExist
  <2> SUFFICES ASSUME IInv, NEW n \in Host
               PROVE  /\ \A u \in User : Range(local[n][u].list) \subseteq chans[n]
                      /\ \A i \in DOMAIN remote[n] : remote[n][i].ch \in chans[n]
    BY DEF ChannelsExist
  <2>1. ChansOK(World, n) BY DEF IInv, Good, HostOK
  <2> QED BY <2>1, WorldFacts DEF ChansOK, Range
<1> QED BY <1>1, InitGood, NextGood, PTL DEF Spec

(* In every network of hosts, the via of a user and the link of a          *)
(* destination that is reached are connections of hosts: bye_command2()    *)
(* and update_permlinks() leave nothing behind that leads to a connection  *)
(* that is closed or freed.                                                *)
THEOREM WaysAlwaysOpen == Spec => []WaysOpen
<1>1. IInv => WaysOpen
  <2> SUFFICES ASSUME IInv, NEW n \in Host
               PROVE  /\ \A i \in DOMAIN remote[n] : conn[n][remote[n][i].via] = "host"
                      /\ \A h \in Host : dest[n][h].rtt # 0 =>
                           LET way == perm[n][dest[n][h].link].conn
                           IN  way # NoStream /\ conn[n][way] = "host"
    BY DEF WaysOpen
  <2>1. UsersOK(World, n) /\ DestsOK(World, n) BY DEF IInv, Good, HostOK
  <2> QED BY <2>1, WorldFacts DEF UsersOK, DestsOK, Range
<1> QED BY <1>1, InitGood, NextGood, PTL DEF Spec
=============================================================================
