------------------------------ MODULE L7Proofs ------------------------------
(***************************************************************************)
(* Proofs about L7Patch: with any number of links, circuits and console    *)
(* channels, the patch cords stay in order.                                *)
(*                                                                         *)
(* The invariant IInv has a part for each table.  It says what an entry of *)
(* the patch cord table looks like while its link is set up, waits, is up  *)
(* or is gone, who may be the partner of whom in which status of the user  *)
(* block, and what the reports that wait for another turn of the main loop *)
(* (status messages, answered CQs) say about these entries.  Operators on  *)
(* the tables (World) have an effect, stated as a Post condition of the    *)
(* operator; an action takes it from there to IInv'.                       *)
(***************************************************************************)
EXTENDS L7Patch, SequenceTheorems, WellFoundedInduction, TLAPS

(* What level 7 does not survive, each for a reason of its own: two CQ     *)
(* callers at a time (clrccp() looks at the first only), a connect that is *)
(* passed on to a CQ caller (is_cq() from gateway()), further lines of two *)
(* users between the answer to a CQ and timsrv(), and a channel that is    *)
(* connected again before the report of its end is read.  That the cords   *)
(* agree, and the refinement, are false when any of these is left out.     *)
Limits == MaxCq <= 1 /\ MaxGatewayCq = 0 /\ MaxImpatient = 0 /\ MaxReuse = 0

-----------------------------------------------------------------------------
(* The invariant.                                                          *)

StatusMessage == [op : {"CONNT", "DISCF", "BUSYF"}, h : HostUser]

TypeOK ==
  /\ link \in [User -> LinkEntry]
  /\ ptc \in [User -> Cord]
  /\ hstatl \in Seq(StatusMessage)
  /\ numhsts \in Int
  /\ cq_user \in Seq(User)
  /\ cq_statl \in Seq(User \X User)
  /\ userhd \subseteq User
  /\ turn \in {"low", "l7rx", "timsrv", "host", "l4rest", "l7tx"}
  /\ used \in [gatewayCq : Nat, frmr : Nat, impatient : Nat, miscount : Nat, reuse : Nat]

(* u has answered a CQ, or his CQ is answered, and timsrv() is to tell him. *)
Joined(u) == \E i \in DOMAIN cq_statl : u \in {cq_statl[i][1], cq_statl[i][2]}

(* u is called, by his partner if he has one: no user block yet, and the   *)
(* caller waits in US_CREQ.                                                *)
Called(u) ==
  /\ ptc[u].ublk = "no" /\ ~ptc[u].local /\ ~ptc[u].recflg
  /\ ptc[u].p # NoUid => ptc[ptc[u].p].ublk = "CREQ"

(* A link that is gone has a clear entry, one that is set up is called, one *)
(* that waits hop to hop has sent no line and does not come back.          *)
LinkOk(u) ==
  /\ link[u].st = "none" /\ u \notin HostUser => ptc[u] = ClearCord
  /\ link[u].st = "setup" => Called(u) /\ (ptc[u].p # NoUid => ~link[u].disc)
  /\ link[u].st = "hth" => u \in L2User /\ u \notin userhd /\ ~ptc[u].recflg
  /\ u \in HostUser => link[u].st \in {"none", "up"}

LinkInv == \A u \in User : LinkOk(u)

(* Cords have two ends; who is his own partner calls CQ; a caller has a    *)
(* partner without a user block, unless he is to be disconnected; whoever  *)
(* is at the prompt has no partner, unless a CQ has just been answered.    *)
CordOk(u) ==
  /\ ptc[u].p = u => ptc[u].ublk = "CQ"
  /\ ptc[u].p # NoUid => ptc[ptc[u].p].p = u
  /\ ptc[u].ublk = "CREQ" => IF ptc[u].p = NoUid THEN ptc[u].local ELSE ptc[ptc[u].p].ublk = "no"
  /\ ptc[u].ublk \in {"CCP", "DIG", "CQ"} => ptc[u].p \in {NoUid, u} \/ Joined(u)
  /\ ptc[u].ublk = "DIG" => u \notin HostUser /\ (turn \in {"low", "l7rx"} \/ u \notin userhd)
  /\ u \in userhd => ~ptc[u].local

CordInv == \A u \in User : CordOk(u)

(* An answer to a CQ: both ends stand still until timsrv() tells them.     *)
AnswerInv(i) ==
  LET u == cq_statl[i][1]
      c == cq_statl[i][2]
  IN /\ u # c /\ ptc[u].p = c /\ ptc[c].p = u
     /\ ptc[u].ublk \in {"CCP", "DIG"} /\ ptc[c].ublk = "CQ"
     /\ u \notin userhd /\ c \notin userhd
     /\ \A j \in DOMAIN cq_statl : j # i => {u, c} \cap {cq_statl[j][1], cq_statl[j][2]} = {}

CqInv ==
  /\ Len(cq_user) <= 1
  /\ \A i \in DOMAIN cq_user : ptc[cq_user[i]].ublk = "CQ" /\ ptc[cq_user[i]].p = cq_user[i]
  /\ cq_statl # <<>> => turn \in {"l7rx", "timsrv"}
  /\ \A i \in DOMAIN cq_statl : AnswerInv(i)

(* A status message of a channel: a connect is the first message about its *)
(* channel, and one that the channel has outlived is followed by another.  *)
MessageInv(i) ==
  LET h == hstatl[i].h IN
  /\ hstatl[i].op = "CONNT" =>
       /\ Called(h)
       /\ \A j \in DOMAIN hstatl : hstatl[j].h = h => j >= i
       /\ link[h].st = "none" => \E j \in DOMAIN hstatl : hstatl[j].h = h /\ j # i
  /\ link[h].st = "up" => hstatl[i].op = "CONNT"

HostInv ==
  /\ \A i \in DOMAIN hstatl : MessageInv(i)
  /\ \A h \in HostUser : link[h].st = "none" /\ ~Pending(h) => ptc[h] = ClearCord

IInv == TypeOK /\ LinkInv /\ CordInv /\ CqInv /\ HostInv /\ NobodyAlone

-----------------------------------------------------------------------------
(* The operators of L7Patch on the tables, with their effects.             *)

Worlds == [link : [User -> LinkEntry], ptc : [User -> Cord], cq : Seq(User)]

LEMMA LinkFields ==
  /\ \A e \in LinkEntry : /\ e.st \in {"none", "setup", "hth", "up"}
                          /\ e.disc \in BOOLEAN /\ e.ack \in BOOLEAN /\ e.rej \in BOOLEAN
  /\ NoLink \in LinkEntry
  /\ \A c \in Cord : /\ c.p \in User \cup {NoUid} /\ c.ublk \in {"no", "CCP", "CREQ", "CQ", "DIG"}
                     /\ c.local \in BOOLEAN /\ c.recflg \in BOOLEAN
  /\ ClearCord \in Cord
BY DEF LinkEntry, NoLink, Cord, ClearCord


(* What an operator may change: at most the entries of U; the state of a   *)
(* link never, and what is to go down stays so.                            *)
Within(w, x, U) ==
  /\ x \in Worlds
  /\ \A v \in User :
       /\ v \notin U => x.link[v] = w.link[v] /\ x.ptc[v] = w.ptc[v]
       /\ x.link[v].st = w.link[v].st
       /\ w.link[v].disc => x.link[v].disc
       /\ x.ptc[v].local = w.ptc[v].local /\ x.ptc[v].recflg = w.ptc[v].recflg

SamePartners(w, x) == \A v \in User : x.ptc[v].p = w.ptc[v].p

(* The list of CQ callers, which has one entry at most, without u.         *)
Without(q, u) == IF q # <<>> /\ q[1] = u THEN <<>> ELSE q

LEMMA DisusrEffect ==
  ASSUME NEW w \in Worlds, NEW u \in User, NEW x, x = Disusr(w, u)
  PROVE  /\ Within(w, x, {u}) /\ SamePartners(w, x)
         /\ x.ptc = w.ptc /\ x.cq = w.cq
         /\ MayDiscard(w, u) => x.link[u].disc
BY DEF Disusr, Worlds, LinkEntry, MayDiscard, Within, SamePartners

Statuses == {"no", "CCP", "CREQ", "CQ", "DIG"}

StatusPost(w, x, u, s) ==
  /\ Within(w, x, {u}) /\ SamePartners(w, x)
  /\ x.cq = w.cq /\ x.link = w.link /\ x.ptc[u].ublk = s

LEMMA StatusEffect ==
  ASSUME NEW w \in Worlds, NEW u \in User, NEW s \in Statuses
  PROVE  StatusPost(w, [w EXCEPT !.ptc[u].ublk = s], u, s)
BY DEF Worlds, Cord, Within, SamePartners, Statuses, StatusPost

PartnerPost(w, x, u, p) ==
  /\ Within(w, x, {u})
  /\ x.cq = w.cq /\ x.link = w.link /\ x.ptc[u].p = p /\ x.ptc[u].ublk = w.ptc[u].ublk

LEMMA PartnerEffect ==
  ASSUME NEW w \in Worlds, NEW u \in User, NEW p \in User \cup {NoUid}
  PROVE  PartnerPost(w, [w EXCEPT !.ptc[u].p = p], u, p)
BY DEF Worlds, Cord, Within, PartnerPost

NewUserPost(w, x, u, dig, ok) ==
  /\ Within(w, x, {u}) /\ SamePartners(w, x) /\ x.cq = w.cq
  /\ \/ ok /\ x.link = w.link /\ x.ptc[u].ublk = IF dig \/ Hth(w, u) THEN "DIG" ELSE "CCP"
     \/ ~ok /\ x.ptc = w.ptc /\ (MayDiscard(w, u) => x.link[u].disc)

LEMMA NewUserEffect ==
  ASSUME NEW w \in Worlds, NEW u \in User, NEW dig \in BOOLEAN, NEW ok \in BOOLEAN
  PROVE  NewUserPost(w, NewUser(w, u, dig, ok), u, dig, ok)
<1> DEFINE x == NewUser(w, u, dig, ok)
<1>1. CASE ok
  <2> DEFINE s == IF dig \/ Hth(w, u) THEN "DIG" ELSE "CCP"
  <2>1. s \in Statuses BY DEF Statuses
  <2>2. x = [w EXCEPT !.ptc[u].ublk = s] BY <1>1 DEF NewUser
  <2> HIDE DEF s, x
  <2>3. StatusPost(w, x, u, s) BY <2>1, <2>2, StatusEffect
  <2> QED BY <1>1, <2>3, Zenon DEF s, x, NewUserPost, StatusPost
<1>2. CASE ~ok
  <2>1. x = Disusr(w, u) BY <1>2 DEF NewUser
  <2> HIDE DEF x
  <2>2. /\ Within(w, x, {u}) /\ SamePartners(w, x)
        /\ x.ptc = w.ptc /\ x.cq = w.cq
        /\ MayDiscard(w, u) => x.link[u].disc
    BY <2>1, DisusrEffect
  <2> QED BY <1>2, <2>2, Zenon DEF NewUserPost, x
<1> QED BY <1>1, <1>2

LEMMA ShortSequence ==
  ASSUME NEW S, NEW s \in Seq(S), Len(s) <= 1, s # <<>>
  PROVE  Len(s) = 1 /\ Head(s) = s[1] /\ Tail(s) = <<>>
<1> DEFINE n == Len(s)
<1>1. n \in Nat /\ n # 0 /\ n <= 1 OBVIOUS
<1> HIDE DEF n
<1>2. n = 1 BY <1>1
<1>3. Len(s) = 1 BY <1>2 DEF n
<1>4. Tail(s) \in Seq(S) /\ Len(Tail(s)) = 0 BY <1>3
<1>5. Tail(s) = <<>> BY <1>4, EmptySeq
<1> QED BY <1>3, <1>5

LEMMA RemoveFirstEffect ==
  ASSUME NEW s \in Seq(User), Len(s) <= 1, NEW e
  PROVE  RemoveFirst(s, e) = Without(s, e)
<1> DEFINE I == {i \in 1 .. Len(s) : s[i] = e}
<1>1. CASE I = {}
  <2>1. s # <<>> => s[1] # e BY <1>1, ShortSequence
  <2> QED BY <1>1, <2>1 DEF RemoveFirst, Without
<1>2. CASE I # {}
  <2>1. PICK k \in 1 .. Len(s) : s[k] = e BY <1>2
  <2>2. s # <<>> BY <2>1
  <2>3. Len(s) = 1 BY <2>2, ShortSequence
  <2>4. I = {1} BY <2>1, <2>3
  <2>5. Min(I) = 1 BY <2>4 DEF Min
  <2>6. RemoveFirst(s, e) = RemoveAt(s, Min(I))
    BY <1>2 DEF RemoveFirst, SelectInSeq
  <2>7. RemoveAt(s, 1) = <<>> BY <2>3 DEF RemoveAt
  <2> QED BY <2>1, <2>2, <2>3, <2>5, <2>6, <2>7 DEF Without
<1> QED BY <1>1, <1>2

LEMMA AckEffect ==
  ASSUME NEW w \in Worlds, NEW u \in User, NEW x, x = [w EXCEPT !.link[u].ack = TRUE]
  PROVE  /\ Within(w, x, {u}) /\ x.cq = w.cq /\ x.ptc = w.ptc
         /\ \A v \in User : x.link[v].disc = w.link[v].disc
BY DEF Worlds, LinkEntry, Within

LEMMA RejEffect ==
  ASSUME NEW w \in Worlds, NEW u \in User, NEW x, x = [w EXCEPT !.link[u].rej = TRUE]
  PROVE  /\ Within(w, x, {u}) /\ x.cq = w.cq /\ x.ptc = w.ptc
         /\ \A v \in User : x.link[v].disc = w.link[v].disc
BY DEF Worlds, LinkEntry, Within

LEMMA MarkEffect ==
  ASSUME NEW w \in Worlds, NEW u \in User, NEW x, x \in {w, Acklnk(w, u), Rejlnk(w, u)}
  PROVE  /\ Within(w, x, {u}) /\ SamePartners(w, x) /\ x.cq = w.cq /\ x.ptc = w.ptc
         /\ \A v \in User : x.link[v].disc = w.link[v].disc
<1>1. CASE x = w BY <1>1 DEF Within, SamePartners
<1>2. CASE x = [w EXCEPT !.link[u].ack = TRUE] BY <1>2, AckEffect DEF SamePartners
<1>3. CASE x = [w EXCEPT !.link[u].rej = TRUE] BY <1>3, RejEffect DEF SamePartners
<1> QED BY <1>1, <1>2, <1>3 DEF Acklnk, Rejlnk

LEMMA ClrccpEffect ==
  ASSUME NEW w \in Worlds, NEW u \in User, Len(w.cq) <= 1, NEW x, x = Clrccp(w, u)
  PROVE  /\ Within(w, x, {u}) /\ SamePartners(w, x)
         /\ x.link = w.link /\ x.ptc[u].ublk = "no" /\ x.cq = Without(w.cq, u)
<1> DEFINE y == [w EXCEPT !.ptc[u].ublk = "no"]
           q == IF w.cq # <<>> /\ Head(w.cq) = u THEN Tail(w.cq) ELSE w.cq
<1>1. StatusPost(w, y, u, "no")
  <2>1. "no" \in Statuses BY DEF Statuses
  <2> QED BY <2>1, StatusEffect
<1>2. w.cq \in Seq(User) BY DEF Worlds
<1>3. q = Without(w.cq, u)
  <2>1. CASE w.cq = <<>> BY <2>1 DEF Without
  <2>2. CASE w.cq # <<>>
    <3>1. Tail(w.cq) = <<>> /\ Head(w.cq) = w.cq[1] BY <1>2, <2>2, ShortSequence
    <3> QED BY <2>2, <3>1 DEF Without
  <2> QED BY <2>1, <2>2
<1>4. q \in Seq(User) BY <1>2, <1>3 DEF Without
<1>5. x = [y EXCEPT !.cq = q]
  BY DEF Clrccp, Worlds
<1> HIDE DEF y, q
<1> QED BY <1>1, <1>3, <1>4, <1>5 DEF Worlds, Within, SamePartners, StatusPost

LEMMA KillNobody ==
  ASSUME NEW w \in Worlds, NEW u, \A v \in User : w.ptc[v].p # u
  PROVE  KillPartner(w, u) = w
BY DEF KillPartner, Worlds

(* Cords have two ends.                                                    *)
Symmetric(w) == \A v \in User : w.ptc[v].p # NoUid => w.ptc[w.ptc[v].p].p = v

(* Connected() of a link that is not its own partner and whose partner, if *)
(* it has one, has a user block.                                           *)
ConnectedPost(w, x, u, dig, ok) ==
  LET p == w.ptc[u].p IN
  /\ Within(w, x, {u, p}) /\ SamePartners(w, x)
  /\ \/ /\ p # NoUid
        /\ x.link[u] = w.link[u] /\ x.ptc[u] = w.ptc[u]
        /\ x.ptc[p].ublk = "no" /\ x.link[p].disc = w.link[p].disc
        /\ x.cq = Without(w.cq, p)
     \/ p = NoUid /\ w.ptc[u].ublk # "no" /\ x = w
     \/ p = NoUid /\ w.ptc[u].ublk = "no" /\ NewUserPost(w, x, u, dig, ok)

LEMMA ConnectedEffect ==
  ASSUME NEW w \in Worlds, NEW u \in User, NEW dig \in BOOLEAN, NEW ok \in BOOLEAN,
         Len(w.cq) <= 1, Symmetric(w), w.ptc[u].p # u,
         w.ptc[u].p # NoUid => w.ptc[w.ptc[u].p].ublk # "no"
  PROVE  ConnectedPost(w, Connected(w, u, dig, ok), u, dig, ok)
<1> DEFINE p == w.ptc[u].p
           x == Connected(w, u, dig, ok)
<1>0. p \in User \cup {NoUid} BY DEF Worlds, Cord
<1>1. CASE p # NoUid
  <2>1. p \in User BY <1>0, <1>1
  <2> DEFINE y == Acklnk(w, p)
  <2>2. /\ Within(w, y, {p}) /\ SamePartners(w, y) /\ y.cq = w.cq /\ y.ptc = w.ptc
        /\ \A v \in User : y.link[v].disc = w.link[v].disc
    BY <2>1, MarkEffect
  <2>3. x = Clrccp(y, p) BY <1>1 DEF Connected
  <2>4. y \in Worlds BY <2>2 DEF Within
  <2> HIDE DEF y, x
  <2>5. /\ Within(y, x, {p}) /\ SamePartners(y, x)
        /\ x.link = y.link /\ x.ptc[p].ublk = "no" /\ x.cq = Without(y.cq, p)
    BY <2>1, <2>2, <2>3, <2>4, ClrccpEffect
  <2>6. ConnectedPost(w, x, u, dig, ok)
    BY <1>1, <2>1, <2>2, <2>5 DEF Within, SamePartners, ConnectedPost
  <2> QED BY <2>6 DEF x
<1>2. CASE p = NoUid
  <2>1. \A v \in User : w.ptc[v].p # u BY <1>2, UserAssumption DEF Symmetric
  <2>2. KillPartner(w, u) = w BY <2>1, KillNobody
  <2>3. CASE w.ptc[u].ublk # "no"
    <3>1. x = w BY <1>2, <2>2, <2>3 DEF Connected
    <3> QED BY <1>2, <2>3, <3>1 DEF ConnectedPost, Within, SamePartners
  <2>4. CASE w.ptc[u].ublk = "no"
    <3>1. x = NewUser(w, u, dig, ok) BY <1>2, <2>2, <2>4 DEF Connected
    <3>2. NewUserPost(w, x, u, dig, ok) BY <3>1, NewUserEffect, Zenon
    <3> HIDE DEF x
    <3>3. Within(w, x, {u, p}) /\ SamePartners(w, x) BY <3>2 DEF NewUserPost, Within
    <3>4. ConnectedPost(w, x, u, dig, ok) BY <1>2, <2>4, <3>2, <3>3, Zenon DEF ConnectedPost
    <3> QED BY <3>4 DEF x
  <2> QED BY <2>3, <2>4
<1> QED BY <1>1, <1>2

(* What TellPartner() does to p.                                           *)
TellPost(w, x, p, ok) ==
  /\ Within(w, x, {p}) /\ SamePartners(w, x) /\ x.cq = w.cq
  /\ \/ /\ w.ptc[p].ublk = "no" /\ w.ptc[p].recflg /\ x.link = w.link
        /\ x.ptc[p].ublk = IF Hth(w, p) THEN "DIG" ELSE "CCP"
     \/ /\ w.ptc[p].ublk = "no" \/ w.ptc[p].local
        /\ x.ptc[p].ublk = w.ptc[p].ublk /\ (MayDiscard(w, p) => x.link[p].disc)
     \/ /\ w.ptc[p].ublk # "no" /\ ~w.ptc[p].local /\ x.link = w.link
        /\ x.ptc[p].ublk = "CCP"

LEMMA TellPartnerEffect ==
  ASSUME NEW w \in Worlds, NEW p \in User, NEW op, NEW ok \in BOOLEAN
  PROVE  TellPost(w, TellPartner(w, op, p, ok), p, ok)
<1> DEFINE x == TellPartner(w, op, p, ok)
<1>1. CASE w.ptc[p].ublk = "no" /\ w.ptc[p].recflg
  <2>1. x = NewUser(w, p, FALSE, ok) BY <1>1 DEF TellPartner
  <2>2. NewUserPost(w, x, p, FALSE, ok) BY <2>1, NewUserEffect
  <2> HIDE DEF x
  <2>3. TellPost(w, x, p, ok) BY <1>1, <2>2 DEF NewUserPost, TellPost
  <2> QED BY <2>3 DEF x
<1>2. CASE w.ptc[p].ublk = "no" /\ ~w.ptc[p].recflg
  <2>1. x = Disusr(w, p) BY <1>2 DEF TellPartner
  <2> HIDE DEF x
  <2>2. TellPost(w, x, p, ok) BY <1>2, <2>1, DisusrEffect DEF TellPost
  <2> QED BY <2>2 DEF x
<1>3. CASE w.ptc[p].ublk # "no" /\ w.ptc[p].local
  <2> DEFINE y == IF op = "BUSYF" THEN Rejlnk(w, p) ELSE w
  <2>1. x = Disusr(y, p) BY <1>3 DEF TellPartner
  <2>2. y \in {w, Acklnk(w, p), Rejlnk(w, p)} OBVIOUS
  <2> HIDE DEF x, y
  <2>3. /\ Within(w, y, {p}) /\ SamePartners(w, y) /\ y.cq = w.cq /\ y.ptc = w.ptc
    BY <2>2, MarkEffect
  <2>4. y \in Worlds BY <2>3 DEF Within
  <2>5. /\ Within(y, x, {p}) /\ SamePartners(y, x)
        /\ x.ptc = y.ptc /\ x.cq = y.cq
        /\ MayDiscard(y, p) => x.link[p].disc
    BY <2>1, <2>4, DisusrEffect
  <2>6. MayDiscard(y, p) = MayDiscard(w, p) BY <2>3 DEF MayDiscard, Within
  <2>7. TellPost(w, x, p, ok) 
    <3>1. Within(w, x, {p}) /\ SamePartners(w, x) /\ x.cq = w.cq
      BY <2>3, <2>5 DEF Within, SamePartners
    <3> QED BY <1>3, <2>3, <2>5, <2>6, <3>1 DEF TellPost
  <2> QED BY <2>7 DEF x
<1>4. CASE w.ptc[p].ublk # "no" /\ ~w.ptc[p].local
  <2>1. x = [w EXCEPT !.ptc[p].ublk = "CCP"] BY <1>4 DEF TellPartner
  <2>2. "CCP" \in Statuses BY DEF Statuses
  <2>3. StatusPost(w, x, p, "CCP") BY <2>1, <2>2, StatusEffect
  <2> HIDE DEF x
  <2>4. TellPost(w, x, p, ok) BY <1>4, <2>3 DEF StatusPost, TellPost
  <2> QED BY <2>4 DEF x
<1> QED BY <1>1, <1>2, <1>3, <1>4

(* Disconnected(): u is cleared, and its partner told.                     *)
(* Disconnected(): the entry of u is clear, its partner p knows.           *)
DisconnectedPost(w, x, u, ok) ==
  LET p == w.ptc[u].p IN
  /\ x \in Worlds
  /\ x.ptc[u] = ClearCord
  /\ \A v \in User :
       /\ v \notin {u, p} => x.link[v] = w.link[v] /\ x.ptc[v] = w.ptc[v]
       /\ x.link[v].st = w.link[v].st
       /\ w.link[v].disc => x.link[v].disc
  /\ p \notin {u, NoUid} =>
       /\ x.link[u] = w.link[u]
       /\ x.ptc[p].p = NoUid
       /\ x.ptc[p].local = w.ptc[p].local /\ x.ptc[p].recflg = w.ptc[p].recflg
       /\ \/ /\ w.ptc[p].ublk = "no" /\ w.ptc[p].recflg /\ x.link[p] = w.link[p]
             /\ x.ptc[p].ublk = IF Hth(w, p) THEN "DIG" ELSE "CCP"
          \/ /\ w.ptc[p].ublk = "no" \/ w.ptc[p].local
             /\ x.ptc[p].ublk = w.ptc[p].ublk /\ (MayDiscard(w, p) => x.link[p].disc)
          \/ /\ w.ptc[p].ublk # "no" /\ ~w.ptc[p].local /\ x.link[p] = w.link[p]
             /\ x.ptc[p].ublk = "CCP"
  /\ x.cq = IF w.ptc[u].ublk # "no" THEN Without(w.cq, u) ELSE w.cq

LEMMA DisconnectedEffect ==
  ASSUME NEW w \in Worlds, NEW u \in User, NEW op, NEW ok \in BOOLEAN,
         Len(w.cq) <= 1, Symmetric(w), w.ptc[u].p = u => w.ptc[u].ublk # "no"
  PROVE  DisconnectedPost(w, Disconnected(w, op, u, ok), u, ok)
<1> DEFINE p == w.ptc[u].p
           t == TellPartner(w, op, p, ok)
           w1 == IF p = NoUid THEN w ELSE [t EXCEPT !.ptc[p].p = NoUid]
           w2 == IF w1.ptc[u].ublk # "no" THEN Clrccp(w1, u) ELSE w1
           y == [w2 EXCEPT !.ptc[u] = ClearCord]
           x == Disconnected(w, op, u, ok)
<1>0. p \in User \cup {NoUid} BY DEF Worlds, Cord
<1>1. x = KillPartner(y, u) BY DEF Disconnected
<1>2. p # NoUid => TellPost(w, t, p, ok) BY <1>0, TellPartnerEffect
<1> HIDE DEF t
<1>3. p # NoUid => /\ t \in Worlds /\ Within(t, w1, {p})
                   /\ w1.cq = t.cq /\ w1.link = t.link /\ w1.ptc[p].p = NoUid /\ w1.ptc[p].ublk = t.ptc[p].ublk
  <2> SUFFICES ASSUME p # NoUid PROVE /\ t \in Worlds /\ Within(t, w1, {p})
                   /\ w1.cq = t.cq /\ w1.link = t.link /\ w1.ptc[p].p = NoUid /\ w1.ptc[p].ublk = t.ptc[p].ublk
    OBVIOUS
  <2>1. t \in Worlds BY <1>2 DEF TellPost, Within
  <2>2. w1 = [t EXCEPT !.ptc[p].p = NoUid] OBVIOUS
  <2>3. p \in User BY <1>0
  <2> HIDE DEF w1
  <2>4. PartnerPost(t, [t EXCEPT !.ptc[p].p = NoUid], p, NoUid) BY <2>1, <2>3, PartnerEffect
  <2> QED BY <2>1, <2>2, <2>4 DEF PartnerPost
<1>4. p = NoUid => w1 = w OBVIOUS
<1> HIDE DEF w1
<1>5. w1 \in Worlds /\ w1.cq = w.cq
  <2>1. CASE p = NoUid BY <2>1, <1>4
  <2>2. CASE p # NoUid BY <2>2, <1>2, <1>3 DEF Within, TellPost
  <2> QED BY <2>1, <2>2
<1>6. (w1.ptc[u].ublk # "no") = (w.ptc[u].ublk # "no")
  <2>1. CASE p = NoUid BY <2>1, <1>4
  <2>2. CASE p = u BY <2>2, <1>2, <1>3, UserAssumption DEF Within, TellPost
  <2>3. CASE p \notin {NoUid, u} BY <2>3, <1>2, <1>3 DEF Within, TellPost
  <2> QED BY <2>1, <2>2, <2>3
<1>7. /\ Within(w1, w2, {u}) /\ SamePartners(w1, w2) /\ w2.link = w1.link
      /\ w2.cq = IF w.ptc[u].ublk # "no" THEN Without(w.cq, u) ELSE w.cq
  <2>1. CASE w.ptc[u].ublk # "no"
    <3>1. w2 = Clrccp(w1, u) BY <1>6, <2>1
    <3> HIDE DEF w2
    <3>2. Len(w1.cq) <= 1 BY <1>5
    <3>3. /\ Within(w1, w2, {u}) /\ SamePartners(w1, w2)
          /\ w2.link = w1.link /\ w2.cq = Without(w1.cq, u)
      BY <1>5, <3>1, <3>2, ClrccpEffect
    <3> QED BY <1>5, <2>1, <3>3
  <2>2. CASE w.ptc[u].ublk = "no"
    <3>1. w2 = w1 BY <1>6, <2>2
    <3> HIDE DEF w2
    <3> QED BY <1>5, <2>2, <3>1 DEF Within, SamePartners
  <2> QED BY <2>1, <2>2
<1>8. w2 \in Worlds BY <1>7 DEF Within
<1> HIDE DEF w2
<1>9. /\ y \in Worlds /\ y.link = w2.link /\ y.cq = w2.cq /\ y.ptc[u] = ClearCord
      /\ \A v \in User : v # u => y.ptc[v] = w2.ptc[v]
  BY <1>8, LinkFields DEF Worlds
<1>10. \A v \in User : y.ptc[v].p # u
  <2> SUFFICES ASSUME NEW v \in User, y.ptc[v].p = u PROVE FALSE OBVIOUS
  <2>1. v # u BY <1>9, UserAssumption DEF ClearCord
  <2>2. w1.ptc[v].p = u BY <1>7, <1>9, <2>1 DEF SamePartners
  <2>3. CASE v = p
    BY <1>3, <2>2, <2>3, UserAssumption
  <2>4. CASE v # p
    <3>1. w.ptc[v].p = u
      <4>1. CASE p = NoUid BY <4>1, <1>4, <2>2
      <4>2. CASE p # NoUid BY <4>2, <1>2, <1>3, <2>2, <2>4 DEF TellPost, Within, SamePartners
      <4> QED BY <4>1, <4>2
    <3> QED BY <2>4, <3>1, UserAssumption DEF Symmetric
  <2> QED BY <2>3, <2>4
<1>11. x = y BY <1>1, <1>9, <1>10, KillNobody
<1> HIDE DEF x, y
<1>12. DisconnectedPost(w, x, u, ok)
  <2>1. CASE p = NoUid
    BY <1>4, <1>7, <1>9, <1>11, <2>1 DEF DisconnectedPost, Within
  <2>2. CASE p = u
    BY <1>2, <1>3, <1>7, <1>9, <1>11, <2>2, UserAssumption DEF DisconnectedPost, Within, TellPost
  <2>3. CASE p \notin {NoUid, u}
    <3>1. p \in User BY <1>0, <2>3
    <3>2. x.ptc[p] = w1.ptc[p] /\ x.link = t.link BY <1>3, <1>7, <1>9, <1>11, <2>3, <3>1 DEF Within
    <3>3. \A v \in User :
            /\ v \notin {u, p} => x.link[v] = w.link[v] /\ x.ptc[v] = w.ptc[v]
            /\ x.link[v].st = w.link[v].st
            /\ w.link[v].disc => x.link[v].disc
      BY <1>2, <1>3, <1>7, <1>9, <1>11, <2>3, <3>1 DEF Within, TellPost
    <3>4. /\ x.link[u] = w.link[u]
          /\ x.ptc[p].p = NoUid
          /\ x.ptc[p].local = w.ptc[p].local /\ x.ptc[p].recflg = w.ptc[p].recflg
      BY <1>2, <1>3, <2>3, <3>1, <3>2 DEF Within, TellPost
    <3>5. \/ /\ w.ptc[p].ublk = "no" /\ w.ptc[p].recflg /\ x.link[p] = w.link[p]
             /\ x.ptc[p].ublk = IF Hth(w, p) THEN "DIG" ELSE "CCP"
          \/ /\ w.ptc[p].ublk = "no" \/ w.ptc[p].local
             /\ x.ptc[p].ublk = w.ptc[p].ublk /\ (MayDiscard(w, p) => x.link[p].disc)
          \/ /\ w.ptc[p].ublk # "no" /\ ~w.ptc[p].local /\ x.link[p] = w.link[p]
             /\ x.ptc[p].ublk = "CCP"
      BY <1>2, <1>3, <2>3, <3>1, <3>2 DEF TellPost
    <3> QED BY <1>7, <1>9, <1>11, <2>3, <3>3, <3>4, <3>5 DEF DisconnectedPost
  <2> QED BY <2>1, <2>2, <2>3
<1> QED BY <1>12 DEF x

-----------------------------------------------------------------------------
LEMMA InitIInv == ASSUME Init PROVE IInv
<1>1. TypeOK BY LinkFields, EmptySeq DEF Init, TypeOK
<1>2. LinkInv BY DEF Init, LinkInv, LinkOk, ClearCord, NoLink, Called
<1>3. CordInv BY UserAssumption DEF Init, CordInv, CordOk, ClearCord
<1>4. CqInv BY DEF Init, CqInv, AnswerInv
<1>5. HostInv BY DEF Init, HostInv, User
<1>6. NobodyAlone BY DEF Init, NobodyAlone, NoLink
<1> QED BY <1>1, <1>2, <1>3, <1>4, <1>5, <1>6 DEF IInv

(* The tables as the operators find them.                                  *)
LEMMA WorldStep ==
  ASSUME IInv
  PROVE  /\ World \in Worlds /\ Symmetric(World) /\ Len(World.cq) <= 1
         /\ World.link = link /\ World.ptc = ptc /\ World.cq = cq_user
BY DEF IInv, TypeOK, World, Worlds, CordInv, CordOk, CqInv, Symmetric

LEMMA StatusFields ==
  ASSUME TypeOK
  PROVE  \A i \in DOMAIN hstatl : hstatl[i].h \in HostUser /\ hstatl[i].op \in {"CONNT", "DISCF", "BUSYF"}
<1> SUFFICES ASSUME NEW i \in DOMAIN hstatl
             PROVE  hstatl[i].h \in HostUser /\ hstatl[i].op \in {"CONNT", "DISCF", "BUSYF"}
  OBVIOUS
<1>1. hstatl[i] \in StatusMessage BY DEF TypeOK
<1> QED BY <1>1 DEF StatusMessage

LEMMA BecomeType ==
  ASSUME NEW w \in Worlds, Become(w)
  PROVE  /\ link' = w.link /\ ptc' = w.ptc /\ cq_user' = w.cq
         /\ link' \in [User -> LinkEntry] /\ ptc' \in [User -> Cord] /\ cq_user' \in Seq(User)
BY DEF Become, Worlds

LEMMA PassStep == ASSUME IInv, Pass PROVE IInv'
<1> USE DEF IInv, Pass
<1>1. TypeOK' BY DEF TypeOK
<1>2. LinkInv' BY DEF LinkInv, LinkOk, Called
<1>3. CordInv' BY DEF CordInv, CordOk, Joined
<1>4. CqInv' BY DEF CqInv, AnswerInv
<1>5. HostInv' BY DEF HostInv, MessageInv, Called, Pending
<1>6. NobodyAlone' BY DEF NobodyAlone, Partner, Pending
<1> QED BY <1>1, <1>2, <1>3, <1>4, <1>5, <1>6

LEMMA DropLineStep == ASSUME IInv, NEW u \in User, DropLine(u) PROVE IInv'
<1> USE DEF IInv, DropLine
<1>1. TypeOK' BY DEF TypeOK
<1>2. LinkInv' BY DEF LinkInv, LinkOk, Called
<1>3. CordInv' BY DEF CordInv, CordOk, Joined
<1>4. CqInv' BY DEF CqInv, AnswerInv
<1>5. HostInv' BY DEF HostInv, MessageInv, Called, Pending
<1>6. NobodyAlone' BY DEF NobodyAlone, Partner, Pending
<1> QED BY <1>1, <1>2, <1>3, <1>4, <1>5, <1>6

LEMMA InputStep == ASSUME IInv, NEW u \in User, Input(u) PROVE IInv'
<1> USE DEF IInv, Input
<1>1. TypeOK' BY DEF TypeOK
<1>2. LinkInv' BY DEF LinkInv, LinkOk, Called
<1>3. CordInv'
  <2>1. u \in userhd' /\ ptc[u].ublk = "DIG" => turn = "low" \/ u \in HostUser BY DEF User
  <2> QED BY <2>1 DEF CordInv, CordOk, Joined
<1>4. CqInv' BY UserAssumption DEF CqInv, AnswerInv
<1>5. HostInv' BY DEF HostInv, MessageInv, Called, Pending
<1>6. NobodyAlone' BY DEF NobodyAlone, Partner, Pending
<1> QED BY <1>1, <1>2, <1>3, <1>4, <1>5, <1>6

LEMMA AnswerHthStep == ASSUME IInv, NEW u \in User, AnswerHth(u) PROVE IInv'
<1> USE DEF IInv, AnswerHth
<1>0. /\ link' \in [User -> LinkEntry]
      /\ \A v \in User : v # u => link'[v] = link[v]
      /\ link'[u].disc = link[u].disc
      /\ link'[u].st = link[u].st \/ (link[u].st = "hth" /\ link'[u].st = "up")
  <2> DEFINE s == IF Hth(World, u) /\ link[u].ack THEN "up" ELSE link[u].st
  <2>1. link \in [User -> LinkEntry] BY DEF TypeOK
  <2>2. link' = [link EXCEPT ![u].st = s, ![u].ack = FALSE, ![u].rej = FALSE] OBVIOUS
  <2>3. s = link[u].st \/ (link[u].st = "hth" /\ s = "up") BY DEF Hth, World
  <2>4. s \in {"none", "setup", "hth", "up"} BY <2>1, <2>3, LinkFields
  <2> HIDE DEF s
  <2> QED BY <2>1, <2>2, <2>3, <2>4 DEF LinkEntry
<1>1. TypeOK' BY <1>0 DEF TypeOK
<1>2. LinkInv' BY <1>0 DEF LinkInv, LinkOk, Called
<1>3. CordInv' BY DEF CordInv, CordOk, Joined
<1>4. CqInv' BY DEF CqInv, AnswerInv
<1>5. HostInv'
  <2>1. \A h \in HostUser : link'[h].st = link[h].st BY <1>0, UserAssumption DEF LinkInv, LinkOk, User
  <2>2. \A i \in DOMAIN hstatl : hstatl[i].h \in HostUser BY StatusFields
  <2>3. ASSUME NEW i \in DOMAIN hstatl PROVE MessageInv(i)'
    <3>1. MessageInv(i) /\ link'[hstatl[i].h].st = link[hstatl[i].h].st
      BY <2>1, <2>2 DEF HostInv
    <3>2. Called(hstatl[i].h)' = Called(hstatl[i].h) BY DEF Called
    <3> QED BY <3>1, <3>2 DEF MessageInv
  <2> QED BY <2>1, <2>3 DEF HostInv, Pending
<1>6. NobodyAlone' BY <1>0 DEF NobodyAlone, Partner, Pending
<1> QED BY <1>1, <1>2, <1>3, <1>4, <1>5, <1>6

LEMMA AppendStatus ==
  ASSUME TypeOK, NEW m \in StatusMessage, hstatl' = Append(hstatl, m)
  PROVE  LET n == Len(hstatl) IN
         /\ n \in Nat /\ DOMAIN hstatl = 1 .. n /\ DOMAIN (hstatl') = 1 .. n + 1
         /\ \A i \in 1 .. n : hstatl'[i] = hstatl[i]
         /\ hstatl'[n + 1] = m
         /\ hstatl' \in Seq(StatusMessage)
         /\ \A h \in HostUser : Pending(h)' <=> Pending(h) \/ h = m.h
<1> DEFINE n == Len(hstatl)
<1>1. /\ n \in Nat /\ DOMAIN hstatl = 1 .. n /\ DOMAIN (hstatl') = 1 .. n + 1
      /\ \A i \in 1 .. n : hstatl'[i] = hstatl[i]
      /\ hstatl'[n + 1] = m
      /\ hstatl' \in Seq(StatusMessage)
  BY DEF TypeOK
<1> HIDE DEF n
<1>2. ASSUME NEW h \in HostUser PROVE Pending(h)' <=> Pending(h) \/ h = m.h
  <2>1. Pending(h) => Pending(h)' BY <1>1 DEF Pending
  <2>2. h = m.h => Pending(h)' BY <1>1 DEF Pending
  <2>3. Pending(h)' => Pending(h) \/ h = m.h
    <3> SUFFICES ASSUME NEW i \in DOMAIN (hstatl'), hstatl'[i].h = h PROVE Pending(h) \/ h = m.h
      BY DEF Pending
    <3>1. i \in 1 .. n \/ i = n + 1 BY <1>1
    <3> QED BY <1>1, <3>1 DEF Pending
  <2> QED BY <2>1, <2>2, <2>3
<1> QED BY <1>1, <1>2 DEF n

LEMMA MessageFrame ==
  ASSUME TypeOK, NEW m \in StatusMessage, hstatl' = Append(hstatl, m),
         NEW i \in DOMAIN hstatl, MessageInv(i), NEW h, h = hstatl[i].h,
         hstatl[i].op = "CONNT" => Called(h)',
         \/ link'[h].st = link[h].st
         \/ m.h = h /\ link'[h].st = "none"
  PROVE  MessageInv(i)'
<1> DEFINE n == Len(hstatl)
<1>1. /\ n \in Nat /\ DOMAIN hstatl = 1 .. n /\ DOMAIN (hstatl') = 1 .. n + 1
      /\ \A j \in 1 .. n : hstatl'[j] = hstatl[j]
      /\ hstatl'[n + 1] = m
  BY AppendStatus
<1> HIDE DEF n
<1>2. i \in 1 .. n /\ hstatl'[i] = hstatl[i] /\ hstatl'[i].h = h BY <1>1
<1>3. link'[h].st = "up" => link[h].st = "up" OBVIOUS
<1>4. CASE hstatl[i].op # "CONNT" BY <1>2, <1>3, <1>4 DEF MessageInv
<1>5. CASE hstatl[i].op = "CONNT"
  <2>1. \A j \in 1 .. n : hstatl[j].h = h => j >= i BY <1>1, <1>5 DEF MessageInv
  <2>2. \A j \in 1 .. n + 1 : hstatl'[j].h = h => j >= i BY <1>1, <1>2, <2>1
  <2>3. link'[h].st = "none" => \E j \in 1 .. n + 1 : hstatl'[j].h = h /\ j # i
    <3>1. CASE link'[h].st = link[h].st BY <1>1, <1>5, <3>1 DEF MessageInv
    <3>2. CASE m.h = h BY <1>1, <1>2, <3>2
    <3> QED BY <3>1, <3>2
  <2>4. Called(h)' BY <1>5 DEF MessageInv
  <2> QED BY <1>1, <1>2, <1>5, <2>2, <2>3, <2>4 DEF MessageInv
<1> QED BY <1>4, <1>5

LEMMA NewConnect ==
  ASSUME TypeOK, NEW h \in HostUser, hstatl' = Append(hstatl, [op |-> "CONNT", h |-> h]),
         ~Pending(h), Called(h)', link'[h].st = "up", NEW k, k = Len(hstatl) + 1
  PROVE  MessageInv(k)'
<1> DEFINE n == Len(hstatl)
           m == [op |-> "CONNT", h |-> h]
<1>1. m \in StatusMessage /\ m.h = h /\ m.op = "CONNT" BY DEF StatusMessage
<1> HIDE DEF m
<1>2. /\ n \in Nat /\ DOMAIN hstatl = 1 .. n /\ DOMAIN (hstatl') = 1 .. n + 1
      /\ \A j \in 1 .. n : hstatl'[j] = hstatl[j]
      /\ hstatl'[n + 1] = m
  BY <1>1, AppendStatus DEF m
<1> HIDE DEF n
<1>3. \A j \in 1 .. n + 1 : hstatl'[j].h = h => j >= n + 1
  <2> SUFFICES ASSUME NEW j \in 1 .. n + 1, hstatl'[j].h = h, ~(j >= n + 1) PROVE FALSE
    OBVIOUS
  <2>1. j \in 1 .. n BY <1>2
  <2> QED BY <1>2, <2>1 DEF Pending
<1>4. k = n + 1 BY DEF n
<1> QED BY <1>1, <1>2, <1>3, <1>4 DEF MessageInv

LEMMA HostConnectStep == ASSUME IInv, NEW h \in HostUser, HostConnect(h) PROVE IInv'
<1> DEFINE m == [op |-> "CONNT", h |-> h]
           n == Len(hstatl)
<1> USE DEF IInv, HostConnect
<1>0. /\ m \in StatusMessage /\ m.h = h /\ m.op = "CONNT" /\ hstatl' = Append(hstatl, m) /\ h \in User
  BY DEF StatusMessage, HostStatus, User
<1> HIDE DEF m
<1>a. /\ n \in Nat /\ DOMAIN hstatl = 1 .. n /\ DOMAIN (hstatl') = 1 .. n + 1
      /\ \A i \in 1 .. n : hstatl'[i] = hstatl[i]
      /\ hstatl'[n + 1] = m
      /\ hstatl' \in Seq(StatusMessage)
      /\ \A x \in HostUser : Pending(x)' <=> Pending(x) \/ x = m.h
  BY <1>0, AppendStatus
<1>b. ptc[h] = ClearCord BY DEF HostInv
<1>c. /\ link' \in [User -> LinkEntry] /\ link'[h].st = "up"
      /\ \A v \in User : v # h => link'[v] = link[v]
  BY <1>0 DEF TypeOK, LinkEntry
<1>d. \A v : Called(v)' = Called(v) BY DEF Called
<1> HIDE DEF n
<1>1. TypeOK' BY <1>a, <1>c DEF TypeOK
<1>2. LinkInv' BY <1>c, <1>d DEF LinkInv, LinkOk
<1>3. CordInv' BY DEF CordInv, CordOk, Joined
<1>4. CqInv' BY DEF CqInv, AnswerInv
<1>5. HostInv'
  <2>1. ASSUME NEW i \in DOMAIN hstatl PROVE MessageInv(i)'
    <3>1. PICK x : x = hstatl[i].h OBVIOUS
    <3>2. x \in HostUser /\ x # h BY <3>1, StatusFields DEF Pending
    <3>3. link'[x].st = link[x].st BY <1>c, <3>2 DEF User
    <3>4. MessageInv(i) BY DEF HostInv
    <3>5. hstatl[i].op = "CONNT" => Called(x)' BY <1>d, <3>1, <3>4 DEF MessageInv
    <3> QED BY <1>0, <3>1, <3>3, <3>4, <3>5, MessageFrame
  <2>2. ASSUME NEW k, k = n + 1 PROVE MessageInv(k)'
    <3>1. Called(h) BY <1>b DEF Called, ClearCord
    <3> QED BY <1>0, <1>c, <1>d, <2>2, <3>1, NewConnect DEF n, m
  <2>3. \A i \in DOMAIN (hstatl') : MessageInv(i)' BY <1>a, <2>1, <2>2
  <2>4. \A x \in HostUser : link'[x].st = "none" /\ ~Pending(x)' => ptc'[x] = ClearCord
    BY <1>0, <1>a, <1>c DEF HostInv, User
  <2> QED BY <2>3, <2>4 DEF HostInv
<1>6. NobodyAlone'
  <2>1. \A v \in HostUser : Pending(v) => Pending(v)' BY <1>a
  <2>2. Pending(h)' BY <1>0, <1>a
  <2> QED BY <1>c, <2>1, <2>2 DEF NobodyAlone, Partner
<1> QED BY <1>1, <1>2, <1>3, <1>4, <1>5, <1>6

LEMMA HostDisconnectStep == ASSUME IInv, NEW h \in HostUser, HostDisconnect(h) PROVE IInv'
<1> DEFINE m == [op |-> "DISCF", h |-> h]
           n == Len(hstatl)
<1> USE DEF IInv, HostDisconnect
<1>0. /\ m \in StatusMessage /\ m.h = h /\ m.op = "DISCF" /\ hstatl' = Append(hstatl, m) /\ h \in User
  BY DEF StatusMessage, HostStatus, User
<1> HIDE DEF m
<1>a. /\ n \in Nat /\ DOMAIN hstatl = 1 .. n /\ DOMAIN (hstatl') = 1 .. n + 1
      /\ \A i \in 1 .. n : hstatl'[i] = hstatl[i]
      /\ hstatl'[n + 1] = m
      /\ hstatl' \in Seq(StatusMessage)
      /\ \A x \in HostUser : Pending(x)' <=> Pending(x) \/ x = m.h
  BY <1>0, AppendStatus
<1>c. /\ link' \in [User -> LinkEntry] /\ link'[h].st = "none"
      /\ \A v \in User : v # h => link'[v] = link[v]
  BY <1>0 DEF TypeOK, LinkEntry, NoLink
<1>d. \A v : Called(v)' = Called(v) BY DEF Called
<1> HIDE DEF n
<1>e. numhsts' \in Int /\ used' \in [gatewayCq : Nat, frmr : Nat, impatient : Nat, miscount : Nat, reuse : Nat]
  BY DEF TypeOK
<1>1. TypeOK' BY <1>a, <1>c, <1>e DEF TypeOK
<1>2. LinkInv' BY <1>c, <1>d DEF LinkInv, LinkOk
<1>3. CordInv' BY DEF CordInv, CordOk, Joined
<1>4. CqInv' BY DEF CqInv, AnswerInv
<1>5. HostInv'
  <2>1. ASSUME NEW i \in DOMAIN hstatl PROVE MessageInv(i)'
    <3>1. PICK x : x = hstatl[i].h OBVIOUS
    <3>2. x \in HostUser BY <3>1, StatusFields
    <3>3. x # h => link'[x].st = link[x].st BY <1>c, <3>2 DEF User
    <3>4. MessageInv(i) BY DEF HostInv
    <3>5. hstatl[i].op = "CONNT" => Called(x)' BY <1>d, <3>1, <3>4 DEF MessageInv
    <3> QED 
      <4>1. TypeOK OBVIOUS
      <4>2. link'[x].st = link[x].st \/ (m.h = x /\ link'[x].st = "none") BY <1>0, <1>c, <3>3
      <4> QED BY <1>0, <3>1, <3>4, <3>5, <4>1, <4>2, MessageFrame
  <2>2. ASSUME NEW k, k = n + 1 PROVE MessageInv(k)' BY <1>0, <1>a, <1>c, <2>2 DEF MessageInv
  <2>3. \A i \in DOMAIN (hstatl') : MessageInv(i)' BY <1>a, <2>1, <2>2
  <2>4. \A x \in HostUser : link'[x].st = "none" /\ ~Pending(x)' => ptc'[x] = ClearCord
    BY <1>0, <1>a, <1>c DEF HostInv, User
  <2> QED BY <2>3, <2>4 DEF HostInv
<1>6. NobodyAlone'
  <2>1. \A v \in HostUser : Pending(v) => Pending(v)' BY <1>a
  <2> QED BY <1>c, <2>1 DEF NobodyAlone, Partner
<1> QED BY <1>1, <1>2, <1>3, <1>4, <1>5, <1>6

(* No answer to a CQ waits, and the main loop does not hand out lines.     *)
Still ==
  /\ cq_statl = <<>> /\ cq_statl' = <<>> /\ userhd' = userhd
  /\ turn = "low" => turn' = "low"
  /\ turn # "l7rx"

(* w is the state in which an operator finds the tables: the link of u may *)
(* just have changed.                                                      *)
At(w, u) ==
  /\ w \in Worlds /\ w.ptc = ptc /\ w.cq = cq_user
  /\ \A v \in User : v # u => w.link[v] = link[v]

Core == LinkInv /\ CordInv /\ CqInv /\ NobodyAlone

(* What a step may not do to those it is not about.                        *)
Others(w, u) ==
  \A v \in User : /\ link'[v].st = w.link[v].st
                  /\ v # u /\ Called(v) => Called(v)'
                  /\ v # u /\ ptc[v] = ClearCord => ptc'[v] = ClearCord

(* The entries that a step leaves alone.                                   *)
LEMMA LinkFrame ==
  ASSUME NEW v \in User, LinkOk(v), link'[v] = link[v], ptc'[v] = ptc[v],
         v \in userhd' => v \in userhd, Called(v) => Called(v)'
  PROVE  LinkOk(v)'
BY DEF LinkOk

LEMMA CordFrame ==
  ASSUME NEW v \in User, CordOk(v), ptc'[v] = ptc[v],
         ptc[v].p # NoUid => ptc'[ptc[v].p] = ptc[ptc[v].p],
         Joined(v) => Joined(v)',
         v \in userhd' => v \in userhd,
         v \in userhd /\ turn \in {"low", "l7rx"} => turn' \in {"low", "l7rx"}
  PROVE  CordOk(v)'
BY DEF CordOk

LEMMA ConnectedStep ==
  ASSUME IInv, NEW u \in User, NEW w, At(w, u), NEW dig \in BOOLEAN, NEW ok \in BOOLEAN,
         Still, Become(Connected(w, u, dig, ok)),
         Called(u), w.link[u].st # "setup",
         w.link[u].st = "none" => u \in HostUser,
         u \in HostUser => w.link[u].st # "hth",
         w.link[u].st = "hth" => u \in L2User /\ u \notin userhd /\ ~ptc[u].recflg,
         dig \/ Hth(w, u) => u \notin HostUser /\ turn = "low",
         \A v \in HostUser \ {u} : Pending(v) => Pending(v)'
  PROVE  Core' /\ Others(w, u) /\ link' \in [User -> LinkEntry] /\ ptc' \in [User -> Cord] /\ cq_user' \in Seq(User)
<1> DEFINE x == Connected(w, u, dig, ok)
<1>0. PICK p : p = ptc[u].p OBVIOUS
<1>1. w \in Worlds /\ w.ptc = ptc /\ w.cq = cq_user /\ Symmetric(w) /\ Len(w.cq) <= 1
  BY DEF At, IInv, CordInv, CordOk, CqInv, Symmetric
<1>2. ptc[u].ublk = "no" /\ p # u /\ (p # NoUid => ptc[p].ublk = "CREQ" /\ ptc[p].p = u) /\ p \in User \cup {NoUid}
  BY <1>0 DEF IInv, TypeOK, Called, CordInv, CordOk, Cord
<1>3. ConnectedPost(w, x, u, dig, ok) BY <1>0, <1>1, <1>2, ConnectedEffect
<1>4. link' = x.link /\ ptc' = x.ptc /\ cq_user' = x.cq BY DEF Become
<1> HIDE DEF x
<1>5. x \in Worlds BY <1>3 DEF ConnectedPost, Within
<1>6. link' \in [User -> LinkEntry] /\ ptc' \in [User -> Cord] /\ cq_user' \in Seq(User)
  BY <1>4, <1>5 DEF Worlds
<1>9. w.link[u].st \in {"none", "hth", "up"} BY <1>1, LinkFields DEF Worlds
<1>7. CASE p # NoUid
  <2>1. /\ p \in User /\ link'[u] = w.link[u] /\ ptc'[u] = ptc[u] /\ ptc'[p].ublk = "no"
        /\ link'[p].disc = link[p].disc
        /\ cq_user' = Without(cq_user, p)
        /\ \A v \in User \ {u, p} : link'[v] = link[v] /\ ptc'[v] = ptc[v]
        /\ \A v \in User : /\ link'[v].st = w.link[v].st
                           /\ ptc'[v].p = ptc[v].p
                           /\ ptc'[v].local = ptc[v].local /\ ptc'[v].recflg = ptc[v].recflg
    BY <1>0, <1>1, <1>2, <1>3, <1>4, <1>7 DEF At, ConnectedPost, Within, SamePartners
  <2>2. cq_user' = cq_user
    <3>1. cq_user # <<>> => cq_user[1] # p BY <1>0, <1>1, <1>2, <1>7, ShortSequence DEF IInv, CqInv, Worlds
    <3> QED BY <2>1, <3>1 DEF Without
  <2>4. ASSUME NEW v \in User \ {u, p}, Called(v) PROVE Called(v)'
    <3>1. ptc[v].p # NoUid => ptc[v].p \in User \ {u, p}
      BY <1>0, <1>2, <1>7, <2>1 DEF IInv, TypeOK, Cord, CordInv, CordOk
    <3> QED BY <2>1, <2>4, <3>1 DEF Called
  <2>5. Others(w, u) BY <1>0, <1>2, <1>7, <2>1, <2>4, UserAssumption DEF Others, Called, ClearCord
  <2>6. LinkInv'
    <3>1. LinkOk(u)' BY <1>9, <2>1 DEF LinkOk, Still
    <3>2. LinkOk(p)'
      <4>1. link[p].st \notin {"none", "setup"} \/ (p \in HostUser /\ link[p].st = "none")
        BY <1>0, <1>2, <1>7, <2>1, UserAssumption DEF IInv, LinkInv, LinkOk, Called, ClearCord
      <4>2. link'[p].st = link[p].st /\ LinkOk(p) BY <1>2, <2>1 DEF At, IInv, LinkInv
      <4> QED BY <2>1, <4>1, <4>2 DEF LinkOk, Still
    <3>3. ASSUME NEW v \in User \ {u, p} PROVE LinkOk(v)'
      BY <2>1, <2>4, LinkFrame DEF IInv, LinkInv, Still
    <3> QED BY <3>1, <3>2, <3>3 DEF LinkInv
  <2>7. CordInv'
    <3>1. CordOk(u)' BY <1>0, <1>2, <1>7, <2>1 DEF CordOk, Still, IInv, CordInv
    <3>2. CordOk(p)' BY <1>0, <1>2, <1>7, <2>1 DEF CordOk, Still, IInv, CordInv
    <3>3. ASSUME NEW v \in User \ {u, p} PROVE CordOk(v)'
      <4>1. CordOk(v) /\ ptc[v] \in Cord BY DEF IInv, TypeOK, CordInv
      <4>2. ptc[v].p # NoUid => ptc[v].p \in User \ {u, p} BY <1>0, <1>2, <1>7, <4>1, LinkFields DEF CordOk
      <4> QED BY <2>1, <4>1, <4>2, CordFrame DEF Still, Joined
    <3> QED BY <3>1, <3>2, <3>3 DEF CordInv
  <2>8. CqInv'
    <3>1. \A i \in DOMAIN cq_user : cq_user[i] \in User \ {u, p}
      BY <1>0, <1>2, <1>7 DEF IInv, CqInv, TypeOK
    <3> QED BY <2>1, <2>2, <3>1 DEF IInv, CqInv, Still
  <2>9. NobodyAlone'
    <3> SUFFICES ASSUME NEW v \in User,
                        link'[v].st \in {"up", "hth"} /\ ~link'[v].disc
                 PROVE  ptc'[v].ublk # "no" \/ Partner(v)' # NoUid \/ (v \in HostUser /\ Pending(v)')
      BY DEF NobodyAlone
    <3>1. CASE v \in {u, p} BY <1>0, <1>2, <1>7, <2>1, <3>1, UserAssumption DEF Partner
    <3>2. CASE v \notin {u, p} BY <2>1, <3>2 DEF IInv, NobodyAlone, Partner
    <3> QED BY <3>1, <3>2
  <2> QED BY <1>6, <2>5, <2>6, <2>7, <2>8, <2>9 DEF Core
<1>8. CASE p = NoUid
  <2>1. NewUserPost(w, x, u, dig, ok) BY <1>0, <1>1, <1>2, <1>3, <1>8 DEF ConnectedPost
  <2>2. /\ cq_user' = cq_user
        /\ \A v \in User \ {u} : link'[v] = link[v] /\ ptc'[v] = ptc[v]
        /\ \A v \in User : /\ link'[v].st = w.link[v].st
                           /\ ptc'[v].p = ptc[v].p
                           /\ ptc'[v].local = ptc[v].local /\ ptc'[v].recflg = ptc[v].recflg
    BY <1>1, <1>2, <1>4, <2>1 DEF At, NewUserPost, Within, SamePartners
  <2>3. \/ ptc'[u].ublk = "CCP"
        \/ ptc'[u].ublk = "DIG" /\ u \notin HostUser /\ turn = "low"
        \/ ptc'[u].ublk = "no" /\ (link'[u].disc \/ link'[u].st = "none")
    <3>1. CASE ok /\ (dig \/ Hth(w, u)) BY <1>4, <2>1, <3>1 DEF NewUserPost
    <3>2. CASE ok /\ ~(dig \/ Hth(w, u)) BY <1>4, <2>1, <3>2 DEF NewUserPost
    <3>3. CASE ~ok BY <1>1, <1>2, <1>4, <2>1, <2>2, <3>3 DEF NewUserPost, MayDiscard
    <3> QED BY <3>1, <3>2, <3>3
  <2>4. \A v \in User \ {u} : Called(v) => Called(v)'
    <3> SUFFICES ASSUME NEW v \in User \ {u}, Called(v) PROVE Called(v)' OBVIOUS
    <3>1. ptc[v].p # NoUid => ptc[v].p \in User \ {u}
      <4>1. CordOk(v) /\ ptc[v] \in Cord BY DEF IInv, TypeOK, CordInv
      <4>2. ptc[v].p # u BY <1>0, <1>8, <4>1, UserAssumption DEF CordOk
      <4> QED BY <4>1, <4>2, LinkFields
    <3> QED BY <2>2, <3>1 DEF Called
  <2>5. Others(w, u) BY <2>2, <2>4 DEF Others
  <2>6. LinkInv'
    <3>1. LinkOk(u)'
      BY <1>9, <2>2 DEF LinkOk, Still
    <3>2. ASSUME NEW v \in User \ {u} PROVE LinkOk(v)'
      BY <2>2, <2>4, LinkFrame DEF IInv, LinkInv, Still
    <3> QED BY <3>1, <3>2 DEF LinkInv
  <2>7. CordInv'
    <3>1. CordOk(u)' BY <1>0, <1>2, <1>8, <2>2, <2>3 DEF CordOk, Still, IInv, CordInv
    <3>2. ASSUME NEW v \in User \ {u} PROVE CordOk(v)'
      <4>1. CordOk(v) /\ ptc[v] \in Cord BY DEF IInv, TypeOK, CordInv
      <4>2. ptc[v].p # u BY <1>0, <1>8, <4>1, UserAssumption DEF CordOk
      <4>3. ptc[v].p # NoUid => ptc[v].p \in User \ {u} BY <4>1, <4>2, LinkFields
      <4> QED BY <2>2, <4>1, <4>3, CordFrame DEF Still, Joined
    <3> QED BY <3>1, <3>2 DEF CordInv
  <2>8. CqInv'
    <3>1. \A i \in DOMAIN cq_user : cq_user[i] \in User \ {u}
      BY <1>2 DEF IInv, CqInv, TypeOK
    <3> QED BY <2>2, <3>1 DEF IInv, CqInv, Still
  <2>9. NobodyAlone'
    <3> SUFFICES ASSUME NEW v \in User,
                        link'[v].st \in {"up", "hth"} /\ ~link'[v].disc
                 PROVE  ptc'[v].ublk # "no" \/ Partner(v)' # NoUid \/ (v \in HostUser /\ Pending(v)')
      BY DEF NobodyAlone
    <3>1. CASE v = u BY <2>2, <2>3, <3>1
    <3>2. CASE v # u BY <2>2, <3>2 DEF IInv, NobodyAlone, Partner
    <3> QED BY <3>1, <3>2
  <2> QED BY <1>6, <2>5, <2>6, <2>7, <2>8, <2>9 DEF Core
<1> QED BY <1>7, <1>8

(* The partner p of a link that is gone has been told.                     *)
Told(p) ==
  /\ link'[p].st = link[p].st
  /\ ptc'[p].p = NoUid
  /\ ptc'[p].local = ptc[p].local /\ ptc'[p].recflg = ptc[p].recflg
  /\ \/ ptc[p].ublk = "no" /\ ptc[p].recflg /\ ptc'[p].ublk = "CCP"
     \/ /\ ptc[p].ublk = "no" \/ ptc[p].local
        /\ ptc'[p].ublk = ptc[p].ublk /\ (link'[p].disc \/ link'[p].st = "none")
     \/ ptc[p].ublk # "no" /\ ~ptc[p].local /\ ptc'[p].ublk = "CCP"

LEMMA DisconnectedStep ==
  ASSUME IInv, NEW u \in User, NEW w, At(w, u), NEW op, NEW ok \in BOOLEAN,
         Still, Become(Disconnected(w, op, u, ok)),
         w.link[u].st = "none",
         \A v \in HostUser \ {u} : Pending(v) => Pending(v)'
  PROVE  Core' /\ Others(w, u) /\ link' \in [User -> LinkEntry] /\ ptc' \in [User -> Cord] /\ cq_user' \in Seq(User)
         /\ ptc'[u] = ClearCord
<1> DEFINE x == Disconnected(w, op, u, ok)
<1>0. PICK p : p = ptc[u].p OBVIOUS
<1>1. w \in Worlds /\ w.ptc = ptc /\ w.cq = cq_user /\ Symmetric(w) /\ Len(w.cq) <= 1
  BY DEF At, IInv, CordInv, CordOk, CqInv, Symmetric
<1>2. /\ p \in User \cup {NoUid} /\ (p = u => ptc[u].ublk = "CQ")
      /\ (p # NoUid => ptc[p].p = u)
  BY <1>0 DEF IInv, TypeOK, Cord, CordInv, CordOk
<1>3. DisconnectedPost(w, x, u, ok) BY <1>0, <1>1, <1>2, DisconnectedEffect
<1>4. link' = x.link /\ ptc' = x.ptc /\ cq_user' = x.cq BY DEF Become
<1> HIDE DEF x
<1>5. x \in Worlds BY <1>3 DEF DisconnectedPost
<1>6. link' \in [User -> LinkEntry] /\ ptc' \in [User -> Cord] /\ cq_user' \in Seq(User)
  BY <1>4, <1>5 DEF Worlds
<1>7. /\ ptc'[u] = ClearCord /\ link'[u].st = "none"
      /\ \A v \in User \ {u, p} : link'[v] = link[v] /\ ptc'[v] = ptc[v]
      /\ \A v \in User : link'[v].st = w.link[v].st
      /\ cq_user' = IF ptc[u].ublk # "no" THEN Without(cq_user, u) ELSE cq_user
  BY <1>0, <1>1, <1>3, <1>4 DEF DisconnectedPost, At
<1>8. \A v \in User \ {u, p} : ptc[v].p \notin {u, p} \/ ptc[v].p = NoUid
  <2> SUFFICES ASSUME NEW v \in User \ {u, p}, ptc[v].p # NoUid PROVE ptc[v].p \notin {u, p}
    OBVIOUS
  <2>1. CordOk(v) BY DEF IInv, CordInv
  <2> QED BY <1>0, <1>2, <2>1 DEF CordOk
<1>9. \A v \in User \ {u, p} : ptc[v].p # NoUid => ptc[v].p \in User \ {u, p} /\ ptc'[ptc[v].p] = ptc[ptc[v].p]
  BY <1>7, <1>8 DEF IInv, TypeOK, Cord
<1>10. \A v \in User \ {u, p} : Called(v) => Called(v)' BY <1>7, <1>9 DEF Called
<1>11. p \notin {u, NoUid} => Told(p)
  <2> SUFFICES ASSUME p \notin {u, NoUid} PROVE Told(p) OBVIOUS
  <2>1. p \in User /\ LinkOk(p) BY <1>2 DEF IInv, LinkInv
  <2>2. /\ link'[p].st = link[p].st
        /\ ptc'[p].p = NoUid
        /\ ptc'[p].local = ptc[p].local /\ ptc'[p].recflg = ptc[p].recflg
    BY <1>0, <1>1, <1>3, <1>4, <1>7, <2>1 DEF DisconnectedPost, At
  <2>3. w.link[p] = link[p] BY <2>1 DEF At
  <2>4. \/ ptc[p].ublk = "no" /\ ptc[p].recflg /\ ptc'[p].ublk = IF Hth(w, p) THEN "DIG" ELSE "CCP"
        \/ /\ ptc[p].ublk = "no" \/ ptc[p].local
           /\ ptc'[p].ublk = ptc[p].ublk /\ (MayDiscard(w, p) => link'[p].disc)
        \/ ptc[p].ublk # "no" /\ ~ptc[p].local /\ ptc'[p].ublk = "CCP"
    BY <1>0, <1>1, <1>3, <1>4, <2>1 DEF DisconnectedPost
  <2>5. ptc[p].recflg => ~Hth(w, p) BY <2>1, <2>3 DEF LinkOk, Hth
  <2>6. MayDiscard(w, p) \/ link'[p].st = "none" BY <2>2, <2>3 DEF MayDiscard
  <2> QED BY <2>2, <2>4, <2>5, <2>6 DEF Told
<1>12. Others(w, u)
  <2>1. p \notin {u, NoUid} => (Called(p) => Called(p)') BY <1>11 DEF Told, Called
  <2>2. p \notin {u, NoUid} => ptc[p] # ClearCord BY <1>2, UserAssumption DEF ClearCord
  <2>3. p = NoUid => p \notin User BY UserAssumption
  <2> QED BY <1>7, <1>10, <2>1, <2>2, <2>3 DEF Others
<1>13. LinkInv'
  <2>1. LinkOk(u)' BY <1>7, UserAssumption DEF LinkOk
  <2>2. ASSUME NEW v \in User \ {u, p} PROVE LinkOk(v)'
    BY <1>7, <1>10, LinkFrame DEF IInv, LinkInv, Still
  <2>3. p \notin {u, NoUid} => LinkOk(p)'
    <3> SUFFICES ASSUME p \notin {u, NoUid} PROVE LinkOk(p)' OBVIOUS
    <3>1. p \in User /\ LinkOk(p) /\ Told(p) BY <1>2, <1>11 DEF IInv, LinkInv
    <3>2. ptc[p] # ClearCord BY <1>2, UserAssumption DEF ClearCord
    <3>3. Called(p) => Called(p)' BY <3>1 DEF Told, Called
    <3> QED BY <3>1, <3>2, <3>3 DEF Told, LinkOk, Still
  <2>4. p = NoUid => p \notin User BY UserAssumption
  <2> QED BY <2>1, <2>2, <2>3, <2>4 DEF LinkInv
<1>14. CordInv'
  <2>1. CordOk(u)' BY <1>7, UserAssumption DEF CordOk, ClearCord
  <2>2. ASSUME NEW v \in User \ {u, p} PROVE CordOk(v)'
    <3>1. CordOk(v) /\ (ptc[v].p # NoUid => ptc'[ptc[v].p] = ptc[ptc[v].p])
      BY <1>9 DEF IInv, CordInv
    <3> QED BY <1>7, <3>1, CordFrame DEF Still, Joined
  <2>3. p \notin {u, NoUid} => CordOk(p)'
    <3> SUFFICES ASSUME p \notin {u, NoUid} PROVE CordOk(p)' OBVIOUS
    <3>1. p \in User /\ CordOk(p) /\ Told(p) BY <1>2, <1>11 DEF IInv, CordInv
    <3> QED BY <3>1, UserAssumption DEF Told, CordOk, Still
  <2>4. p = NoUid => p \notin User BY UserAssumption
  <2> QED BY <2>1, <2>2, <2>3, <2>4 DEF CordInv
<1>15. CqInv'
  <2>1. cq_user \in Seq(User) /\ Len(cq_user) <= 1 BY DEF IInv, TypeOK, CqInv
  <2>2. \A i \in DOMAIN cq_user : ptc[cq_user[i]].ublk = "CQ" /\ ptc[cq_user[i]].p = cq_user[i]
    BY DEF IInv, CqInv
  <2>3. cq_user' = cq_user \/ cq_user' = <<>> BY <1>7 DEF Without
  <2>4. cq_user' = cq_user /\ cq_user # <<>> => DOMAIN cq_user = {1} /\ cq_user[1] # u
    BY <1>7, <2>1, <2>2, ShortSequence DEF Without
  <2>5. \A i \in DOMAIN (cq_user') : cq_user'[i] \in User \ {u, p} /\ cq_user'[i] = cq_user[i] /\ i \in DOMAIN cq_user
    <3> SUFFICES ASSUME NEW i \in DOMAIN (cq_user')
                 PROVE  cq_user'[i] \in User \ {u, p} /\ cq_user'[i] = cq_user[i] /\ i \in DOMAIN cq_user
      OBVIOUS
    <3>1. cq_user' = cq_user /\ cq_user # <<>> BY <2>3
    <3>2. i = 1 /\ cq_user[1] # u BY <2>4, <3>1
    <3>3. cq_user[1] \in User /\ ptc[cq_user[1]].p = cq_user[1] BY <2>1, <2>2, <3>1, <3>2
    <3>4. cq_user[1] # p BY <1>0, <1>2, <3>2, <3>3, UserAssumption
    <3> QED BY <3>1, <3>2, <3>3, <3>4
  <2>6. Len(cq_user') <= 1 BY <2>1, <2>3
  <2> QED BY <1>7, <2>2, <2>5, <2>6 DEF CqInv, Still
<1>16. NobodyAlone'
  <2> SUFFICES ASSUME NEW v \in User,
                      link'[v].st \in {"up", "hth"} /\ ~link'[v].disc
               PROVE  ptc'[v].ublk # "no" \/ Partner(v)' # NoUid \/ (v \in HostUser /\ Pending(v)')
    BY DEF NobodyAlone
  <2>1. CASE v = u BY <1>7, <2>1
  <2>2. CASE v = p /\ p # u BY <1>11, <2>2, UserAssumption DEF Told
  <2>3. CASE v \notin {u, p} BY <1>7, <2>3 DEF IInv, NobodyAlone, Partner
  <2> QED BY <2>1, <2>2, <2>3
<1> QED BY <1>6, <1>7, <1>12, <1>13, <1>14, <1>15, <1>16 DEF Core

LEMMA HostSame ==
  ASSUME IInv, hstatl' = hstatl,
         \A h \in HostUser : /\ link'[h].st = link[h].st
                             /\ Called(h) => Called(h)'
                             /\ ptc[h] = ClearCord => ptc'[h] = ClearCord
  PROVE  HostInv'
<1>1. ASSUME NEW i \in DOMAIN hstatl PROVE MessageInv(i)'
  <2>1. PICK h : h = hstatl[i].h OBVIOUS
  <2>2. h \in HostUser BY <2>1, StatusFields DEF IInv
  <2>3. MessageInv(i) BY DEF IInv, HostInv
  <2> QED BY <2>1, <2>2, <2>3 DEF MessageInv
<1>2. \A h \in HostUser : link'[h].st = "none" /\ ~Pending(h)' => ptc'[h] = ClearCord
  BY DEF IInv, HostInv, Pending
<1> QED BY <1>1, <1>2 DEF HostInv

LEMMA TailFacts ==
  ASSUME NEW S, NEW s \in Seq(S), s # <<>>
  PROVE  LET n == Len(s) IN
         /\ n \in Nat /\ n >= 1 /\ DOMAIN s = 1 .. n /\ Head(s) = s[1]
         /\ Tail(s) \in Seq(S) /\ DOMAIN Tail(s) = 1 .. n - 1
         /\ \A i \in 1 .. n - 1 : Tail(s)[i] = s[i + 1]
<1> DEFINE n == Len(s)
<1>1. n \in Nat /\ n # 0 /\ DOMAIN s = 1 .. n /\ Head(s) = s[1] OBVIOUS
<1>2. Tail(s) \in Seq(S) /\ Len(Tail(s)) = n - 1 OBVIOUS
<1>3. DOMAIN Tail(s) = 1 .. n - 1 BY <1>2
<1>4. \A i \in 1 .. n - 1 : Tail(s)[i] = s[i + 1] OBVIOUS
<1> HIDE DEF n
<1>5. n >= 1 BY <1>1
<1> QED BY <1>1, <1>2, <1>3, <1>4, <1>5 DEF n

LEMMA HostTail ==
  ASSUME IInv, hstatl # <<>>, hstatl' = Tail(hstatl), NEW m, m = Head(hstatl),
         \A h \in HostUser : /\ link'[h].st = link[h].st
                             /\ h # m.h /\ Called(h) => Called(h)'
                             /\ h # m.h /\ ptc[h] = ClearCord => ptc'[h] = ClearCord,
         m.op = "CONNT" \/ ptc'[m.h] = ClearCord
  PROVE  HostInv'
<1> DEFINE n == Len(hstatl)
<1>1. /\ n \in Nat /\ n >= 1 /\ DOMAIN hstatl = 1 .. n /\ m = hstatl[1]
      /\ DOMAIN (hstatl') = 1 .. n - 1
      /\ \A i \in 1 .. n - 1 : hstatl'[i] = hstatl[i + 1]
  BY TailFacts DEF IInv, TypeOK
<1> HIDE DEF n
<1>2. \A i \in 1 .. n : MessageInv(i) /\ hstatl[i].h \in HostUser BY <1>1, StatusFields DEF IInv, HostInv
<1>3. ASSUME NEW i \in 1 .. n - 1 PROVE MessageInv(i)'
  <2>1. PICK h : h = hstatl[i + 1].h OBVIOUS
  <2>2. i + 1 \in 1 .. n /\ i + 1 # 1 BY <1>1
  <2>3. MessageInv(i + 1) /\ h \in HostUser BY <1>2, <2>1, <2>2
  <2>4. CASE hstatl[i + 1].op # "CONNT" BY <1>1, <2>1, <2>3, <2>4 DEF MessageInv
  <2>5. CASE hstatl[i + 1].op = "CONNT"
    <3>1. \A j \in 1 .. n : hstatl[j].h = h => j >= i + 1 BY <1>1, <2>1, <2>3, <2>5 DEF MessageInv
    <3>2. h # m.h BY <1>1, <2>2, <3>1
    <3>3. Called(h)' BY <2>1, <2>3, <2>5, <3>2 DEF MessageInv
    <3>4. \A j \in 1 .. n - 1 : hstatl'[j].h = h => j >= i
      <4> SUFFICES ASSUME NEW j \in 1 .. n - 1, hstatl'[j].h = h PROVE j >= i OBVIOUS
      <4>1. j + 1 \in 1 .. n /\ hstatl[j + 1].h = h BY <1>1
      <4>2. j + 1 >= i + 1 BY <3>1, <4>1
      <4> QED BY <4>2
    <3>5. link'[h].st = "none" => \E j \in 1 .. n - 1 : hstatl'[j].h = h /\ j # i
      <4> SUFFICES ASSUME link[h].st = "none" PROVE \E j \in 1 .. n - 1 : hstatl'[j].h = h /\ j # i
        BY <2>3
      <4>1. PICK j \in 1 .. n : hstatl[j].h = h /\ j # i + 1 BY <1>1, <2>1, <2>3, <2>5 DEF MessageInv
      <4>2. j # 1 BY <1>1, <3>2, <4>1
      <4>3. j - 1 \in 1 .. n - 1 /\ j - 1 # i /\ (j - 1) + 1 = j BY <1>1, <4>1, <4>2
      <4>4. hstatl'[j - 1] = hstatl[j] BY <1>1, <4>3
      <4> QED BY <4>1, <4>3, <4>4
    <3>6. hstatl'[i].h = h BY <1>1, <2>1
    <3>7. hstatl'[i].op = "CONNT" BY <1>1, <2>5
    <3> QED BY <1>1, <3>3, <3>4, <3>5, <3>6, <3>7 DEF MessageInv
  <2> QED BY <2>4, <2>5
<1>4. ASSUME NEW h \in HostUser, link'[h].st = "none", ~Pending(h)' PROVE ptc'[h] = ClearCord
  <2>1. CASE h # m.h
    <3>1. ~Pending(h)
      <4> SUFFICES ASSUME NEW j \in 1 .. n, hstatl[j].h = h PROVE Pending(h)' BY <1>1, <1>4 DEF Pending
      <4>1. j # 1 BY <1>1, <2>1
      <4>2. j - 1 \in 1 .. n - 1 /\ (j - 1) + 1 = j BY <1>1, <4>1
      <4>3. hstatl'[j - 1] = hstatl[j] BY <1>1, <4>2
      <4> QED BY <1>1, <4>2, <4>3 DEF Pending
    <3> QED BY <1>4, <2>1, <3>1 DEF IInv, HostInv
  <2>2. CASE h = m.h /\ m.op = "CONNT"
    <3>1. MessageInv(1) BY <1>1, <1>2
    <3>2. PICK j \in 1 .. n : hstatl[j].h = h /\ j # 1 BY <1>1, <1>4, <2>2, <3>1 DEF MessageInv
    <3>3. j - 1 \in 1 .. n - 1 /\ (j - 1) + 1 = j BY <1>1, <3>2
    <3>4. hstatl'[j - 1] = hstatl[j] BY <1>1, <3>3
    <3> QED BY <1>1, <1>4, <3>2, <3>3, <3>4 DEF Pending
  <2> QED BY <2>1, <2>2
<1> QED BY <1>1, <1>3, <1>4 DEF HostInv

-----------------------------------------------------------------------------
LEMMA StillLow ==
  ASSUME IInv, turn \notin {"l7rx", "timsrv"}, UNCHANGED <<cq_statl, userhd, turn>>
  PROVE  Still
BY DEF IInv, CqInv, Still

LEMMA LowerStep ==
  ASSUME IInv, NEW u \in User, u \notin HostUser, NEW w, At(w, u), Core' /\ Others(w, u),
         link' \in [User -> LinkEntry] /\ ptc' \in [User -> Cord] /\ cq_user' \in Seq(User),
         UNCHANGED <<hstatl, numhsts, cq_statl, userhd, turn, used>>
  PROVE  IInv'
<1>1. TypeOK' BY DEF IInv, TypeOK
<1>2. HostInv'
  <2>1. \A h \in HostUser : /\ h # u /\ h \in User BY DEF User
  <2> QED BY <2>1, HostSame DEF Others, At
<1> QED BY <1>1, <1>2 DEF Core, IInv

LEMMA IncomingStep ==
  ASSUME IInv, NEW u \in User, NEW hth \in BOOLEAN, NEW dig \in BOOLEAN, NEW ok \in BOOLEAN,
         Incoming(u, hth, dig, ok)
  PROVE  IInv'
<1> DEFINE w == [World EXCEPT !.link[u] = [NoLink EXCEPT !.st = IF hth THEN "hth" ELSE "up"]]
<1>1. /\ turn = "low" /\ u \in L2User \cup L4User /\ ~L2Done(u) /\ link[u].st = "none"
      /\ (hth => u \in L2User) /\ (dig => u \in L4User)
      /\ Become(Connected(w, u, dig, ok))
      /\ UNCHANGED <<hstatl, numhsts, cq_statl, userhd, turn, used>>
  BY DEF Incoming
<1>2. w.link[u].st = (IF hth THEN "hth" ELSE "up") /\ At(w, u)
  BY DEF At, IInv, TypeOK, World, Worlds, NoLink, LinkEntry
<1> HIDE DEF w
<1>3. u \notin HostUser BY <1>1, UserAssumption
<1>4. Still BY <1>1, StillLow
<1>5. ptc[u] = ClearCord BY <1>1, <1>3 DEF IInv, LinkInv, LinkOk
<1>6. Called(u) /\ ~ptc[u].recflg BY <1>5 DEF Called, ClearCord
<1>7. Core' /\ Others(w, u) /\ link' \in [User -> LinkEntry] /\ ptc' \in [User -> Cord] /\ cq_user' \in Seq(User)
  <2>1. w.link[u].st \notin {"setup", "none"} /\ (w.link[u].st = "hth" => u \in L2User /\ u \notin userhd /\ ~ptc[u].recflg)
    BY <1>1, <1>2, <1>6 DEF L2Done
  <2>2. \A v \in HostUser \ {u} : Pending(v) => Pending(v)' BY <1>1 DEF Pending
  <2> QED BY <1>1, <1>2, <1>3, <1>4, <1>6, <2>1, <2>2, ConnectedStep
<1> QED BY <1>1, <1>2, <1>3, <1>7, LowerStep

LEMMA EstablishedStep ==
  ASSUME IInv, NEW u \in User, NEW ok \in BOOLEAN, Established(u, ok)
  PROVE  IInv'
<1> DEFINE w == [World EXCEPT !.link[u].st = "up"]
<1>1. /\ turn = "low" /\ u \in L2User \cup L4User /\ link[u].st = "setup"
      /\ Become(Connected(w, u, FALSE, ok))
      /\ UNCHANGED <<hstatl, numhsts, cq_statl, userhd, turn, used>>
  BY DEF Established
<1>2. w.link[u].st = "up" /\ At(w, u)
  <2> DEFINE l == [link EXCEPT ![u].st = "up"]
  <2>1. l \in [User -> LinkEntry] /\ l[u].st = "up" /\ \A v \in User : v # u => l[v] = link[v]
    BY DEF IInv, TypeOK, LinkEntry
  <2>2. w = [link |-> l, ptc |-> ptc, cq |-> cq_user] BY DEF World
  <2> HIDE DEF l, w
  <2> QED BY <2>1, <2>2 DEF At, Worlds, IInv, TypeOK
<1> HIDE DEF w
<1>3. u \notin HostUser BY <1>1, UserAssumption
<1>4. Still BY <1>1, StillLow
<1>5. Called(u) BY <1>1, <1>3 DEF IInv, LinkInv, LinkOk
<1>6. Core' /\ Others(w, u) /\ link' \in [User -> LinkEntry] /\ ptc' \in [User -> Cord] /\ cq_user' \in Seq(User)
  <2>1. \A v \in HostUser \ {u} : Pending(v) => Pending(v)' BY <1>1 DEF Pending
  <2>2. w.link[u].st \notin {"setup", "none", "hth"} /\ ~(FALSE \/ Hth(w, u)) BY <1>2 DEF Hth
  <2> QED BY <1>1, <1>2, <1>3, <1>4, <1>5, <2>1, <2>2, ConnectedStep
<1> QED BY <1>1, <1>2, <1>3, <1>6, LowerStep

LEMMA HostMessageStep ==
  ASSUME IInv, NEW ok \in BOOLEAN, HostMessage(ok)
  PROVE  IInv'
<1>0. PICK m : m = Head(hstatl) OBVIOUS
<1>1. PICK u : u = m.h OBVIOUS
<1>2. /\ turn = "timsrv" /\ cq_statl = <<>> /\ hstatl # <<>>
      /\ Become(IF m.op = "CONNT" THEN Connected(World, u, FALSE, ok)
                ELSE Disconnected(World, m.op, u, ok))
      /\ hstatl' = Tail(hstatl) /\ turn' \in {"timsrv", "host"}
      /\ UNCHANGED <<numhsts, cq_statl, userhd, used>>
  BY <1>0, <1>1 DEF HostMessage
<1>3. 1 \in DOMAIN hstatl /\ m = hstatl[1] /\ hstatl' \in Seq(StatusMessage)
  BY <1>0, <1>2, TailFacts DEF IInv, TypeOK
<1>4. u \in HostUser /\ u \in User /\ MessageInv(1) /\ m.op \in {"CONNT", "DISCF", "BUSYF"}
  BY <1>1, <1>3, StatusFields DEF IInv, HostInv, User
<1>5. u \notin L2User \cup L4User /\ link[u].st \in {"none", "up"}
  BY <1>4, UserAssumption DEF IInv, LinkInv, LinkOk
<1>6. At(World, u) BY DEF At, World, Worlds, IInv, TypeOK
<1>7. Still BY <1>2 DEF Still
<1>8. \A v \in HostUser \ {u} : Pending(v) => Pending(v)'
  <2> SUFFICES ASSUME NEW v \in HostUser \ {u}, NEW j \in DOMAIN hstatl, hstatl[j].h = v PROVE Pending(v)'
    BY DEF Pending
  <2> DEFINE n == Len(hstatl)
  <2>1. /\ n \in Nat /\ n >= 1 /\ DOMAIN hstatl = 1 .. n
        /\ DOMAIN (hstatl') = 1 .. n - 1
        /\ \A i \in 1 .. n - 1 : hstatl'[i] = hstatl[i + 1]
    BY <1>2, TailFacts DEF IInv, TypeOK
  <2> HIDE DEF n
  <2>2. j # 1 BY <1>1, <1>3
  <2>3. j - 1 \in 1 .. n - 1 /\ (j - 1) + 1 = j BY <2>1, <2>2
  <2>4. hstatl'[j - 1] = hstatl[j] BY <2>1, <2>3
  <2> QED BY <2>1, <2>3, <2>4 DEF Pending
<1>9. /\ Core' /\ Others(World, u)
      /\ link' \in [User -> LinkEntry] /\ ptc' \in [User -> Cord] /\ cq_user' \in Seq(User)
      /\ m.op = "CONNT" \/ ptc'[u] = ClearCord
  <2>1. World.link[u] = link[u] BY DEF World
  <2>2. ~(FALSE \/ Hth(World, u)) BY <1>5 DEF Hth
  <2>3. CASE m.op = "CONNT"
    <3>1. Called(u) BY <1>1, <1>3, <1>4, <2>3 DEF MessageInv
    <3>2. Become(Connected(World, u, FALSE, ok)) BY <1>2, <2>3
    <3> QED BY <1>4, <1>5, <1>6, <1>7, <1>8, <2>1, <2>2, <2>3, <3>1, <3>2, ConnectedStep
  <2>4. CASE m.op # "CONNT"
    <3>1. World.link[u].st = "none" BY <1>1, <1>3, <1>4, <1>5, <2>1, <2>4 DEF MessageInv
    <3>2. Become(Disconnected(World, m.op, u, ok)) BY <1>2, <2>4
    <3> QED BY <1>4, <1>6, <1>7, <1>8, <2>4, <3>1, <3>2, DisconnectedStep
  <2> QED BY <2>3, <2>4
<1>10. TypeOK' BY <1>2, <1>3, <1>9 DEF IInv, TypeOK
<1>11. HostInv'
  <2>1. \A h \in HostUser : h \in User BY DEF User
  <2> QED BY <1>0, <1>1, <1>2, <1>9, <2>1, HostTail DEF Others, World
<1> QED BY <1>9, <1>10, <1>11 DEF Core, IInv

LEMMA DownStep ==
  ASSUME IInv, NEW u \in User, NEW op \in {"DISCF", "BUSYF", "FAILW"}, NEW ok \in BOOLEAN, Down(u, op, ok)
  PROVE  IInv'
<1> DEFINE w == [World EXCEPT !.link[u] = NoLink]
<1>1. /\ LowTurn(u) /\ u \in L2User \cup L4User /\ link[u].st # "none"
      /\ Become(IF u \in L2User /\ link[u].st = "setup" /\ op = "DISCF"
                THEN w ELSE Disconnected(w, op, u, ok))
      /\ op = "DISCF" => link[u].st # "setup" \/ link[u].disc
      /\ UNCHANGED <<hstatl, numhsts, cq_statl, userhd, turn, used>>
  BY DEF Down
<1>2. w.link[u].st = "none" /\ At(w, u)
  BY LinkFields DEF At, IInv, TypeOK, World, Worlds, NoLink
<1> HIDE DEF w
<1>3. u \notin HostUser BY <1>1, UserAssumption
<1>4. Still BY <1>1, StillLow DEF LowTurn
<1>5. CASE u \in L2User /\ link[u].st = "setup" /\ op = "DISCF"
  <2>1. Become(w) BY <1>1, <1>5
  <2>2. /\ link' = w.link /\ ptc' = ptc /\ cq_user' = cq_user /\ link'[u].st = "none"
        /\ \A v \in User : v # u => link'[v] = link[v]
        /\ link' \in [User -> LinkEntry] /\ ptc' \in [User -> Cord] /\ cq_user' \in Seq(User)
    BY <1>2, <2>1, BecomeType DEF At
  <2>3. ptc[u] = ClearCord
    <3>1. LinkOk(u) /\ ptc[u] \in Cord /\ link[u].disc BY <1>1, <1>5 DEF IInv, TypeOK, LinkInv
    <3>2. Called(u) /\ ptc[u].p = NoUid BY <1>5, <3>1 DEF LinkOk
    <3> QED BY <3>1, <3>2 DEF Called, Cord, ClearCord
  <2>4. \A v : Called(v) => Called(v)' BY <2>2 DEF Called
  <2>5. LinkInv'
    <3>1. LinkOk(u)' BY <2>2, <2>3, <1>3 DEF LinkOk
    <3>2. ASSUME NEW v \in User \ {u} PROVE LinkOk(v)'
      BY <1>4, <2>2, <2>4, LinkFrame DEF IInv, LinkInv, Still
    <3> QED BY <3>1, <3>2 DEF LinkInv
  <2>6. CordInv'
    <3> SUFFICES ASSUME NEW v \in User PROVE CordOk(v)' BY DEF CordInv
    <3>1. CordOk(v) BY DEF IInv, CordInv
    <3> QED BY <1>1, <1>4, <2>2, <3>1, CordFrame DEF Still, Joined
  <2>7. CqInv' BY <1>4, <2>2 DEF IInv, CqInv, Still
  <2>8. NobodyAlone' BY <1>1, <2>2 DEF IInv, NobodyAlone, Partner, Pending
  <2>9. Others(w, u) BY <2>2, <2>4 DEF Others
  <2> QED BY <1>1, <1>2, <1>3, <2>2, <2>5, <2>6, <2>7, <2>8, <2>9, LowerStep DEF Core
<1>6. CASE ~(u \in L2User /\ link[u].st = "setup" /\ op = "DISCF")
  <2>1. Become(Disconnected(w, op, u, ok)) BY <1>1, <1>6
  <2>2. \A v \in HostUser \ {u} : Pending(v) => Pending(v)' BY <1>1 DEF Pending
  <2>3. Core' /\ Others(w, u) /\ link' \in [User -> LinkEntry] /\ ptc' \in [User -> Cord] /\ cq_user' \in Seq(User)
    BY <1>2, <1>4, <2>1, <2>2, DisconnectedStep
  <2> QED BY <1>1, <1>2, <1>3, <2>3, LowerStep
<1> QED BY <1>5, <1>6

-----------------------------------------------------------------------------
(* Somebody who is connected and not about to go is served.                *)
ServedOk(u) ==
  link[u].st \in {"up", "hth"} /\ ~link[u].disc =>
    ptc[u].ublk # "no" \/ Partner(u) # NoUid \/ (u \in HostUser /\ Pending(u))

LEMMA ServedAll == NobodyAlone <=> \A u \in User : ServedOk(u)
BY DEF NobodyAlone, ServedOk

(* w is the state in which a command of u starts: u has no partner, and p, *)
(* the partner of a call that he has given up, is to be disconnected.      *)
Ready(w, u, p) ==
  /\ w \in Worlds /\ turn \in {"l7rx", "l7tx"}
  /\ p \in (User \ {u}) \cup {NoUid}
  /\ w.link[u] = link[u] /\ w.ptc[u].p = NoUid
  /\ w.ptc[u].ublk \in {"CCP", "DIG"} /\ ptc[u].ublk # "no"
  /\ w.ptc[u].ublk = "DIG" => u \notin HostUser /\ (turn = "l7rx" \/ u \notin userhd)
  /\ u \in userhd => ~w.ptc[u].local
  /\ link[u].st = "hth" => u \in L2User /\ u \notin userhd
  /\ p # NoUid => /\ ptc[p].ublk = "no" /\ ptc[p].p = u
                  /\ w.ptc[p].p = NoUid /\ w.ptc[p].ublk = "no"
                  /\ w.ptc[p].local = ptc[p].local /\ w.ptc[p].recflg = ptc[p].recflg
                  /\ w.link[p].st = link[p].st
                  /\ w.link[p].disc \/ link[p].st = "none"
  /\ \A x \in User \ {u, p} : /\ w.link[x] = link[x] /\ w.ptc[x] = ptc[x]
                              /\ ptc[x].p \in (User \ {u, p}) \cup {NoUid}
  /\ Len(w.cq) <= 1
  /\ \A i \in DOMAIN w.cq : /\ w.cq[i] \in User \ {u, p}
                            /\ ptc[w.cq[i]].ublk = "CQ" /\ ptc[w.cq[i]].p = w.cq[i]
  /\ \A i \in DOMAIN cq_statl : {cq_statl[i][1], cq_statl[i][2]} \subseteq User \ {u, p}

(* A command of u, who may call v, goes on from w; v is NoUid if he does   *)
(* not.                                                                    *)
Command(w, u, v) ==
  /\ \A x \in User \ {u, v} : link'[x] = w.link[x] /\ ptc'[x] = w.ptc[x]
  /\ userhd' \subseteq userhd /\ turn' = turn
  /\ \A x \in User : Joined(x) => Joined(x)'
  /\ \A x \in HostUser : Pending(x) => Pending(x)'

(* Everybody else is as he should be.                                      *)
Rest(u, v) ==
  \A x \in User \ {u, v} :
    /\ LinkOk(x)' /\ CordOk(x)' /\ ServedOk(x)'
    /\ Called(x) => Called(x)'
    /\ ptc[x] = ClearCord => ptc'[x] = ClearCord
    /\ link'[x].st = link[x].st

LEMMA RestStep ==
  ASSUME IInv, NEW w, NEW u \in User, NEW p, Ready(w, u, p),
         NEW v, v \notin User \/ (v \notin {u, p} /\ ptc[v].p \in {NoUid, v}),
         Command(w, u, v)
  PROVE  Rest(u, v)
<1> USE DEF Command
<1>1. NoUid \notin User BY UserAssumption
<1>2. ASSUME NEW x \in User \ {u, v}, x # p
      PROVE  /\ LinkOk(x)' /\ CordOk(x)' /\ ServedOk(x)'
             /\ Called(x) => Called(x)'
             /\ ptc[x] = ClearCord => ptc'[x] = ClearCord
             /\ link'[x].st = link[x].st
  <2>1. link'[x] = link[x] /\ ptc'[x] = ptc[x] BY <1>2 DEF Ready
  <2>2. LinkOk(x) /\ CordOk(x) /\ ServedOk(x) /\ ptc[x] \in Cord
    BY ServedAll DEF IInv, TypeOK, LinkInv, CordInv
  <2>3. ptc[x].p # NoUid => ptc[x].p \in User \ {u, p} BY <1>2 DEF Ready
  <2>4. ptc[x].p # NoUid => ptc[x].p # v
    <3> SUFFICES ASSUME ptc[x].p = v, v \in User PROVE FALSE BY <1>1, <2>3
    <3>1. ptc[v].p = x BY <1>1, <2>2 DEF CordOk
    <3> QED BY <1>1, <3>1
  <2>5. ptc[x].p # NoUid => ptc'[ptc[x].p] = ptc[ptc[x].p] BY <2>3, <2>4 DEF Ready
  <2>6. Called(x) => Called(x)' BY <2>1, <2>5 DEF Called
  <2>7. LinkOk(x)' BY <2>1, <2>2, <2>6, LinkFrame
  <2>8. CordOk(x)' BY <2>1, <2>2, <2>5, CordFrame
  <2>9. ServedOk(x)' BY <2>1, <2>2 DEF ServedOk, Partner
  <2> QED BY <2>1, <2>6, <2>7, <2>8, <2>9
<1>3. ASSUME p \in User, p # v
      PROVE  /\ LinkOk(p)' /\ CordOk(p)' /\ ServedOk(p)'
             /\ Called(p) => Called(p)'
             /\ ptc[p] # ClearCord
             /\ link'[p].st = link[p].st
  <2>1. p # u /\ p # NoUid BY <1>1, <1>3 DEF Ready
  <2>2. link'[p] = w.link[p] /\ ptc'[p] = w.ptc[p] BY <1>3, <2>1
  <2>3. /\ ptc[p].ublk = "no" /\ ptc[p].p = u
        /\ ptc'[p].p = NoUid /\ ptc'[p].ublk = "no"
        /\ ptc'[p].local = ptc[p].local /\ ptc'[p].recflg = ptc[p].recflg
        /\ link'[p].st = link[p].st
        /\ link'[p].disc \/ link'[p].st = "none"
    BY <2>1, <2>2 DEF Ready
  <2>4. LinkOk(p) /\ CordOk(p) BY <1>3 DEF IInv, LinkInv, CordInv
  <2>5. ptc[p] # ClearCord BY <1>1, <2>3 DEF ClearCord
  <2>6. Called(p) => Called(p)' BY <2>3 DEF Called
  <2>7. LinkOk(p)' BY <2>3, <2>4, <2>5, <2>6 DEF LinkOk
  <2>8. CordOk(p)' BY <1>1, <1>3, <2>3, <2>4 DEF CordOk
  <2>9. ServedOk(p)' BY <2>3 DEF ServedOk
  <2> QED BY <2>3, <2>5, <2>6, <2>7, <2>8, <2>9
<1> QED BY <1>2, <1>3 DEF Rest

(* The answered CQs stay in order.                                         *)
Answers ==
  /\ cq_statl' # <<>> => turn' \in {"l7rx", "timsrv"}
  /\ \A i \in DOMAIN (cq_statl') : AnswerInv(i)'
  /\ \A x \in User : Joined(x) => Joined(x)'

(* Nobody who has answered or was answered is touched.                     *)
Apart(u, p, v) ==
  /\ \A i \in DOMAIN cq_statl : v \notin {cq_statl[i][1], cq_statl[i][2]}
  /\ \A x \in User \ {u, p, v} : ptc'[x] = ptc[x]

LEMMA SameAnswers ==
  ASSUME IInv, NEW w, NEW u \in User, NEW p, Ready(w, u, p),
         NEW v, Apart(u, p, v),
         userhd' \subseteq userhd, cq_statl' = cq_statl, turn' = turn
  PROVE  Answers
<1>1. ASSUME NEW i \in DOMAIN cq_statl PROVE AnswerInv(i)'
  <2>1. AnswerInv(i) BY DEF IInv, CqInv
  <2>2. cq_statl[i][1] \in User \ {u, p, v} /\ cq_statl[i][2] \in User \ {u, p, v} BY DEF Ready, Apart
  <2>3. ptc'[cq_statl[i][1]] = ptc[cq_statl[i][1]] /\ ptc'[cq_statl[i][2]] = ptc[cq_statl[i][2]] BY <2>2 DEF Apart
  <2> QED BY <2>1, <2>3 DEF AnswerInv
<1> QED BY <1>1 DEF IInv, CqInv, Joined, Answers

(* A command that leaves u at the prompt, or u is to be disconnected.      *)
LEMMA PromptStep ==
  ASSUME IInv, NEW w, NEW u \in User, NEW p, Ready(w, u, p), NEW x, Become(x), x \in Worlds,
         \A v \in User \ {u} : x.link[v] = w.link[v] /\ x.ptc[v] = w.ptc[v],
         x.link[u].st = link[u].st, x.cq = w.cq,
         x.ptc[u].p = NoUid, x.ptc[u].ublk \in {"CCP", w.ptc[u].ublk}, x.ptc[u].local = w.ptc[u].local,
         link[u].st = "hth" => ~x.ptc[u].recflg,
         userhd' \subseteq userhd, turn' = turn, cq_statl' = cq_statl,
         \A h \in HostUser : Pending(h) => Pending(h)'
  PROVE  Core' /\ Others(w, u) /\ link' \in [User -> LinkEntry] /\ ptc' \in [User -> Cord] /\ cq_user' \in Seq(User)
         /\ ~Called(u) /\ ptc[u] # ClearCord
<1>1. /\ link' = x.link /\ ptc' = x.ptc /\ cq_user' = w.cq
      /\ link' \in [User -> LinkEntry] /\ ptc' \in [User -> Cord] /\ cq_user' \in Seq(User)
  BY BecomeType
<1>2. NoUid \notin User BY UserAssumption
<1>3. Answers
  <2>1. \A v \in User \ {u, p, NoUid} : ptc'[v] = ptc[v] BY <1>1 DEF Ready
  <2>2. \A i \in DOMAIN cq_statl : NoUid \notin {cq_statl[i][1], cq_statl[i][2]} BY <1>2 DEF Ready
  <2> QED BY <2>1, <2>2, SameAnswers DEF Apart
<1>4. Rest(u, NoUid)
  <2>1. Command(w, u, NoUid) BY <1>1, <1>3 DEF Command, Answers
  <2> QED BY <1>2, <2>1, RestStep
<1>5. LinkOk(u) /\ CordOk(u) /\ ptc[u].ublk # "no" BY DEF IInv, LinkInv, CordInv, Ready
<1>6. ~Called(u) /\ ptc[u] # ClearCord /\ link[u].st # "setup" /\ (link[u].st = "none" => u \in HostUser)
  BY <1>5 DEF Called, ClearCord, LinkOk
<1>7. LinkOk(u)' BY <1>1, <1>5, <1>6 DEF LinkOk, Ready
<1>8. CordOk(u)' BY <1>1, <1>2 DEF CordOk, Ready
<1>9. ServedOk(u)' BY <1>1 DEF ServedOk, Ready
<1>10. CqInv'
  <2>1. \A i \in DOMAIN w.cq : /\ w.cq[i] \in User \ {u, p}
                               /\ ptc'[w.cq[i]].ublk = "CQ" /\ ptc'[w.cq[i]].p = w.cq[i]
    BY <1>1 DEF Ready
  <2> QED BY <1>1, <1>3, <2>1 DEF CqInv, Ready, Answers
<1>11. LinkInv' /\ CordInv' /\ NobodyAlone' BY <1>2, <1>4, <1>7, <1>8, <1>9 DEF Rest, LinkInv, CordInv, NobodyAlone, ServedOk
<1>12. Others(w, u) BY <1>1, <1>2, <1>4 DEF Rest, Others, Ready
<1> QED BY <1>1, <1>6, <1>10, <1>11, <1>12 DEF Core

LEMMA ReadyUser ==
  ASSUME IInv, NEW w, NEW u \in User, NEW p, Ready(w, u, p)
  PROVE  ~Called(u) /\ ptc[u] # ClearCord /\ link[u].st # "setup" /\ (link[u].st = "none" => u \in HostUser)
<1>1. LinkOk(u) /\ ptc[u].ublk # "no" BY DEF IInv, LinkInv, Ready
<1> QED BY <1>1 DEF Called, ClearCord, LinkOk

(* A call: v, who had no user block and no partner, is set up for u.       *)
CallOf(w, u, p, x, v) ==
  /\ v \in User \ {u, p} /\ ptc[v] = ClearCord
  /\ x \in Worlds /\ x.cq = w.cq
  /\ \A y \in User \ {u, v} : x.link[y] = w.link[y] /\ x.ptc[y] = w.ptc[y]
  /\ x.link[u] = w.link[u]
  /\ x.ptc[u].p = v /\ x.ptc[u].ublk = "CREQ" /\ x.ptc[u].local = w.ptc[u].local
  /\ link[u].st = "hth" => ~x.ptc[u].recflg
  /\ x.ptc[v].p = u /\ x.ptc[v].ublk = "no" /\ ~x.ptc[v].local /\ ~x.ptc[v].recflg
  /\ IF v \in HostUser THEN x.link[v].st = "up" /\ Pending(v)'
     ELSE x.link[v].st = "setup" /\ ~x.link[v].disc

LEMMA CallStep ==
  ASSUME IInv, NEW w, NEW u \in User, NEW p, Ready(w, u, p), NEW x, NEW v, CallOf(w, u, p, x, v), Become(x),
         userhd' \subseteq userhd, turn' = turn, cq_statl' = cq_statl,
         \A h \in HostUser : Pending(h) => Pending(h)'
  PROVE  /\ Core' /\ Rest(u, v) /\ Called(v)' /\ link'[u].st = link[u].st
         /\ link' \in [User -> LinkEntry] /\ ptc' \in [User -> Cord] /\ cq_user' \in Seq(User)
<1>1. /\ link' = x.link /\ ptc' = x.ptc /\ cq_user' = w.cq
      /\ link' \in [User -> LinkEntry] /\ ptc' \in [User -> Cord] /\ cq_user' \in Seq(User)
  BY BecomeType DEF CallOf
<1>2. NoUid \notin User BY UserAssumption
<1>3. v \in User /\ v # u /\ v # p /\ ptc[v].p = NoUid /\ ptc[v].ublk = "no" BY DEF CallOf, ClearCord
<1>4. Answers
  <2>1. ASSUME NEW i \in DOMAIN cq_statl PROVE v \notin {cq_statl[i][1], cq_statl[i][2]}
    <3>1. AnswerInv(i) BY DEF IInv, CqInv
    <3> QED BY <1>3, <3>1 DEF AnswerInv
  <2>2. \A y \in User \ {u, p, v} : ptc'[y] = ptc[y] BY <1>1 DEF Ready, CallOf
  <2> QED BY <2>1, <2>2, SameAnswers DEF Apart
<1>5. Rest(u, v)
  <2>1. Command(w, u, v) BY <1>1, <1>4 DEF Command, Answers, CallOf
  <2> QED BY <1>3, <2>1, RestStep
<1>6. ~Called(u) /\ ptc[u] # ClearCord /\ link[u].st # "setup" /\ (link[u].st = "none" => u \in HostUser)
  BY ReadyUser
<1>7. LinkOk(u) /\ CordOk(v) BY <1>3 DEF IInv, LinkInv, CordInv
<1>8. link'[u] = link[u] BY <1>1 DEF CallOf, Ready
<1>9. Called(v)' BY <1>1 DEF Called, CallOf
<1>10. LinkOk(u)' BY <1>1, <1>6, <1>7, <1>8 DEF LinkOk, Ready, CallOf
<1>11. LinkOk(v)' BY <1>1, <1>9 DEF LinkOk, CallOf
<1>12. CordOk(u)' BY <1>1, <1>2, <1>3 DEF CordOk, Ready, CallOf
<1>13. CordOk(v)' BY <1>1, <1>2, <1>3 DEF CordOk, Ready, CallOf
<1>14. ServedOk(u)' /\ ServedOk(v)' BY <1>1, <1>2, <1>3 DEF ServedOk, CallOf
<1>15. CqInv'
  <2>1. \A i \in DOMAIN w.cq : /\ w.cq[i] \in User \ {u, p, v}
                               /\ ptc'[w.cq[i]].ublk = "CQ" /\ ptc'[w.cq[i]].p = w.cq[i]
    BY <1>1, <1>3 DEF Ready, CallOf
  <2> QED BY <1>1, <1>4, <2>1 DEF CqInv, Ready, Answers
<1>16. LinkInv' /\ CordInv' /\ NobodyAlone'
  BY <1>5, <1>10, <1>11, <1>12, <1>13, <1>14 DEF Rest, LinkInv, CordInv, NobodyAlone, ServedOk
<1> QED BY <1>1, <1>5, <1>8, <1>9, <1>15, <1>16 DEF Core

(* u calls CQ.                                                             *)
CqCallOf(w, u, x) ==
  /\ x \in Worlds
  /\ \A v \in User \ {u} : x.link[v] = w.link[v] /\ x.ptc[v] = w.ptc[v]
  /\ x.link[u] = w.link[u] /\ w.cq = <<>> /\ x.cq = <<u>>
  /\ x.ptc[u].p = u /\ x.ptc[u].ublk = "CQ" /\ x.ptc[u].local = w.ptc[u].local

LEMMA CallCqStep ==
  ASSUME IInv, NEW w, NEW u \in User, NEW p, Ready(w, u, p), NEW x, Become(x), CqCallOf(w, u, x),
         link[u].st # "hth",
         userhd' \subseteq userhd, turn' = turn, cq_statl' = cq_statl,
         \A h \in HostUser : Pending(h) => Pending(h)'
  PROVE  /\ Core' /\ Rest(u, NoUid) /\ link'[u].st = link[u].st
         /\ link' \in [User -> LinkEntry] /\ ptc' \in [User -> Cord] /\ cq_user' \in Seq(User)
<1>1. /\ link' = x.link /\ ptc' = x.ptc /\ cq_user' = <<u>>
      /\ link' \in [User -> LinkEntry] /\ ptc' \in [User -> Cord] /\ cq_user' \in Seq(User)
  BY BecomeType DEF CqCallOf
<1>2. NoUid \notin User BY UserAssumption
<1>3. Answers
  <2>1. \A v \in User \ {u, p, NoUid} : ptc'[v] = ptc[v] BY <1>1 DEF Ready, CqCallOf
  <2>2. \A i \in DOMAIN cq_statl : NoUid \notin {cq_statl[i][1], cq_statl[i][2]} BY <1>2 DEF Ready
  <2>3. Apart(u, p, NoUid) BY <2>1, <2>2 DEF Apart
  <2> QED BY <2>3, SameAnswers
<1>4. Rest(u, NoUid)
  <2>1. Command(w, u, NoUid) BY <1>1, <1>3 DEF Command, Answers, CqCallOf
  <2> QED BY <1>2, <2>1, RestStep
<1>5. ~Called(u) /\ ptc[u] # ClearCord /\ link[u].st # "setup" /\ (link[u].st = "none" => u \in HostUser)
  BY ReadyUser
<1>6. LinkOk(u) /\ link'[u] = link[u] BY <1>1 DEF IInv, LinkInv, Ready, CqCallOf
<1>7. LinkOk(u)' BY <1>5, <1>6 DEF LinkOk
<1>8. CordOk(u)' BY <1>1, <1>2 DEF CordOk, Ready, CqCallOf
<1>9. ServedOk(u)' BY <1>1 DEF ServedOk, CqCallOf
<1>10. CqInv'
  <2>1. Len(cq_user') = 1 /\ DOMAIN (cq_user') = {1} /\ cq_user'[1] = u BY <1>1
  <2> QED BY <1>1, <1>3, <2>1 DEF CqInv, Answers, CqCallOf
<1>11. LinkInv' /\ CordInv' /\ NobodyAlone'
  BY <1>2, <1>4, <1>7, <1>8, <1>9 DEF Rest, LinkInv, CordInv, NobodyAlone, ServedOk
<1> QED BY <1>1, <1>4, <1>6, <1>10, <1>11 DEF Core

(* u answers the CQ of c.                                                  *)
CqAnswerOf(w, u, p, x, c) ==
  /\ c \in User \ {u, p} /\ ptc[c].ublk = "CQ" /\ ptc[c].p = c
  /\ x \in Worlds /\ x.link = w.link /\ x.cq = <<>>
  /\ \A v \in User \ {u, c} : x.ptc[v] = w.ptc[v]
  /\ x.ptc[u].p = c /\ x.ptc[u].ublk = w.ptc[u].ublk /\ x.ptc[u].local = w.ptc[u].local
  /\ x.ptc[c].p = u /\ x.ptc[c].ublk = "CQ"
  /\ x.ptc[c].local = ptc[c].local /\ x.ptc[c].recflg = ptc[c].recflg

LEMMA AnswerCqStep ==
  ASSUME IInv, NEW w, NEW u \in User, NEW p, Ready(w, u, p), NEW x, Become(x),
         NEW c, CqAnswerOf(w, u, p, x, c), turn = "l7rx",
         link[u].st # "hth", u \in userhd, c \notin userhd,
         userhd' = userhd \ {u}, turn' = turn, cq_statl' = Append(cq_statl, <<u, c>>),
         \A h \in HostUser : Pending(h) => Pending(h)'
  PROVE  /\ Core' /\ Rest(u, c) /\ link'[u].st = link[u].st /\ link'[c].st = link[c].st
         /\ link' \in [User -> LinkEntry] /\ ptc' \in [User -> Cord] /\ cq_user' \in Seq(User)
<1> USE DEF CqAnswerOf
<1>1. /\ link' = x.link /\ ptc' = x.ptc /\ cq_user' = <<>>
      /\ link' \in [User -> LinkEntry] /\ ptc' \in [User -> Cord] /\ cq_user' \in Seq(User)
  BY BecomeType
<1>2. NoUid \notin User BY UserAssumption
<1> DEFINE n == Len(cq_statl)
<1>3. /\ n \in Nat /\ DOMAIN cq_statl = 1 .. n /\ DOMAIN (cq_statl') = 1 .. n + 1
      /\ \A i \in 1 .. n : cq_statl'[i] = cq_statl[i]
      /\ cq_statl'[n + 1] = <<u, c>>
  BY DEF IInv, TypeOK
<1> HIDE DEF n
<1>4. \A i \in 1 .. n : {u, p, c} \cap {cq_statl[i][1], cq_statl[i][2]} = {}
  <2> SUFFICES ASSUME NEW i \in 1 .. n PROVE {u, p, c} \cap {cq_statl[i][1], cq_statl[i][2]} = {} OBVIOUS
  <2>1. AnswerInv(i) BY <1>3 DEF IInv, CqInv
  <2>2. c \notin {cq_statl[i][1], cq_statl[i][2]} BY <2>1 DEF AnswerInv
  <2> QED BY <1>3, <2>2 DEF Ready
<1>5. ASSUME NEW i \in 1 .. n PROVE AnswerInv(i)'
  <2>1. AnswerInv(i) BY <1>3 DEF IInv, CqInv
  <2>2. cq_statl[i][1] \in User \ {u, p, c} /\ cq_statl[i][2] \in User \ {u, p, c} BY <1>3, <1>4 DEF Ready
  <2>3. ptc'[cq_statl[i][1]] = ptc[cq_statl[i][1]] /\ ptc'[cq_statl[i][2]] = ptc[cq_statl[i][2]]
    BY <1>1, <2>2 DEF Ready
  <2>4. \A j \in 1 .. n + 1 : j # i => {cq_statl[i][1], cq_statl[i][2]} \cap {cq_statl'[j][1], cq_statl'[j][2]} = {}
    <3> SUFFICES ASSUME NEW j \in 1 .. n + 1, j # i
                 PROVE  {cq_statl[i][1], cq_statl[i][2]} \cap {cq_statl'[j][1], cq_statl'[j][2]} = {}
      OBVIOUS
    <3>1. CASE j = n + 1 BY <1>3, <1>4, <3>1
    <3>2. CASE j # n + 1
      <4>0. n \in Nat BY <1>3
      <4>1. j \in 1 .. n BY <3>2, <4>0
      <4> QED BY <1>3, <2>1, <4>1 DEF AnswerInv
    <3> QED BY <3>1, <3>2
  <2>5. cq_statl'[i] = cq_statl[i] BY <1>3
  <2> QED BY <1>3, <2>1, <2>3, <2>4, <2>5 DEF AnswerInv
<1>6. ASSUME NEW k, k = n + 1 PROVE AnswerInv(k)'
  <2>1. \A j \in 1 .. n + 1 : j # k => {u, c} \cap {cq_statl'[j][1], cq_statl'[j][2]} = {}
    <3> SUFFICES ASSUME NEW j \in 1 .. n + 1, j # k
                 PROVE  {u, c} \cap {cq_statl'[j][1], cq_statl'[j][2]} = {}
      OBVIOUS
    <3>1. j \in 1 .. n BY <1>3, <1>6
    <3> QED BY <1>3, <1>4, <3>1
  <2>2. cq_statl'[k][1] = u /\ cq_statl'[k][2] = c BY <1>3, <1>6
  <2>3. u # c /\ ptc'[u].p = c /\ ptc'[c].p = u /\ ptc'[u].ublk \in {"CCP", "DIG"} /\ ptc'[c].ublk = "CQ"
    BY <1>1 DEF Ready
  <2> QED BY <1>3, <2>1, <2>2, <2>3 DEF AnswerInv
<1>7. \A i \in DOMAIN (cq_statl') : AnswerInv(i)' BY <1>3, <1>5, <1>6
<1>8. \A v \in User : Joined(v) \/ v \in {u, c} => Joined(v)'
  <2> SUFFICES ASSUME NEW v \in User, Joined(v) \/ v \in {u, c} PROVE Joined(v)' OBVIOUS
  <2>1. CASE Joined(v) BY <1>3, <2>1 DEF Joined
  <2>2. CASE v \in {u, c} BY <1>3, <2>2 DEF Joined
  <2> QED BY <2>1, <2>2
<1>9. Rest(u, c)
  <2>1. Command(w, u, c) BY <1>1, <1>8 DEF Command
  <2> QED BY <2>1, RestStep
<1>10. ~Called(u) /\ ptc[u] # ClearCord /\ link[u].st # "setup" /\ (link[u].st = "none" => u \in HostUser)
  BY ReadyUser
<1>11. LinkOk(u) /\ LinkOk(c) /\ CordOk(c) /\ link'[u] = link[u] /\ link'[c] = link[c]
  BY <1>1 DEF IInv, LinkInv, CordInv, Ready
<1>12. LinkOk(u)' BY <1>10, <1>11 DEF LinkOk
<1>13. LinkOk(c)' BY <1>1, <1>2, <1>11 DEF LinkOk, Called, ClearCord
<1>14. CordOk(u)' BY <1>1, <1>2, <1>8 DEF CordOk, Ready
<1>15. CordOk(c)' BY <1>1, <1>2, <1>8, <1>11 DEF CordOk, Ready
<1>16. ServedOk(u)' /\ ServedOk(c)' BY <1>1 DEF ServedOk, Ready
<1>17. CqInv' BY <1>1, <1>7 DEF CqInv
<1>18. LinkInv' /\ CordInv' /\ NobodyAlone'
  BY <1>9, <1>12, <1>13, <1>14, <1>15, <1>16 DEF Rest, LinkInv, CordInv, NobodyAlone, ServedOk
<1> QED BY <1>1, <1>9, <1>11, <1>17, <1>18 DEF Core

(* Both ends of an answered CQ are told.                                   *)
JoinPost(u, c) ==
  /\ turn = "timsrv" /\ cq_statl # <<>> /\ cq_statl' = Tail(cq_statl)
  /\ u \in User /\ c \in User /\ u # c /\ ptc[u].p = c /\ ptc[c].p = u
  /\ ptc[u].ublk \in {"CCP", "DIG"} /\ ptc[c].ublk = "CQ"
  /\ \A j \in DOMAIN cq_statl : j # 1 => {u, c} \cap {cq_statl[j][1], cq_statl[j][2]} = {}
  /\ cq_user' = Without(Without(cq_user, c), u)
  /\ link' \in [User -> LinkEntry] /\ ptc' \in [User -> Cord] /\ cq_user' \in Seq(User)
  /\ \A v \in User \ {u, c} : link'[v] = link[v] /\ ptc'[v] = ptc[v]
  /\ \A v \in User : /\ link'[v].st = link[v].st /\ link'[v].disc = link[v].disc
                     /\ ptc'[v].p = ptc[v].p /\ ptc'[v].local = ptc[v].local /\ ptc'[v].recflg = ptc[v].recflg
  /\ ptc'[u].ublk = "no" /\ ptc'[c].ublk = "no"
  /\ UNCHANGED <<hstatl, numhsts, userhd, turn, used>>

LEMMA JoinCqEffect ==
  ASSUME IInv, NEW ok \in BOOLEAN, JoinCq(ok)
  PROVE  JoinPost(cq_statl[1][1], cq_statl[1][2])
<1> DEFINE n == Len(cq_statl)
<1>0. PICK u, c : u = cq_statl[1][1] /\ c = cq_statl[1][2] OBVIOUS
<1>1. /\ n \in Nat /\ n >= 1 /\ DOMAIN cq_statl = 1 .. n /\ Head(cq_statl) = cq_statl[1]
      /\ cq_statl' = Tail(cq_statl)
      /\ cq_statl' \in Seq(User \X User) /\ DOMAIN (cq_statl') = 1 .. n - 1
      /\ \A i \in 1 .. n - 1 : cq_statl'[i] = cq_statl[i + 1]
  BY TailFacts DEF JoinCq, IInv, TypeOK
<1> HIDE DEF n
<1> DEFINE x == Connected(World, u, FALSE, ok)
           y == Connected(x, c, FALSE, ok)
<1>2. /\ turn = "timsrv" /\ Become(y)
      /\ UNCHANGED <<hstatl, numhsts, userhd, turn, used>>
  BY <1>0, <1>1 DEF JoinCq
<1>3. u \in User /\ c \in User /\ AnswerInv(1) /\ NoUid \notin User
  BY <1>0, <1>1, UserAssumption DEF IInv, TypeOK, CqInv
<1>4. /\ u # c /\ ptc[u].p = c /\ ptc[c].p = u
      /\ ptc[u].ublk \in {"CCP", "DIG"} /\ ptc[c].ublk = "CQ"
      /\ \A j \in 1 .. n : j # 1 => {u, c} \cap {cq_statl[j][1], cq_statl[j][2]} = {}
  BY <1>0, <1>1, <1>3 DEF AnswerInv
<1>5. World \in Worlds /\ Symmetric(World) /\ Len(World.cq) <= 1
      /\ World.link = link /\ World.ptc = ptc /\ World.cq = cq_user
  BY WorldStep
<1>6. ConnectedPost(World, x, u, FALSE, ok) BY <1>3, <1>4, <1>5, ConnectedEffect
<1> HIDE DEF x
<1>7. u # NoUid /\ c # NoUid BY <1>3
<1>8. /\ Within(World, x, {u, c}) /\ SamePartners(World, x)
      /\ x.link[u] = link[u] /\ x.ptc[u] = ptc[u]
      /\ x.ptc[c].ublk = "no" /\ x.link[c].disc = link[c].disc
      /\ x.cq = Without(cq_user, c)
  BY <1>4, <1>5, <1>6, <1>7 DEF ConnectedPost
<1>9. x \in Worlds /\ Symmetric(x) /\ x.ptc[c].p = u /\ x.ptc[u].ublk # "no"
  <2>1. x \in Worlds BY <1>8 DEF Within
  <2>2. \A v \in User : x.ptc[v].p = ptc[v].p BY <1>5, <1>8 DEF SamePartners
  <2>3. \A v \in User : ptc[v].p # NoUid => ptc[v].p \in User BY LinkFields DEF IInv, TypeOK
  <2>4. Symmetric(x) BY <1>5, <2>2, <2>3 DEF Symmetric
  <2> QED BY <1>3, <1>4, <1>8, <2>1, <2>2, <2>4
<1>10. Len(x.cq) <= 1 BY <1>5, <1>8 DEF Without
<1>11. ConnectedPost(x, y, c, FALSE, ok) BY <1>3, <1>4, <1>9, <1>10, ConnectedEffect
<1> HIDE DEF y
<1>12. /\ Within(x, y, {c, u}) /\ SamePartners(x, y)
       /\ y.link[c] = x.link[c] /\ y.ptc[c] = x.ptc[c]
       /\ y.ptc[u].ublk = "no" /\ y.link[u].disc = x.link[u].disc
       /\ y.cq = Without(x.cq, u)
  BY <1>7, <1>9, <1>11 DEF ConnectedPost
<1>13. /\ link' = y.link /\ ptc' = y.ptc /\ cq_user' = y.cq
       /\ link' \in [User -> LinkEntry] /\ ptc' \in [User -> Cord] /\ cq_user' \in Seq(User)
  BY <1>2, <1>12, BecomeType DEF Within
<1>14. /\ \A v \in User \ {u, c} : link'[v] = link[v] /\ ptc'[v] = ptc[v]
       /\ \A v \in User : /\ link'[v].st = link[v].st /\ link'[v].disc = link[v].disc
                          /\ ptc'[v].p = ptc[v].p /\ ptc'[v].local = ptc[v].local /\ ptc'[v].recflg = ptc[v].recflg
       /\ ptc'[u].ublk = "no" /\ ptc'[c].ublk = "no"
  BY <1>3, <1>5, <1>8, <1>12, <1>13 DEF Within, SamePartners
<1>15. cq_user' = Without(Without(cq_user, c), u) BY <1>8, <1>12, <1>13
<1>16. cq_statl # <<>> BY <1>1
<1>17. JoinPost(u, c) BY <1>1, <1>2, <1>3, <1>4, <1>13, <1>14, <1>15, <1>16 DEF JoinPost
<1> QED BY <1>0, <1>17

LEMMA JoinCqStep ==
  ASSUME IInv, NEW ok \in BOOLEAN, JoinCq(ok)
  PROVE  IInv'
<1> DEFINE n == Len(cq_statl)
<1>0. PICK u, c : u = cq_statl[1][1] /\ c = cq_statl[1][2] OBVIOUS
<1>8. JoinPost(u, c) BY <1>0, JoinCqEffect
<1>1. /\ n \in Nat /\ n >= 1 /\ DOMAIN cq_statl = 1 .. n
      /\ cq_statl' \in Seq(User \X User) /\ DOMAIN (cq_statl') = 1 .. n - 1
      /\ \A i \in 1 .. n - 1 : cq_statl'[i] = cq_statl[i + 1]
  BY <1>8, TailFacts DEF JoinPost, IInv, TypeOK
<1> HIDE DEF n
<1>2. /\ turn = "timsrv"
      /\ UNCHANGED <<hstatl, numhsts, userhd, turn, used>>
  BY <1>8 DEF JoinPost
<1>3. u \in User /\ c \in User /\ NoUid \notin User BY <1>8, UserAssumption DEF JoinPost
<1>4. /\ u # c /\ ptc[u].p = c /\ ptc[c].p = u
      /\ ptc[u].ublk \in {"CCP", "DIG"} /\ ptc[c].ublk = "CQ"
      /\ \A j \in 1 .. n : j # 1 => {u, c} \cap {cq_statl[j][1], cq_statl[j][2]} = {}
  BY <1>1, <1>8 DEF JoinPost
<1>13. /\ link' \in [User -> LinkEntry] /\ ptc' \in [User -> Cord] /\ cq_user' \in Seq(User)
  BY <1>8 DEF JoinPost
<1>14. /\ \A v \in User \ {u, c} : link'[v] = link[v] /\ ptc'[v] = ptc[v]
       /\ \A v \in User : /\ link'[v].st = link[v].st /\ link'[v].disc = link[v].disc
                          /\ ptc'[v].p = ptc[v].p /\ ptc'[v].local = ptc[v].local /\ ptc'[v].recflg = ptc[v].recflg
       /\ ptc'[u].ublk = "no" /\ ptc'[c].ublk = "no"
  BY <1>8 DEF JoinPost
<1>15. cq_user' = cq_user
  <2>1. cq_user \in Seq(User) BY DEF IInv, TypeOK
  <2>2. cq_user # <<>> => cq_user[1] \notin {u, c}
    <3> SUFFICES ASSUME cq_user # <<>> PROVE cq_user[1] \notin {u, c} OBVIOUS
    <3>1. 1 \in DOMAIN cq_user BY <2>1
    <3>2. ptc[cq_user[1]].p = cq_user[1] BY <3>1 DEF IInv, CqInv
    <3> QED BY <1>4, <3>2
  <2> QED BY <1>8, <2>2 DEF Without, JoinPost
<1>16. \A v \in User \ {u, c} : ptc[v].p # NoUid => ptc[v].p \in User \ {u, c}
  <2> SUFFICES ASSUME NEW v \in User \ {u, c}, ptc[v].p # NoUid PROVE ptc[v].p \in User \ {u, c} OBVIOUS
  <2>1. CordOk(v) /\ ptc[v] \in Cord BY DEF IInv, TypeOK, CordInv
  <2>2. ptc[v].p \in User BY <2>1, LinkFields
  <2> QED BY <1>4, <2>1, <2>2 DEF CordOk
<1>17. \A v \in User : Called(v) => v \notin {u, c} /\ Called(v)'
  <2> SUFFICES ASSUME NEW v \in User, Called(v) PROVE v \notin {u, c} /\ Called(v)' OBVIOUS
  <2>1. v \notin {u, c} BY <1>4 DEF Called
  <2> QED BY <1>14, <1>16, <2>1 DEF Called
<1>18. \A v \in User : Joined(v) /\ v \notin {u, c} => Joined(v)'
  <2> SUFFICES ASSUME NEW v \in User \ {u, c}, Joined(v) PROVE Joined(v)' OBVIOUS
  <2>1. PICK j \in 1 .. n : v \in {cq_statl[j][1], cq_statl[j][2]} BY <1>1 DEF Joined
  <2>2. j # 1 BY <1>0, <2>1
  <2>3. j - 1 \in 1 .. n - 1 /\ (j - 1) + 1 = j BY <1>1, <2>2
  <2>4. cq_statl'[j - 1] = cq_statl[j] BY <1>1, <2>3
  <2> QED BY <1>1, <2>1, <2>3, <2>4 DEF Joined
<1>19. LinkInv'
  <2> SUFFICES ASSUME NEW v \in User PROVE LinkOk(v)' BY DEF LinkInv
  <2>1. LinkOk(v) BY DEF IInv, LinkInv
  <2>2. CASE v \in {u, c}
    <3>1. ptc[v] # ClearCord /\ ~Called(v) BY <1>4, <2>2 DEF ClearCord, Called
    <3> QED BY <1>2, <1>14, <2>1, <3>1 DEF LinkOk
  <2>3. CASE v \notin {u, c} BY <1>2, <1>14, <1>17, <2>1, <2>3, LinkFrame
  <2> QED BY <2>2, <2>3
<1>20. CordInv'
  <2> SUFFICES ASSUME NEW v \in User PROVE CordOk(v)' BY DEF CordInv
  <2>1. CordOk(v) BY DEF IInv, CordInv
  <2>2. CASE v \in {u, c}
    BY <1>2, <1>3, <1>4, <1>14, <2>1, <2>2 DEF CordOk
  <2>3. CASE v \notin {u, c} BY <1>2, <1>14, <1>16, <1>18, <2>1, <2>3, CordFrame
  <2> QED BY <2>2, <2>3
<1>21. CqInv'
  <2>1. \A i \in DOMAIN cq_user : ptc'[cq_user[i]].ublk = "CQ" /\ ptc'[cq_user[i]].p = cq_user[i]
    <3> SUFFICES ASSUME NEW i \in DOMAIN cq_user
                 PROVE  ptc'[cq_user[i]].ublk = "CQ" /\ ptc'[cq_user[i]].p = cq_user[i]
      OBVIOUS
    <3>1. ptc[cq_user[i]].ublk = "CQ" /\ ptc[cq_user[i]].p = cq_user[i] /\ cq_user[i] \in User
      BY DEF IInv, CqInv, TypeOK
    <3>2. cq_user[i] \notin {u, c} BY <1>4, <3>1
    <3> QED BY <1>14, <3>1, <3>2
  <2>2. ASSUME NEW i \in 1 .. n - 1 PROVE AnswerInv(i)'
    <3>1. PICK k \in 1 .. n : k = i + 1 BY <1>1
    <3>2. AnswerInv(k) /\ k # 1 BY <1>1, <3>1 DEF IInv, CqInv
    <3>3. cq_statl[k][1] \in User \ {u, c} /\ cq_statl[k][2] \in User \ {u, c}
      <4>1. cq_statl[k] \in User \X User BY <1>1 DEF IInv, TypeOK
      <4>2. cq_statl[k][1] \in User /\ cq_statl[k][2] \in User BY <4>1
      <4> QED BY <1>4, <3>2, <4>2
    <3>4. cq_statl'[i] = cq_statl[k] BY <1>1, <3>1
    <3>5. \A j \in 1 .. n - 1 : j # i => {cq_statl[k][1], cq_statl[k][2]} \cap {cq_statl'[j][1], cq_statl'[j][2]} = {}
      <4> SUFFICES ASSUME NEW j \in 1 .. n - 1, j # i
                   PROVE  {cq_statl[k][1], cq_statl[k][2]} \cap {cq_statl'[j][1], cq_statl'[j][2]} = {}
        OBVIOUS
      <4>1. j + 1 \in 1 .. n /\ j + 1 # k BY <1>1, <3>1
      <4>2. cq_statl'[j] = cq_statl[j + 1] BY <1>1
      <4> QED BY <1>1, <3>2, <4>1, <4>2 DEF AnswerInv
    <3> QED BY <1>1, <1>2, <1>14, <3>2, <3>3, <3>4, <3>5 DEF AnswerInv
  <2> QED BY <1>1, <1>2, <1>15, <2>1, <2>2 DEF IInv, CqInv
<1>22. NobodyAlone'
  <2> SUFFICES ASSUME NEW v \in User, link'[v].st \in {"up", "hth"} /\ ~link'[v].disc
               PROVE  ptc'[v].ublk # "no" \/ Partner(v)' # NoUid \/ (v \in HostUser /\ Pending(v)')
    BY DEF NobodyAlone
  <2>1. CASE v \in {u, c} BY <1>3, <1>4, <1>14, <2>1 DEF Partner
  <2>2. CASE v \notin {u, c} BY <1>2, <1>14, <2>2 DEF IInv, NobodyAlone, Partner, Pending
  <2> QED BY <2>1, <2>2
<1>23. HostInv'
  <2>1. \A h \in HostUser : h \in User BY DEF User
  <2>2. \A h \in User : ptc[h] = ClearCord => h \notin {u, c} BY <1>4 DEF ClearCord
  <2> QED BY <1>2, <1>14, <1>17, <2>1, <2>2, HostSame
<1>24. TypeOK' BY <1>1, <1>2, <1>13 DEF IInv, TypeOK
<1> QED BY <1>19, <1>20, <1>21, <1>22, <1>23, <1>24 DEF IInv

-----------------------------------------------------------------------------
(* Commands.                                                               *)

How == [back : BOOLEAN, gateway : BOOLEAN]

LEMMA HostAppend ==
  ASSUME IInv, NEW m \in StatusMessage, hstatl' = Append(hstatl, m), ~Pending(m.h),
         \A h \in HostUser : h # m.h => /\ link'[h].st = link[h].st
                                        /\ Called(h) => Called(h)'
                                        /\ ptc[h] = ClearCord => ptc'[h] = ClearCord,
         NEW h1 \in HostUser, h1 = m.h,
         IF m.op = "CONNT" THEN Called(h1)' /\ link'[h1].st = "up" ELSE link'[h1].st # "up"
  PROVE  HostInv'
<1> DEFINE n == Len(hstatl)
<1>1. /\ n \in Nat /\ DOMAIN hstatl = 1 .. n /\ DOMAIN (hstatl') = 1 .. n + 1
      /\ \A i \in 1 .. n : hstatl'[i] = hstatl[i]
      /\ hstatl'[n + 1] = m
      /\ \A h \in HostUser : Pending(h)' <=> Pending(h) \/ h = m.h
  BY AppendStatus DEF IInv
<1>2. n = Len(hstatl) OBVIOUS
<1> HIDE DEF n
<1>3. ASSUME NEW i \in 1 .. n PROVE MessageInv(i)'
  <2>1. PICK x : x = hstatl[i].h OBVIOUS
  <2>2. x \in HostUser /\ x # h1 BY <1>1, <2>1, StatusFields DEF IInv, Pending
  <2>3. MessageInv(i) BY <1>1 DEF IInv, HostInv
  <2>4. hstatl[i].op = "CONNT" => Called(x)' BY <2>1, <2>2, <2>3 DEF MessageInv
  <2>5. link'[x].st = link[x].st BY <2>2
  <2> QED BY <1>1, <2>1, <2>3, <2>4, <2>5, MessageFrame DEF IInv
<1>4. ASSUME NEW k, k = n + 1 PROVE MessageInv(k)'
  <2>1. CASE m.op # "CONNT" BY <1>1, <1>4, <2>1 DEF MessageInv
  <2>2. CASE m.op = "CONNT"
    <3>1. m = [op |-> "CONNT", h |-> h1] BY <2>2 DEF StatusMessage
    <3> QED BY <1>2, <1>4, <2>2, <3>1, NewConnect DEF IInv
  <2> QED BY <2>1, <2>2
<1>5. \A h \in HostUser : link'[h].st = "none" /\ ~Pending(h)' => ptc'[h] = ClearCord
  BY <1>1 DEF IInv, HostInv
<1>6. \A i \in DOMAIN (hstatl') : MessageInv(i)' BY <1>1, <1>3, <1>4
<1> QED BY <1>5, <1>6 DEF HostInv

EndPost(w, x, u, how) ==
  /\ x \in Worlds /\ x.link = w.link /\ x.cq = w.cq
  /\ \A y \in User \ {u} : x.ptc[y] = w.ptc[y]
  /\ x.ptc[u].p = w.ptc[u].p /\ x.ptc[u].local = w.ptc[u].local /\ x.ptc[u].recflg = how.back
  /\ x.ptc[u].ublk = IF how.gateway /\ w.ptc[u].ublk = "DIG" THEN "CCP" ELSE w.ptc[u].ublk

LEMMA EndEffect ==
  ASSUME NEW w \in Worlds, NEW u \in User, NEW how \in How
  PROVE  EndPost(w, End(w, u, how), u, how)
<1> DEFINE b == IF how.gateway /\ w.ptc[u].ublk = "DIG" THEN "CCP" ELSE w.ptc[u].ublk
           c == [w.ptc[u] EXCEPT !.recflg = how.back, !.ublk = b]
<1>1. w.ptc[u] \in Cord /\ how.back \in BOOLEAN BY DEF Worlds, How
<1>2. b \in {"no", "CCP", "CREQ", "CQ", "DIG"} BY <1>1, LinkFields
<1>3. End(w, u, how) = [w EXCEPT !.ptc = [w.ptc EXCEPT ![u] = c]] BY <1>1 DEF End, AfterGateway, Worlds, Cord
<1> HIDE DEF b
<1>4. c \in Cord /\ c.p = w.ptc[u].p /\ c.local = w.ptc[u].local /\ c.recflg = how.back /\ c.ublk = b
  BY <1>1, <1>2 DEF Cord
<1> HIDE DEF c
<1> QED BY <1>3, <1>4 DEF EndPost, Worlds, b

SetptcPost(w, x, u, v) ==
  /\ x \in Worlds /\ x.link = w.link /\ x.cq = w.cq
  /\ \A y \in User \ {u, v} : x.ptc[y] = w.ptc[y]
  /\ x.ptc[u].p = v /\ x.ptc[v].p = u
  /\ \A y \in {u, v} : /\ x.ptc[y].ublk = w.ptc[y].ublk /\ x.ptc[y].local = w.ptc[y].local
                        /\ x.ptc[y].recflg = w.ptc[y].recflg

LEMMA SetptcEffect ==
  ASSUME NEW w \in Worlds, NEW u \in User, NEW v \in User, u # v
  PROVE  SetptcPost(w, Setptc(w, u, v), u, v)
<1> DEFINE x == [w EXCEPT !.ptc[u].p = v]
           y == [x EXCEPT !.ptc[v].p = u]
<1>1. Setptc(w, u, v) = y BY DEF Setptc
<1>2. PartnerPost(w, x, u, v) BY PartnerEffect
<1> HIDE DEF x
<1>3. x \in Worlds BY <1>2 DEF PartnerPost, Within
<1>4. PartnerPost(x, y, v, u) BY <1>3, PartnerEffect
<1> HIDE DEF y
<1> QED BY <1>1, <1>2, <1>4 DEF PartnerPost, Within, SetptcPost

CallingPost(w, x, u, v, how) ==
  /\ x \in Worlds /\ x.link = w.link /\ x.cq = w.cq
  /\ \A y \in User \ {u, v} : x.ptc[y] = w.ptc[y]
  /\ x.ptc[u].p = v /\ x.ptc[u].ublk = "CREQ"
  /\ x.ptc[u].local = w.ptc[u].local /\ x.ptc[u].recflg = how.back
  /\ x.ptc[v].p = u /\ x.ptc[v].ublk = w.ptc[v].ublk
  /\ x.ptc[v].local = w.ptc[v].local /\ x.ptc[v].recflg = w.ptc[v].recflg

LEMMA CallingEffect ==
  ASSUME NEW w \in Worlds, NEW u \in User, NEW v \in User, u # v, NEW how \in How
  PROVE  CallingPost(w, End(Calling(w, u, v), u, how), u, v, how)
<1> DEFINE s == Setptc(w, u, v)
           c == [s EXCEPT !.ptc[u].ublk = "CREQ"]
           x == End(c, u, how)
<1>1. Calling(w, u, v) = c BY DEF Calling
<1>2. SetptcPost(w, s, u, v) BY SetptcEffect
<1> HIDE DEF s
<1>3. s \in Worlds /\ "CREQ" \in Statuses BY <1>2 DEF SetptcPost, Statuses
<1>4. StatusPost(s, c, u, "CREQ") BY <1>3, StatusEffect
<1> HIDE DEF c
<1>5. c \in Worlds BY <1>4 DEF StatusPost, Within
<1>6. EndPost(c, x, u, how) BY <1>5, EndEffect
<1> HIDE DEF x
<1>7. CallingPost(w, x, u, v, how)
  BY <1>2, <1>4, <1>6 DEF SetptcPost, StatusPost, Within, SamePartners, EndPost, CallingPost
<1> QED BY <1>1, <1>7 DEF x

ConerrPost(w, x, u) ==
  /\ Within(w, x, {u}) /\ x.cq = w.cq /\ x.ptc = w.ptc

LEMMA ConerrEffect ==
  ASSUME NEW w \in Worlds, NEW u \in User, NEW reject
  PROVE  ConerrPost(w, Conerr(w, u, reject), u)
<1> DEFINE y == IF reject THEN Rejlnk(w, u) ELSE w
           x == Conerr(w, u, reject)
<1>1. x = w \/ x = Disusr(y, u) BY DEF Conerr
<1>2. y \in {w, Acklnk(w, u), Rejlnk(w, u)} OBVIOUS
<1> HIDE DEF x, y
<1>3. Within(w, y, {u}) /\ y.cq = w.cq /\ y.ptc = w.ptc BY <1>2, MarkEffect
<1>4. CASE x = w BY <1>4 DEF ConerrPost, Within, x
<1>5. CASE x = Disusr(y, u)
  <2>1. y \in Worlds BY <1>3 DEF Within
  <2>2. Within(y, x, {u}) /\ x.ptc = y.ptc /\ x.cq = y.cq BY <1>5, <2>1, DisusrEffect
  <2>3. ConerrPost(w, x, u) BY <1>3, <2>2 DEF ConerrPost, Within
  <2> QED BY <2>3 DEF x
<1> QED BY <1>1, <1>4, <1>5

LEMMA CqEntries ==
  ASSUME IInv
  PROVE  \A i \in DOMAIN cq_user : /\ cq_user[i] \in User /\ ptc[cq_user[i]].ublk = "CQ"
                                   /\ ptc[cq_user[i]].p = cq_user[i]
BY DEF IInv, TypeOK, CqInv

LEMMA GivenUpEffect ==
  ASSUME IInv, NEW u \in User, turn = "l7rx", u \in userhd, ptc[u].ublk # "no"
  PROVE  \E p : Ready(GivenUp(u), u, p)
<1> DEFINE w == GivenUp(u)
<1>1. PICK p : p = ptc[u].p OBVIOUS
<1>2. /\ World \in Worlds /\ World.link = link /\ World.ptc = ptc /\ World.cq = cq_user
      /\ cq_user \in Seq(User) /\ Len(cq_user) <= 1 /\ NoUid \notin User
  BY WorldStep, UserAssumption DEF Worlds
<1>3. /\ LinkOk(u) /\ CordOk(u) /\ ptc[u] \in Cord /\ p \in User \cup {NoUid} /\ ~ptc[u].local
      /\ ptc[u].ublk \in {"CCP", "CREQ", "CQ", "DIG"}
  BY <1>1, LinkFields DEF IInv, TypeOK, LinkInv, CordInv, CordOk
<1>4. link[u].st # "hth" BY <1>3 DEF LinkOk
<1>5. \A i \in DOMAIN cq_statl :
        /\ cq_statl[i][1] \in User \ {u} /\ cq_statl[i][2] \in User \ {u}
        /\ ptc[cq_statl[i][1]].p = cq_statl[i][2] /\ ptc[cq_statl[i][2]].p = cq_statl[i][1]
        /\ ptc[cq_statl[i][1]].ublk # "no" /\ ptc[cq_statl[i][2]].ublk # "no"
  <2> SUFFICES ASSUME NEW i \in DOMAIN cq_statl
               PROVE  /\ cq_statl[i][1] \in User \ {u} /\ cq_statl[i][2] \in User \ {u}
                      /\ ptc[cq_statl[i][1]].p = cq_statl[i][2] /\ ptc[cq_statl[i][2]].p = cq_statl[i][1]
                      /\ ptc[cq_statl[i][1]].ublk # "no" /\ ptc[cq_statl[i][2]].ublk # "no"
    OBVIOUS
  <2>1. cq_statl[i] \in User \X User BY DEF IInv, TypeOK
  <2>2. AnswerInv(i) BY DEF IInv, CqInv
  <2> QED BY <2>1, <2>2 DEF AnswerInv
<1>6. ~Joined(u) BY <1>5 DEF Joined
<1>7. \A x \in User : /\ ptc[x].p \in User \cup {NoUid} /\ (ptc[x].p # NoUid => ptc[ptc[x].p].p = x)
  BY LinkFields DEF IInv, TypeOK, CordInv, CordOk
<1>8. CASE ptc[u].ublk = "CREQ"
  <2>1. p \in User /\ ptc[p].ublk = "no" /\ ptc[p].p = u /\ p # u BY <1>1, <1>2, <1>3, <1>8 DEF CordOk
  <2> DEFINE d == Disusr(World, p)
             a == [d EXCEPT !.ptc[u].p = NoUid]
             b == [a EXCEPT !.ptc[p].p = NoUid]
  <2>2. w = [b EXCEPT !.ptc[u].ublk = "CCP"] BY <1>1, <1>2, <1>8, <2>1 DEF GivenUp
  <2>3. /\ Within(World, d, {p}) /\ d.ptc = ptc /\ d.cq = cq_user
        /\ MayDiscard(World, p) => d.link[p].disc
    BY <1>2, <2>1, DisusrEffect
  <2>4. d.link[p].disc \/ link[p].st = "none" BY <1>2, <2>1, <2>3 DEF Within, MayDiscard
  <2>5. d \in Worlds BY <2>3 DEF Within
  <2> HIDE DEF d
  <2>6. PartnerPost(d, a, u, NoUid) BY <2>5, PartnerEffect
  <2>7. a \in Worlds BY <2>6 DEF PartnerPost, Within
  <2> HIDE DEF a
  <2>8. PartnerPost(a, b, p, NoUid) BY <2>1, <2>7, PartnerEffect
  <2>9. b \in Worlds /\ "CCP" \in Statuses BY <2>8 DEF PartnerPost, Within, Statuses
  <2> HIDE DEF b
  <2>10. StatusPost(b, w, u, "CCP") BY <2>2, <2>9, StatusEffect
  <2> HIDE DEF w
  <2>11. /\ w \in Worlds /\ w.link = d.link /\ w.cq = cq_user
         /\ w.ptc[u].p = NoUid /\ w.ptc[u].ublk = "CCP" /\ w.ptc[u].local = ptc[u].local
         /\ w.ptc[p].p = NoUid /\ w.ptc[p].ublk = "no"
         /\ w.ptc[p].local = ptc[p].local /\ w.ptc[p].recflg = ptc[p].recflg
         /\ \A x \in User \ {u, p} : w.ptc[x] = ptc[x]
    BY <2>1, <2>3, <2>6, <2>8, <2>10 DEF PartnerPost, StatusPost, Within, SamePartners
  <2>12. /\ \A x \in User \ {p} : w.link[x] = link[x]
         /\ w.link[p].st = link[p].st /\ (w.link[p].disc \/ link[p].st = "none")
    BY <1>2, <2>1, <2>3, <2>4, <2>11 DEF Within, MayDiscard
  <2>13. \A x \in User \ {u, p} : ptc[x].p \in (User \ {u, p}) \cup {NoUid}
    BY <1>1, <1>2, <1>7, <2>1
  <2>14. \A i \in DOMAIN cq_user : /\ cq_user[i] \in User \ {u, p}
                                   /\ ptc[cq_user[i]].ublk = "CQ" /\ ptc[cq_user[i]].p = cq_user[i]
    BY <1>8, <2>1, CqEntries
  <2>15. \A i \in DOMAIN cq_statl : {cq_statl[i][1], cq_statl[i][2]} \subseteq User \ {u, p}
    BY <1>5, <2>1
  <2>16. Ready(w, u, p) 
    BY <1>2, <1>3, <1>4, <1>8, <2>1, <2>11, <2>12, <2>13, <2>14, <2>15 DEF Ready
  <2> QED BY <2>16 DEF w
<1>9. CASE ptc[u].ublk # "CREQ"
  <2>1. p \in {NoUid, u} /\ (p = u => ptc[u].ublk = "CQ") BY <1>1, <1>3, <1>6, <1>9 DEF CordOk
  <2>3. /\ w \in Worlds /\ w.link = link /\ w.ptc[u].p = NoUid /\ w.ptc[u].ublk \in {"CCP", "DIG"}
        /\ (w.ptc[u].ublk = "DIG" => ptc[u].ublk = "DIG") /\ w.ptc[u].local = ptc[u].local
        /\ \A x \in User \ {u} : w.ptc[x] = ptc[x]
        /\ w.cq = IF ptc[u].ublk = "CQ" THEN Without(cq_user, u) ELSE cq_user
    <3>1. CASE ptc[u].ublk # "CQ"
      <4>1. w = World BY <1>9, <3>1 DEF GivenUp
      <4> QED BY <1>1, <1>2, <1>3, <1>9, <2>1, <3>1, <4>1
    <3>2. CASE ptc[u].ublk = "CQ"
      <4> DEFINE q == RemoveFirst(cq_user, u)
                 a == [World EXCEPT !.cq = q]
                 b == [a EXCEPT !.ptc[u].ublk = "CCP"]
      <4>1. w = [b EXCEPT !.ptc[u].p = NoUid] BY <1>2, <3>2 DEF GivenUp
      <4>2. q = Without(cq_user, u) /\ q \in Seq(User)
        <5>1. q = Without(cq_user, u) BY <1>2, RemoveFirstEffect
        <5> QED BY <1>2, <5>1 DEF Without
      <4>3. a \in Worlds /\ a.link = link /\ a.ptc = ptc /\ a.cq = q BY <1>2, <4>2 DEF Worlds
      <4> HIDE DEF a, q
      <4>4. "CCP" \in Statuses BY DEF Statuses
      <4>5. StatusPost(a, b, u, "CCP") BY <4>3, <4>4, StatusEffect
      <4> HIDE DEF b, w
      <4>6. b \in Worlds BY <4>5 DEF StatusPost, Within
      <4>7. PartnerPost(b, w, u, NoUid) BY <4>1, <4>6, PartnerEffect
      <4> QED BY <1>2, <3>2, <4>2, <4>3, <4>5, <4>7 DEF StatusPost, PartnerPost, Within, SamePartners
    <3> QED BY <3>1, <3>2
  <2> HIDE DEF w
  <2>4. \A i \in DOMAIN w.cq : /\ w.cq[i] \in User \ {u, NoUid}
                               /\ ptc[w.cq[i]].ublk = "CQ" /\ ptc[w.cq[i]].p = w.cq[i]
    <3>1. CASE ptc[u].ublk = "CQ"
      <4>1. w.cq = <<>> \/ (w.cq = cq_user /\ cq_user # <<>> /\ cq_user[1] # u) BY <2>3, <3>1 DEF Without
      <4>2. CASE w.cq = <<>> BY <4>2
      <4>3. CASE w.cq = cq_user /\ cq_user # <<>> /\ cq_user[1] # u
        <5>1. DOMAIN cq_user = {1} BY <1>2, <4>3, ShortSequence
        <5> QED BY <1>2, <4>3, <5>1, CqEntries
      <4> QED BY <4>1, <4>2, <4>3
    <3>2. CASE ptc[u].ublk # "CQ" BY <1>2, <2>3, <3>2, CqEntries
    <3> QED BY <3>1, <3>2
  <2>5. Len(w.cq) <= 1 BY <1>2, <2>3 DEF Without
  <2>6. \A x \in User \ {u} : ptc[x].p \in (User \ {u, NoUid}) \cup {NoUid}
    BY <1>1, <1>2, <1>7, <2>1
  <2>7. \A i \in DOMAIN cq_statl : {cq_statl[i][1], cq_statl[i][2]} \subseteq User \ {u, NoUid}
    BY <1>2, <1>5
  <2>8. ptc[u].ublk = "DIG" => u \notin HostUser BY <1>3 DEF CordOk
  <2>9. Ready(w, u, NoUid)
    BY <1>2, <1>3, <1>4, <2>3, <2>4, <2>5, <2>6, <2>7, <2>8 DEF Ready
  <2> QED BY <2>9 DEF w
<1> QED BY <1>8, <1>9

LEMMA GatewayReady ==
  ASSUME IInv, NEW u \in User, turn = "l7tx", ptc[u].ublk = "DIG"
  PROVE  Ready([World EXCEPT !.ptc[u].local = TRUE], u, NoUid)
<1> DEFINE w == [World EXCEPT !.ptc[u].local = TRUE]
           t == [ptc[u] EXCEPT !.local = TRUE]
<1>1. /\ World \in Worlds /\ World.link = link /\ World.ptc = ptc /\ World.cq = cq_user
      /\ cq_user \in Seq(User) /\ Len(cq_user) <= 1 /\ NoUid \notin User /\ cq_statl = <<>>
  BY WorldStep, UserAssumption DEF Worlds, IInv, CqInv
<1>2. LinkOk(u) /\ CordOk(u) /\ ptc[u] \in Cord BY DEF IInv, TypeOK, LinkInv, CordInv
<1>3. ~Joined(u) BY <1>1 DEF Joined
<1>4. u \notin HostUser /\ u \notin userhd /\ ptc[u].p = NoUid BY <1>2, <1>3 DEF CordOk
<1>5. \A x \in User : /\ ptc[x].p \in User \cup {NoUid} /\ (ptc[x].p # NoUid => ptc[ptc[x].p].p = x)
  BY LinkFields DEF IInv, TypeOK, CordInv, CordOk
<1>6. t \in Cord /\ t.p = NoUid /\ t.ublk = "DIG" BY <1>2, <1>4 DEF Cord
<1>7. w = [World EXCEPT !.ptc = [ptc EXCEPT ![u] = t]] BY <1>1 DEF Worlds
<1> HIDE DEF t, w
<1>8. /\ w \in Worlds /\ w.link = link /\ w.cq = cq_user /\ w.ptc[u] = t
      /\ \A x \in User \ {u} : w.ptc[x] = ptc[x]
  BY <1>1, <1>6, <1>7 DEF Worlds
<1>9. \A x \in User \ {u} : ptc[x].p \in (User \ {u, NoUid}) \cup {NoUid}
  BY <1>1, <1>4, <1>5
<1>10. \A i \in DOMAIN cq_user : /\ cq_user[i] \in User \ {u, NoUid}
                                 /\ ptc[cq_user[i]].ublk = "CQ" /\ ptc[cq_user[i]].p = cq_user[i]
  BY <1>1, CqEntries
<1>11. link[u].st = "hth" => u \in L2User /\ u \notin userhd BY <1>2 DEF LinkOk
<1>12. Ready(w, u, NoUid) BY <1>1, <1>4, <1>6, <1>8, <1>9, <1>10, <1>11 DEF Ready
<1> QED BY <1>12 DEF w

-----------------------------------------------------------------------------
LEMMA SameUsed ==
  ASSUME IInv, Limits
  PROVE  /\ ~(used.reuse < MaxReuse) /\ ~(used.gatewayCq < MaxGatewayCq) /\ ~(used.impatient < MaxImpatient)
<1>1. used.reuse \in Nat /\ used.gatewayCq \in Nat /\ used.impatient \in Nat BY DEF IInv, TypeOK
<1> QED BY <1>1 DEF Limits

(* The prompt, and the messages to level 7 are as they were.               *)
LEMMA PromptInv ==
  ASSUME IInv, NEW w, NEW u \in User, NEW p, Ready(w, u, p), NEW x, Become(x), x \in Worlds,
         \A v \in User \ {u} : x.link[v] = w.link[v] /\ x.ptc[v] = w.ptc[v],
         x.link[u].st = link[u].st, x.cq = w.cq,
         x.ptc[u].p = NoUid, x.ptc[u].ublk \in {"CCP", w.ptc[u].ublk}, x.ptc[u].local = w.ptc[u].local,
         link[u].st = "hth" => ~x.ptc[u].recflg,
         userhd' \subseteq userhd, UNCHANGED <<hstatl, numhsts, cq_statl, turn, used>>
  PROVE  IInv'
<1>1. \A h \in HostUser : Pending(h) => Pending(h)' BY DEF Pending
<1>2. Core' /\ Others(w, u) /\ link' \in [User -> LinkEntry] /\ ptc' \in [User -> Cord] /\ cq_user' \in Seq(User)
      /\ ~Called(u) /\ ptc[u] # ClearCord
  BY <1>1, PromptStep
<1>3. \A v \in User : w.link[v].st = link[v].st BY UserAssumption DEF Ready
<1>4. HostInv'
  <2>1. \A h \in HostUser : h \in User BY DEF User
  <2> QED BY <1>2, <1>3, <2>1, HostSame DEF Others
<1>5. TypeOK' BY <1>2 DEF IInv, TypeOK
<1> QED BY <1>2, <1>4, <1>5 DEF IInv, Core

(* A connect that comes to nothing.                                        *)
RefusalPost(w, x, u, how) ==
  /\ x \in Worlds
  /\ \A v \in User \ {u} : x.link[v] = w.link[v] /\ x.ptc[v] = w.ptc[v]
  /\ x.link[u].st = link[u].st /\ x.cq = w.cq
  /\ x.ptc[u].p = NoUid /\ x.ptc[u].ublk \in {"CCP", w.ptc[u].ublk} /\ x.ptc[u].local = w.ptc[u].local
  /\ x.ptc[u].recflg = how.back

LEMMA RefusalEffect ==
  ASSUME IInv, NEW w, NEW u \in User, NEW p, Ready(w, u, p), NEW reject, NEW how \in How
  PROVE  RefusalPost(w, End(Conerr(w, u, reject), u, how), u, how)
<1> DEFINE y == Conerr(w, u, reject)
           x == End(y, u, how)
<1>2. w \in Worlds /\ w.link[u] = link[u] /\ w.ptc[u].p = NoUid BY DEF Ready
<1>3. ConerrPost(w, y, u) BY <1>2, ConerrEffect
<1>4. y \in Worlds BY <1>3 DEF ConerrPost, Within
<1> HIDE DEF y
<1>5. EndPost(y, x, u, how) BY <1>4, EndEffect
<1> HIDE DEF x
<1>6. RefusalPost(w, x, u, how)
  BY <1>2, <1>3, <1>5 DEF ConerrPost, Within, EndPost, RefusalPost
<1> QED BY <1>6 DEF x, y

LEMMA RefusedStep ==
  ASSUME IInv, NEW w, NEW u \in User, NEW p, Ready(w, u, p), NEW reject \in BOOLEAN, NEW how \in How,
         Refused(w, u, reject, how), link[u].st = "hth" => ~how.back,
         userhd' \subseteq userhd, UNCHANGED <<turn, used, numhsts>>
  PROVE  IInv'
<1> DEFINE x == End(Conerr(w, u, reject), u, how)
<1>1. Become(x) /\ UNCHANGED <<hstatl, numhsts, cq_statl>> BY DEF Refused
<1>2. RefusalPost(w, x, u, how) BY RefusalEffect
<1> HIDE DEF x
<1> QED BY <1>1, <1>2, PromptInv DEF RefusalPost

LEMMA ConnectLinkEffect ==
  ASSUME IInv, NEW w, NEW u \in User, NEW p, Ready(w, u, p), NEW v \in User, NEW how \in How,
         ConnectLink(w, u, v, how), link[u].st = "hth" => ~how.back
  PROVE  /\ v \notin HostUser /\ link[v].st = "none"
         /\ \E x : CallOf(w, u, p, x, v) /\ Become(x)
<1> DEFINE y == [w EXCEPT !.link[v] = [NoLink EXCEPT !.st = "setup"]]
           x == End(Calling(y, u, v), u, how)
<1>0. /\ v \in L2User \cup L4User /\ w.link[v].st = "none" /\ Become(x)
      /\ UNCHANGED <<hstatl, numhsts, cq_statl>>
  BY DEF ConnectLink
<1>1. v \notin HostUser /\ NoUid \notin User BY <1>0, UserAssumption
<1>2. v # u
  <2>1. link[u].st = "none" => u \in HostUser BY ReadyUser
  <2> QED BY <1>0, <1>1, <2>1 DEF Ready
<1>3. link[v].st = "none" BY <1>0, <1>1, <1>2 DEF Ready
<1>4. ptc[v] = ClearCord BY <1>1, <1>3 DEF IInv, LinkInv, LinkOk
<1>5. v # p BY <1>1, <1>4 DEF Ready, ClearCord
<1>6. /\ y \in Worlds /\ y.ptc = w.ptc /\ y.cq = w.cq
      /\ y.link[v].st = "setup" /\ ~y.link[v].disc
      /\ \A z \in User \ {v} : y.link[z] = w.link[z]
  BY LinkFields DEF Ready, Worlds, NoLink, LinkEntry
<1> HIDE DEF y
<1>7. CallingPost(y, x, u, v, how) BY <1>2, <1>6, CallingEffect
<1> HIDE DEF x
<1>8. w.ptc[v] = ptc[v] BY <1>2, <1>5 DEF Ready
<1>9. CallOf(w, u, p, x, v)
  BY <1>1, <1>2, <1>4, <1>5, <1>6, <1>7, <1>8 DEF CallOf, CallingPost, ClearCord
<1> QED BY <1>0, <1>1, <1>3, <1>9

LEMMA ConnectLinkStep ==
  ASSUME IInv, NEW w, NEW u \in User, NEW p, Ready(w, u, p), NEW v \in User, NEW how \in How,
         ConnectLink(w, u, v, how), link[u].st = "hth" => ~how.back,
         userhd' \subseteq userhd, UNCHANGED <<turn, used, numhsts>>
  PROVE  IInv'
<1>1. v \notin HostUser BY ConnectLinkEffect
<1>2. PICK x : CallOf(w, u, p, x, v) /\ Become(x) BY ConnectLinkEffect
<1>3. UNCHANGED <<hstatl, numhsts, cq_statl>> BY DEF ConnectLink
<1>4. \A h \in HostUser : Pending(h) => Pending(h)' BY <1>3 DEF Pending
<1>5. /\ Core' /\ Rest(u, v) /\ Called(v)' /\ link'[u].st = link[u].st
      /\ link' \in [User -> LinkEntry] /\ ptc' \in [User -> Cord] /\ cq_user' \in Seq(User)
  BY <1>2, <1>3, <1>4, CallStep
<1>6. HostInv'
  <2>1. ~Called(u) /\ ptc[u] # ClearCord BY ReadyUser
  <2>2. \A h \in HostUser : h \in User \ {v} BY <1>1 DEF User
  <2> QED BY <1>3, <1>5, <2>1, <2>2, HostSame DEF Rest
<1>7. TypeOK' BY <1>3, <1>5 DEF IInv, TypeOK
<1> QED BY <1>5, <1>6, <1>7 DEF IInv, Core

(* A free channel: one with the least position exists.                     *)
Before == {p \in Nat \X Nat : p[1] < p[2]}

LEMMA BeforeWF == IsWellFoundedOn(Before, Nat)
BY NatLessThanWellFounded DEF OpToRel, Before

LEMMA FreeChannel ==
  ASSUME NEW free, free \subseteq HostUser, free # {}
  PROVE  (CHOOSE x \in free : \A y \in free : HostPos[x] <= HostPos[y]) \in free
<1> DEFINE T == {HostPos[x] : x \in free}
<1>1. \A x \in free : HostPos[x] \in Nat BY UserAssumption
<1>2. T \subseteq Nat /\ T # {} BY <1>1
<1>3. PICK m \in T : \A y \in T : <<y, m>> \notin Before
  <2> HIDE DEF T
  <2> QED BY <1>2, BeforeWF, WFMin
<1>4. PICK x \in free : HostPos[x] = m BY <1>3
<1>5. ASSUME NEW y \in free PROVE HostPos[x] <= HostPos[y]
  <2>1. HostPos[x] \in Nat /\ HostPos[y] \in Nat /\ HostPos[y] \in T /\ HostPos[x] = m BY <1>1, <1>4
  <2>2. <<HostPos[y], HostPos[x]>> \notin Before BY <1>3, <2>1
  <2>3. ~(HostPos[y] < HostPos[x]) BY <2>1, <2>2 DEF Before
  <2> QED BY <2>1, <2>3
<1> QED BY <1>5

(* A channel is free, cleared and nothing is pending about it; it is       *)
(* connected to, or the connect is refused.                                *)
HostCallPost(w, u, p, how, h) ==
  /\ h \in HostUser /\ h \in User \ {u, p} /\ ~Pending(h) /\ ptc[h] = ClearCord
  /\ w.link[h].st = "none" /\ link[h].st = "none"
  /\ used' \in [gatewayCq : Nat, frmr : Nat, impatient : Nat, miscount : Nat, reuse : Nat]
  /\ UNCHANGED cq_statl
  /\ \/ /\ \E x : CallOf(w, u, p, x, h) /\ Become(x)
        /\ hstatl' = Append(hstatl, [op |-> "CONNT", h |-> h]) /\ numhsts' = numhsts + 1
     \/ /\ \E x : RefusalPost(w, x, u, how) /\ Become(x)
        /\ hstatl' = Append(hstatl, [op |-> "BUSYF", h |-> h]) /\ numhsts' = numhsts

LEMMA ConnectHostEffect ==
  ASSUME IInv, Limits, NEW w, NEW u \in User, NEW p, Ready(w, u, p), NEW how \in How,
         ConnectHost(w, u, how), link[u].st = "hth" => ~how.back
  PROVE  \E h : HostCallPost(w, u, p, how, h)
<1> DEFINE free == {x \in HostUser : w.link[x].st = "none"}
           h0 == CHOOSE x \in free : \A y \in free : HostPos[x] <= HostPos[y]
<1>0. PICK h : h = h0 OBVIOUS
<1>1. /\ free # {} /\ (Pending(h) => used.reuse < MaxReuse)
      /\ used' = [used EXCEPT !.reuse = IF Pending(h) THEN @ + 1 ELSE @]
      /\ IF numhsts < Ypar
         THEN /\ Become(End(Calling([w EXCEPT !.link[h].st = "up"], u, h), u, how))
              /\ HostStatus("CONNT", h)
              /\ numhsts' = numhsts + 1
         ELSE /\ Become(End(Conerr(w, u, TRUE), u, how))
              /\ HostStatus("BUSYF", h)
              /\ UNCHANGED numhsts
      /\ UNCHANGED cq_statl
  BY <1>0 DEF ConnectHost
<1>2. h \in HostUser /\ h \in User /\ w.link[h].st = "none"
  <2>1. h \in free
    <3>1. free \subseteq HostUser OBVIOUS
    <3> HIDE DEF free
    <3> QED BY <1>0, <1>1, <3>1, FreeChannel
  <2> QED BY <2>1 DEF User
<1> HIDE DEF free, h0
<1>3. ~Pending(h) BY <1>1, SameUsed
<1>4. used' \in [gatewayCq : Nat, frmr : Nat, impatient : Nat, miscount : Nat, reuse : Nat]
  BY <1>1, <1>3 DEF IInv, TypeOK
<1>5. NoUid \notin User BY UserAssumption
<1>6. link[h].st = "none" BY <1>2, <1>5 DEF Ready
<1>7. ptc[h] = ClearCord BY <1>2, <1>3, <1>6 DEF IInv, HostInv
<1>8. ~Called(u) /\ ptc[u] # ClearCord BY ReadyUser
<1>9. h # u /\ h # p
  <2>1. h # p BY <1>2, <1>5, <1>7 DEF Ready, ClearCord
  <2> QED BY <1>7, <1>8, <2>1
<1>10. CASE numhsts < Ypar
  <2> DEFINE l == [w.link EXCEPT ![h].st = "up"]
             y == [w EXCEPT !.link[h].st = "up"]
             x == End(Calling(y, u, h), u, how)
             m == [op |-> "CONNT", h |-> h]
  <2>1. Become(x) /\ hstatl' = Append(hstatl, m) /\ numhsts' = numhsts + 1 BY <1>1, <1>10 DEF HostStatus
  <2>2. m \in StatusMessage /\ m.h = h /\ m.op = "CONNT" BY <1>2 DEF StatusMessage
  <2> HIDE DEF m
  <2>3. /\ y \in Worlds /\ y.ptc = w.ptc /\ y.cq = w.cq /\ y.link[h].st = "up"
        /\ \A z \in User \ {h} : y.link[z] = w.link[z]
    <3>1. w \in Worlds BY DEF Ready
    <3>2. l \in [User -> LinkEntry] /\ l[h].st = "up" /\ \A z \in User \ {h} : l[z] = w.link[z]
      BY <1>2, <3>1 DEF Worlds, LinkEntry
    <3>3. y = [w EXCEPT !.link = l] BY <3>1 DEF Worlds
    <3> HIDE DEF l, y
    <3> QED BY <3>1, <3>2, <3>3 DEF Worlds
  <2> HIDE DEF y
  <2>4. CallingPost(y, x, u, h, how) BY <1>2, <1>9, <2>3, CallingEffect
  <2> HIDE DEF x
  <2>5. w.ptc[h] = ptc[h] BY <1>2, <1>9 DEF Ready
  <2>6. /\ hstatl' \in Seq(StatusMessage)
        /\ \A z \in HostUser : Pending(z)' <=> Pending(z) \/ z = h
    BY <2>1, <2>2, AppendStatus DEF IInv
  <2>7. CallOf(w, u, p, x, h)
    BY <1>2, <1>7, <1>9, <2>3, <2>4, <2>5, <2>6 DEF CallOf, CallingPost, ClearCord
  <2> QED BY <1>1, <1>2, <1>3, <1>4, <1>6, <1>7, <1>9, <2>1, <2>7 DEF HostCallPost, m
<1>11. CASE ~(numhsts < Ypar)
  <2> DEFINE x == End(Conerr(w, u, TRUE), u, how)
             m == [op |-> "BUSYF", h |-> h]
  <2>1. Become(x) /\ hstatl' = Append(hstatl, m) /\ numhsts' = numhsts BY <1>1, <1>11 DEF HostStatus
  <2>2. m \in StatusMessage /\ m.h = h /\ m.op = "BUSYF" BY <1>2 DEF StatusMessage
  <2> HIDE DEF m
  <2>3. RefusalPost(w, x, u, how) BY RefusalEffect
  <2> HIDE DEF x
  <2> QED BY <1>1, <1>2, <1>3, <1>4, <1>6, <1>7, <1>9, <2>1, <2>3 DEF HostCallPost, m
<1> QED BY <1>10, <1>11

LEMMA ConnectHostStep ==
  ASSUME IInv, Limits, NEW w, NEW u \in User, NEW p, Ready(w, u, p), NEW how \in How,
         ConnectHost(w, u, how), link[u].st = "hth" => ~how.back,
         userhd' \subseteq userhd, turn' = turn
  PROVE  IInv'
<1>1. PICK h : HostCallPost(w, u, p, how, h) BY ConnectHostEffect
<1>2. /\ h \in HostUser /\ h \in User /\ ~Pending(h) /\ link[h].st = "none" /\ UNCHANGED cq_statl
      /\ used' \in [gatewayCq : Nat, frmr : Nat, impatient : Nat, miscount : Nat, reuse : Nat]
  BY <1>1 DEF HostCallPost
<1>3. ~Called(u) /\ ptc[u] # ClearCord BY ReadyUser
<1>4. CASE \E x : /\ CallOf(w, u, p, x, h) /\ Become(x)
                  /\ hstatl' = Append(hstatl, [op |-> "CONNT", h |-> h]) /\ numhsts' = numhsts + 1
  <2> DEFINE m == [op |-> "CONNT", h |-> h]
  <2>1. PICK x : CallOf(w, u, p, x, h) /\ Become(x) BY <1>4
  <2>2. m \in StatusMessage /\ m.h = h /\ m.op = "CONNT" /\ hstatl' = Append(hstatl, m) /\ numhsts' = numhsts + 1
    BY <1>2, <1>4 DEF StatusMessage
  <2> HIDE DEF m
  <2>6. /\ hstatl' \in Seq(StatusMessage)
        /\ \A z \in HostUser : Pending(z)' <=> Pending(z) \/ z = h
    BY <2>2, AppendStatus DEF IInv
  <2>8. /\ Core' /\ Rest(u, h) /\ Called(h)' /\ link'[u].st = link[u].st
        /\ link' \in [User -> LinkEntry] /\ ptc' \in [User -> Cord] /\ cq_user' \in Seq(User)
    BY <1>2, <2>1, <2>6, CallStep
  <2>9. link'[h].st = "up"
    <3>1. link' = x.link BY <2>1 DEF Become
    <3> QED BY <1>2, <2>1, <3>1 DEF CallOf
  <2>10. HostInv'
    <3>1. \A z \in HostUser : z \in User BY DEF User
    <3>2. \A z \in HostUser : z # h => /\ link'[z].st = link[z].st
                                       /\ Called(z) => Called(z)'
                                       /\ ptc[z] = ClearCord => ptc'[z] = ClearCord
      BY <1>3, <2>8, <3>1 DEF Rest
    <3> QED BY <1>2, <2>2, <2>8, <2>9, <3>2, HostAppend
  <2>11. TypeOK'
    <3>1. numhsts' \in Int BY <2>2 DEF IInv, TypeOK
    <3>2. cq_statl' = cq_statl BY <1>2
    <3> QED BY <1>2, <2>6, <2>8, <3>1, <3>2 DEF IInv, TypeOK
  <2> QED BY <2>8, <2>10, <2>11 DEF IInv, Core
<1>5. CASE \E x : /\ RefusalPost(w, x, u, how) /\ Become(x)
                  /\ hstatl' = Append(hstatl, [op |-> "BUSYF", h |-> h]) /\ numhsts' = numhsts
  <2> DEFINE m == [op |-> "BUSYF", h |-> h]
  <2>1. PICK x : RefusalPost(w, x, u, how) /\ Become(x) BY <1>5
  <2>2. m \in StatusMessage /\ m.h = h /\ m.op = "BUSYF" /\ hstatl' = Append(hstatl, m) /\ numhsts' = numhsts
    BY <1>2, <1>5 DEF StatusMessage
  <2> HIDE DEF m
  <2>4. /\ hstatl' \in Seq(StatusMessage)
        /\ \A z \in HostUser : Pending(z)' <=> Pending(z) \/ z = h
    BY <2>2, AppendStatus DEF IInv
  <2>5. Core' /\ Others(w, u) /\ link' \in [User -> LinkEntry] /\ ptc' \in [User -> Cord] /\ cq_user' \in Seq(User)
    BY <1>2, <2>1, <2>4, PromptStep DEF RefusalPost
  <2>6. \A v \in User : w.link[v].st = link[v].st BY UserAssumption DEF Ready
  <2>7. HostInv'
    <3>1. \A z \in HostUser : z \in User BY DEF User
    <3>2. \A z \in HostUser : z # h => /\ link'[z].st = link[z].st
                                       /\ Called(z) => Called(z)'
                                       /\ ptc[z] = ClearCord => ptc'[z] = ClearCord
      BY <1>3, <2>5, <2>6, <3>1 DEF Others
    <3>3. link'[h].st # "up" BY <1>2, <2>5, <2>6 DEF Others
    <3> QED BY <1>2, <2>2, <3>2, <3>3, HostAppend
  <2>8. TypeOK' BY <1>2, <2>2, <2>4, <2>5 DEF IInv, TypeOK
  <2> QED BY <2>5, <2>7, <2>8 DEF IInv, Core
<1> QED BY <1>1, <1>4, <1>5 DEF HostCallPost

LEMMA CcpquitStep ==
  ASSUME IInv, NEW w, NEW u \in User, NEW p, Ready(w, u, p), Ccpquit(w, u), link[u].st # "hth",
         userhd' \subseteq userhd, turn' = turn
  PROVE  IInv'
<1> DEFINE x == Disusr(w, u)
<1>1. Become(x) /\ UNCHANGED <<hstatl, numhsts, cq_statl, used>> BY DEF Ccpquit
<1>2. w \in Worlds /\ w.link[u] = link[u] /\ w.ptc[u].p = NoUid BY DEF Ready
<1>3. Within(w, x, {u}) /\ x.ptc = w.ptc /\ x.cq = w.cq BY <1>2, DisusrEffect
<1> HIDE DEF x
<1>4. /\ x \in Worlds
      /\ \A v \in User \ {u} : x.link[v] = w.link[v] /\ x.ptc[v] = w.ptc[v]
      /\ x.link[u].st = link[u].st
  BY <1>2, <1>3 DEF Within
<1> QED BY <1>1, <1>2, <1>3, <1>4, PromptInv

LEMMA CcpcqEffect ==
  ASSUME IInv, Limits, NEW w, NEW u \in User, NEW p, Ready(w, u, p), Ccpcq(w, u)
  PROVE  \E x : CqCallOf(w, u, x) /\ Become(x)
<1> DEFINE t == [w.ptc[u] EXCEPT !.ublk = "CQ", !.p = u, !.recflg = TRUE]
           x == [w EXCEPT !.cq = Append(@, u),
                          !.ptc[u] = [@ EXCEPT !.ublk = "CQ", !.p = u, !.recflg = TRUE]]
<1>1. Len(w.cq) < MaxCq /\ Become(x) /\ UNCHANGED <<hstatl, numhsts, cq_statl, used>> BY DEF Ccpcq
<1>2. w \in Worlds /\ w.link[u] = link[u] /\ w.ptc[u].p = NoUid BY DEF Ready
<1>3. w.cq = <<>>
  <2>1. w.cq \in Seq(User) /\ MaxCq \in Nat /\ MaxCq <= 1 BY <1>2, BoundAssumption DEF Worlds, Limits
  <2>2. Len(w.cq) = 0 BY <1>1, <2>1
  <2> QED BY <2>1, <2>2, EmptySeq
<1>4. t \in Cord /\ t.ublk = "CQ" /\ t.p = u /\ t.local = w.ptc[u].local
  BY <1>2 DEF Worlds, Cord
<1>5. x = [w EXCEPT !.cq = <<u>>, !.ptc = [w.ptc EXCEPT ![u] = t]] BY <1>2, <1>3 DEF Worlds
<1> HIDE DEF t, x
<1>6. /\ x \in Worlds /\ x.link = w.link /\ x.cq = <<u>> /\ x.ptc[u] = t
      /\ \A v \in User \ {u} : x.ptc[v] = w.ptc[v]
  <2>1. <<u>> \in Seq(User) OBVIOUS
  <2>2. [w.ptc EXCEPT ![u] = t] \in [User -> Cord] BY <1>2, <1>4 DEF Worlds
  <2> QED BY <1>2, <1>5, <2>1, <2>2 DEF Worlds
<1> QED BY <1>1, <1>2, <1>3, <1>4, <1>6 DEF CqCallOf

LEMMA CcpcqStep ==
  ASSUME IInv, Limits, NEW w, NEW u \in User, NEW p, Ready(w, u, p), Ccpcq(w, u), link[u].st # "hth",
         userhd' \subseteq userhd, turn' = turn
  PROVE  IInv'
<1>1. UNCHANGED <<hstatl, numhsts, cq_statl, used>> BY DEF Ccpcq
<1>2. PICK x : CqCallOf(w, u, x) /\ Become(x) BY CcpcqEffect
<1>7. \A h \in HostUser : Pending(h) => Pending(h)' BY <1>1 DEF Pending
<1>8. /\ Core' /\ Rest(u, NoUid) /\ link'[u].st = link[u].st
      /\ link' \in [User -> LinkEntry] /\ ptc' \in [User -> Cord] /\ cq_user' \in Seq(User)
  BY <1>1, <1>2, <1>7, CallCqStep
<1>9. HostInv'
  <2>1. ~Called(u) /\ ptc[u] # ClearCord BY ReadyUser
  <2>2. \A h \in HostUser : h \in User \ {NoUid} BY UserAssumption DEF User
  <2> QED BY <1>1, <1>8, <2>1, <2>2, HostSame DEF Rest
<1>10. TypeOK' BY <1>1, <1>8 DEF IInv, TypeOK
<1> QED BY <1>8, <1>9, <1>10 DEF IInv, Core

LEMMA AnswerEffect ==
  ASSUME NEW w, NEW u \in User, NEW p, Ready(w, u, p), NEW c \in User \ {u}, NEW how \in How,
         ~how.gateway, ConnectCq(w, u, c, how)
  PROVE  \E x : CqAnswerOf(w, u, p, x, c) /\ Become(x)
<1>1. PICK i \in DOMAIN w.cq : w.cq[i] = c /\ Become(End(Setptc([w EXCEPT !.cq = RemoveAt(@, i)], u, c), u, how))
  BY DEF ConnectCq
<1>3. /\ w \in Worlds /\ w.cq \in Seq(User) /\ Len(w.cq) <= 1 /\ c # p
      /\ ptc[c].ublk = "CQ" /\ ptc[c].p = c /\ w.link[u] = link[u] /\ w.link[c] = link[c] /\ w.ptc[c] = ptc[c]
  BY <1>1 DEF Ready, Worlds
<1>4. RemoveAt(w.cq, i) = <<>>
  <2>1. w.cq # <<>> BY <1>1
  <2>2. Len(w.cq) = 1 BY <1>3, <2>1, ShortSequence
  <2>3. i = 1 BY <1>1, <1>3, <2>2
  <2> QED BY <1>3, <2>2, <2>3 DEF RemoveAt
<1> DEFINE y == [w EXCEPT !.cq = RemoveAt(@, i)]
           s == Setptc(y, u, c)
           x == End(s, u, how)
<1>5. y \in Worlds /\ y.link = w.link /\ y.ptc = w.ptc /\ y.cq = <<>> BY <1>3, <1>4, EmptySeq DEF Worlds
<1>6. Become(x) BY <1>1
<1> HIDE DEF y
<1>7. SetptcPost(y, s, u, c) BY <1>5, SetptcEffect
<1> HIDE DEF s
<1>8. s \in Worlds BY <1>7 DEF SetptcPost
<1>9. EndPost(s, x, u, how) BY <1>8, EndEffect
<1> HIDE DEF x
<1>10. /\ x \in Worlds /\ x.link = w.link /\ x.cq = <<>>
       /\ \A v \in User \ {u, c} : x.ptc[v] = w.ptc[v]
       /\ x.ptc[u].p = c /\ x.ptc[u].ublk = w.ptc[u].ublk /\ x.ptc[u].local = w.ptc[u].local
       /\ x.ptc[c].p = u /\ x.ptc[c].ublk = "CQ"
       /\ x.ptc[c].local = ptc[c].local /\ x.ptc[c].recflg = ptc[c].recflg
  BY <1>3, <1>5, <1>7, <1>9 DEF SetptcPost, EndPost
<1> QED BY <1>3, <1>6, <1>10 DEF CqAnswerOf

(* The user answers the CQ of c with the last of his lines.                *)
LEMMA AnswerStep ==
  ASSUME IInv, NEW w, NEW u \in User, NEW p, Ready(w, u, p), NEW c \in User \ {u}, NEW how \in How,
         ~how.gateway, ConnectCq(w, u, c, how), link[u].st # "hth", turn = "l7rx",
         u \in userhd, c \notin userhd, userhd' = userhd \ {u}, UNCHANGED <<turn, used, numhsts>>
  PROVE  IInv'
<1>1. PICK x : CqAnswerOf(w, u, p, x, c) /\ Become(x) BY AnswerEffect
<1>2. cq_statl' = Append(cq_statl, <<u, c>>) /\ UNCHANGED <<hstatl, numhsts>> BY DEF ConnectCq
<1>11. \A h \in HostUser : Pending(h) => Pending(h)' BY <1>2 DEF Pending
<1>12. /\ Core' /\ Rest(u, c) /\ link'[u].st = link[u].st /\ link'[c].st = link[c].st
       /\ link' \in [User -> LinkEntry] /\ ptc' \in [User -> Cord] /\ cq_user' \in Seq(User)
  BY <1>1, <1>2, <1>11, AnswerCqStep
<1>13. HostInv'
  <2>1. ~Called(u) /\ ptc[u] # ClearCord BY ReadyUser
  <2>2. ~Called(c) /\ ptc[c] # ClearCord BY <1>1 DEF CqAnswerOf, Called, ClearCord
  <2>3. \A h \in HostUser : h \in User BY DEF User
  <2> QED BY <1>2, <1>12, <2>1, <2>2, <2>3, HostSame DEF Rest
<1>14. cq_statl' \in Seq(User \X User) BY <1>2 DEF IInv, TypeOK
<1>15. TypeOK' BY <1>2, <1>12, <1>14 DEF IInv, TypeOK
<1> QED BY <1>12, <1>13, <1>15 DEF IInv, Core

(* Any other command.                                                      *)
LEMMA OtherStep ==
  ASSUME IInv, NEW w, NEW u \in User, NEW p, Ready(w, u, p), Become(w), link[u].st # "hth",
         userhd' \subseteq userhd, UNCHANGED <<hstatl, numhsts, cq_statl, turn, used>>
  PROVE  IInv'
<1>1. /\ w \in Worlds /\ w.link[u] = link[u] /\ w.ptc[u].p = NoUid BY DEF Ready
<1> QED BY <1>1, PromptInv

LEMMA LineStep ==
  ASSUME IInv, Limits, NEW u \in User, NEW last \in BOOLEAN, Line(u, last)
  PROVE  IInv'
<1>1. PICK w : w = GivenUp(u) OBVIOUS
<1>2. /\ turn = "l7rx" /\ u \in userhd /\ ptc[u].ublk # "no" /\ turn' = turn
      /\ userhd' = IF last THEN userhd \ {u} ELSE userhd
      /\ \/ Become(w) /\ UNCHANGED <<hstatl, numhsts, cq_statl, used>>
         \/ Ccpquit(w, u)
         \/ Ccpcon(w, u, last)
         \/ Ccpcq(w, u)
  BY <1>1 DEF Line
<1>3. PICK p : Ready(w, u, p) BY <1>1, <1>2, GivenUpEffect
<1>4. link[u].st # "hth" BY <1>2 DEF IInv, LinkInv, LinkOk
<1>5. userhd' \subseteq userhd BY <1>2
<1>6. CASE Become(w) /\ UNCHANGED <<hstatl, numhsts, cq_statl, used>> BY <1>2, <1>3, <1>4, <1>5, <1>6, OtherStep
<1>7. CASE Ccpquit(w, u) BY <1>2, <1>3, <1>4, <1>5, <1>7, CcpquitStep
<1>8. CASE Ccpcq(w, u) BY <1>2, <1>3, <1>4, <1>5, <1>8, CcpcqStep
<1>9. CASE Ccpcon(w, u, last)
  <2>1. PICK back \in BOOLEAN :
          LET how == [back |-> back, gateway |-> FALSE] IN
          \/ \E v \in User : ConnectLink(w, u, v, how) /\ UNCHANGED <<used, numhsts>>
          \/ Refused(w, u, FALSE, how) /\ UNCHANGED <<used, numhsts>>
          \/ ConnectHost(w, u, how)
          \/ \E c \in User \ {u} :
               /\ ConnectCq(w, u, c, how)
               /\ IF last /\ c \notin userhd THEN UNCHANGED used
                  ELSE used.impatient < MaxImpatient
    BY <1>9 DEF Ccpcon, ConnectLink, Refused
  <2> DEFINE how == [back |-> back, gateway |-> FALSE]
  <2>2. how \in How /\ ~how.gateway BY DEF How
  <2> HIDE DEF how
  <2>3. CASE \E v \in User : ConnectLink(w, u, v, how) /\ UNCHANGED <<used, numhsts>>
    BY <1>2, <1>3, <1>4, <1>5, <2>2, <2>3, ConnectLinkStep
  <2>4. CASE Refused(w, u, FALSE, how) /\ UNCHANGED <<used, numhsts>>
    BY <1>2, <1>3, <1>4, <1>5, <2>2, <2>4, RefusedStep
  <2>5. CASE ConnectHost(w, u, how)
    BY <1>2, <1>3, <1>4, <1>5, <2>2, <2>5, ConnectHostStep
  <2>6. CASE \E c \in User \ {u} :
               /\ ConnectCq(w, u, c, how)
               /\ IF last /\ c \notin userhd THEN UNCHANGED used
                  ELSE used.impatient < MaxImpatient
    <3>1. PICK c \in User \ {u} :
               /\ ConnectCq(w, u, c, how)
               /\ IF last /\ c \notin userhd THEN UNCHANGED used
                  ELSE used.impatient < MaxImpatient
      BY <2>6
    <3>2. last /\ c \notin userhd /\ UNCHANGED used BY <3>1, SameUsed
    <3>3. UNCHANGED numhsts BY <3>1 DEF ConnectCq
    <3> QED BY <1>2, <1>3, <1>4, <2>2, <3>1, <3>2, <3>3, AnswerStep
  <2> QED BY <2>1, <2>3, <2>4, <2>5, <2>6 DEF how
<1> QED BY <1>2, <1>6, <1>7, <1>8, <1>9

LEMMA GatewayStep ==
  ASSUME IInv, Limits, NEW u \in User, Gateway(u)
  PROVE  IInv'
<1> DEFINE w == [World EXCEPT !.ptc[u].local = TRUE]
           how == [back |-> FALSE, gateway |-> TRUE]
<1>1. /\ turn = "l7tx" /\ ptc[u].ublk = "DIG" /\ UNCHANGED <<userhd, turn>>
      /\ \/ \E v \in User : ConnectLink(w, u, v, how) /\ UNCHANGED <<used, numhsts>>
         \/ \E reject \in BOOLEAN : Refused(w, u, reject, how) /\ UNCHANGED <<used, numhsts>>
         \/ ConnectHost(w, u, how)
         \/ used.gatewayCq < MaxGatewayCq
  BY DEF Gateway, ConnectLink, Refused
<1>2. Ready(w, u, NoUid) BY <1>1, GatewayReady
<1>3. how \in How /\ ~how.back BY DEF How
<1> HIDE DEF w, how
<1>4. CASE \E v \in User : ConnectLink(w, u, v, how) /\ UNCHANGED <<used, numhsts>>
  BY <1>1, <1>2, <1>3, <1>4, ConnectLinkStep
<1>5. CASE \E reject \in BOOLEAN : Refused(w, u, reject, how) /\ UNCHANGED <<used, numhsts>>
  BY <1>1, <1>2, <1>3, <1>5, RefusedStep
<1>6. CASE ConnectHost(w, u, how) BY <1>1, <1>2, <1>3, <1>6, ConnectHostStep
<1>7. ~(used.gatewayCq < MaxGatewayCq) BY SameUsed
<1> QED BY <1>1, <1>4, <1>5, <1>6, <1>7

-----------------------------------------------------------------------------
LEMMA NextIInv ==
  ASSUME IInv, Limits, [Next]_vars
  PROVE  IInv'
<1>1. ASSUME NEW u \in User, NEW ok \in BOOLEAN, NEW hth \in BOOLEAN, NEW dig \in BOOLEAN, Incoming(u, hth, dig, ok)
      PROVE  IInv'
  BY <1>1, IncomingStep
<1>2. ASSUME NEW u \in User, NEW ok \in BOOLEAN, Established(u, ok) PROVE IInv'
  BY <1>2, EstablishedStep
<1>3. ASSUME NEW u \in User, NEW ok \in BOOLEAN, NEW op \in {"DISCF", "BUSYF", "FAILW"}, Down(u, op, ok) PROVE IInv'
  BY <1>3, DownStep
<1>4. ASSUME NEW u \in User, AnswerHth(u) \/ Input(u) \/ DropLine(u) \/ Gateway(u) PROVE IInv'
  BY <1>4, AnswerHthStep, InputStep, DropLineStep, GatewayStep
<1>5. ASSUME NEW u \in User, NEW last \in BOOLEAN, Line(u, last) PROVE IInv'
  BY <1>5, LineStep
<1>6. ASSUME NEW h \in HostUser, HostConnect(h) \/ HostDisconnect(h) PROVE IInv'
  BY <1>6, HostConnectStep, HostDisconnectStep
<1>7. ASSUME NEW ok \in BOOLEAN, HostMessage(ok) \/ JoinCq(ok) PROVE IInv'
  BY <1>7, HostMessageStep, JoinCqStep
<1>8. CASE Pass BY <1>8, PassStep
<1>9. CASE UNCHANGED vars
  BY <1>9 DEF vars, IInv, TypeOK, LinkInv, LinkOk, Called, CordInv, CordOk, Joined, CqInv, AnswerInv,
              HostInv, MessageInv, Pending, NobodyAlone, Partner
<1> QED BY <1>1, <1>2, <1>3, <1>4, <1>5, <1>6, <1>7, <1>8, <1>9 DEF Next

LEMMA SpecIInv == ASSUME Limits PROVE Spec => []IInv
<1>1. Init => IInv BY InitIInv
<1>2. IInv /\ [Next]_vars => IInv' BY NextIInv
<1> QED BY <1>1, <1>2, PTL DEF Spec

LEMMA ImpliedIInv ==
  ASSUME IInv
  PROVE  CordsAgree /\ NoGhost /\ CallHasPartner
<1>1. NoUid \notin User BY UserAssumption
<1>2. CordsAgree
  <2> SUFFICES ASSUME NEW u \in User, Partner(u) # NoUid PROVE ptc[Partner(u)].p = u BY DEF CordsAgree
  <2>1. CordOk(u) BY DEF IInv, CordInv
  <2> QED BY <2>1 DEF CordOk, Partner
<1>3. NoGhost
  <2> SUFFICES ASSUME NEW u \in User, ptc[u].ublk # "no" PROVE Present(u) BY DEF NoGhost
  <2>1. LinkOk(u) BY DEF IInv, LinkInv
  <2>2. ptc[u] # ClearCord BY DEF ClearCord
  <2> QED BY <2>1, <2>2 DEF Present, LinkOk, IInv, HostInv
<1>4. CallHasPartner
  <2> SUFFICES ASSUME NEW u \in User, u \in userhd, ptc[u].ublk = "CREQ" PROVE ptc[u].p # NoUid BY DEF CallHasPartner
  <2>1. CordOk(u) BY DEF IInv, CordInv
  <2> QED BY <2>1 DEF CordOk
<1> QED BY <1>2, <1>3, <1>4

(* The partner of my partner is me, whatever calls, answers to a CQ, ends  *)
(* of links and reports of the console come in which order: l7tx() never   *)
(* hands data of one user to somebody whose data goes elsewhere.           *)
THEOREM CordsAlwaysAgree == ASSUME Limits PROVE Spec => []CordsAgree
<1>1. IInv => CordsAgree BY ImpliedIInv
<1> QED BY <1>1, SpecIInv, PTL

(* Whoever is connected and not about to be disconnected is at the prompt, *)
(* patched through, or a channel of which level 7 is still to hear:        *)
(* l2tol7() forgets nobody on the way between the two.                     *)
THEOREM NobodyEverAlone == ASSUME Limits PROVE Spec => []NobodyAlone
<1>1. IInv => NobodyAlone BY DEF IInv
<1> QED BY <1>1, SpecIInv, PTL

(* A user block is given back when its user goes, in whatever state he is  *)
(* (clrccp() in l2tol7()).                                                 *)
THEOREM NoUserBlockLeft == ASSUME Limits PROVE Spec => []NoGhost
<1>1. IInv => NoGhost BY ImpliedIInv
<1> QED BY <1>1, SpecIInv, PTL

(* When l7rx() gives up the call of a user whose next line it reads, the   *)
(* partner that it disconnects is an entry of the table.                   *)
THEOREM CallsHavePartners == ASSUME Limits PROVE Spec => []CallHasPartner
<1>1. IInv => CallHasPartner BY ImpliedIInv
<1> QED BY <1>1, SpecIInv, PTL

-----------------------------------------------------------------------------
(***************************************************************************)
(* Level 7 implements L7Board: every step of L7Patch is, for the stations  *)
(* that are up and the pairs that are through to each other, a coming, a   *)
(* going or a joining of free stations, or changes nothing.                *)
(*                                                                         *)
(* A user is Quiet in a step that leaves what matters of his entry alone,  *)
(* or before and after which he talks to nobody.  When all are quiet the   *)
(* step is a stutter; when one or two are not it is one of the three steps *)
(* of the board (MeetStep, ComeStep, GoStep).                              *)
(***************************************************************************)

Idle(u) == \A v \in User : ~Talking(u, v)

Kept(u) ==
  /\ ptc'[u].p = ptc[u].p
  /\ ptc'[u].ublk = "no" <=> ptc[u].ublk = "no"
  /\ link'[u].st = "up" <=> link[u].st = "up"

(* The step makes u neither come nor go.                                   *)
Stays(u) == link'[u].st = "up" <=> link[u].st = "up"

Quiet(u) == Stays(u) /\ (Kept(u) \/ (Idle(u) /\ Idle(u)'))

LEMMA TalkingSymmetric == ASSUME NEW u, NEW v PROVE Talking(u, v) <=> Talking(v, u)
BY DEF Talking

LEMMA QuietTalk ==
  ASSUME NEW u \in User, NEW v \in User, Quiet(u), Quiet(v)
  PROVE  Talking(u, v)' <=> Talking(u, v)
<1>1. CASE Kept(u) /\ Kept(v) BY <1>1 DEF Kept, Talking
<1>2. CASE Idle(u) /\ Idle(u)' BY <1>2 DEF Idle
<1>3. CASE Idle(v) /\ Idle(v)'
  <2>1. ~Talking(v, u) /\ ~Talking(v, u)' BY <1>3 DEF Idle
  <2> QED BY <2>1 DEF Talking
<1> QED BY <1>1, <1>2, <1>3 DEF Quiet

(* The state of the board.                                                 *)
here == {u \in User : link[u].st = "up"}
patch == {{e[1], e[2]} : e \in {x \in User \X User : Talking(x[1], x[2])}}

LEMMA PatchPairs ==
  /\ \A u, v \in User : Talking(u, v) => {u, v} \in patch
  /\ \A q \in patch : \E u, v \in User : Talking(u, v) /\ q = {u, v}
<1> DEFINE E == {x \in User \X User : Talking(x[1], x[2])}
<1>1. ASSUME NEW u \in User, NEW v \in User, Talking(u, v) PROVE {u, v} \in patch
  <2>1. <<u, v>> \in E BY <1>1
  <2> QED BY <2>1 DEF patch
<1>2. ASSUME NEW q \in patch PROVE \E u, v \in User : Talking(u, v) /\ q = {u, v}
  <2>1. PICK e \in E : q = {e[1], e[2]} BY DEF patch
  <2> QED BY <2>1
<1> QED BY <1>1, <1>2

LEMMA PatchPrime ==
  /\ \A u, v \in User : Talking(u, v)' => {u, v} \in patch'
  /\ \A q \in patch' : \E u, v \in User : Talking(u, v)' /\ q = {u, v}
<1> DEFINE E == {x \in User \X User : Talking(x[1], x[2])'}
<1>1. ASSUME NEW u \in User, NEW v \in User, Talking(u, v)' PROVE {u, v} \in patch'
  <2>1. <<u, v>> \in E BY <1>1
  <2> QED BY <2>1 DEF patch
<1>2. ASSUME NEW q \in patch' PROVE \E u, v \in User : Talking(u, v)' /\ q = {u, v}
  <2>1. PICK e \in E : q = {e[1], e[2]} BY DEF patch
  <2> QED BY <2>1
<1> QED BY <1>1, <1>2

(* Board!Next, spelled out for here and patch.                             *)
BoardNext ==
  \/ \E s \in User :
       /\ s \notin here /\ here' = here \cup {s}
       /\ patch' = patch \/ \E t \in here : (\A q \in patch : t \notin q) /\ patch' = patch \cup {{s, t}}
  \/ \E s, t \in here : /\ s # t /\ (\A q \in patch : s \notin q /\ t \notin q)
                        /\ patch' = patch \cup {{s, t}} /\ here' = here
  \/ \E s \in here : here' = here \ {s} /\ patch' = {q \in patch : s \notin q}
  \/ here' = here /\ patch' = patch

LEMMA BoardVars == ASSUME BoardNext PROVE [Board!Next]_(Board!vars)
<1>1. ASSUME NEW s \in User, s \notin here, here' = here \cup {s}, patch' = patch PROVE Board!Come(s)
  BY <1>1 DEF here, patch, Board!Come
<1>2. ASSUME NEW s \in User, s \notin here, here' = here \cup {s}, NEW t \in here,
             \A q \in patch : t \notin q, patch' = patch \cup {{s, t}}
      PROVE  Board!Come(s)
  BY <1>2 DEF here, patch, Board!Come, Board!Free
<1>3. ASSUME NEW s \in here, NEW t \in here, s # t, \A q \in patch : s \notin q /\ t \notin q,
             patch' = patch \cup {{s, t}}, here' = here
      PROVE  Board!Join(s, t)
  BY <1>3 DEF here, patch, Board!Join, Board!Free
<1>4. ASSUME NEW s \in here, here' = here \ {s}, patch' = {q \in patch : s \notin q}
      PROVE  Board!Go(s)
  BY <1>4 DEF here, patch, Board!Go
<1>5. CASE here' = here /\ patch' = patch BY <1>5 DEF here, patch, Board!vars
<1>6. here \subseteq User BY DEF here
<1> QED BY <1>1, <1>2, <1>3, <1>4, <1>5, <1>6 DEF BoardNext, Board!Next

LEMMA StutterStep ==
  ASSUME \A u \in User : Quiet(u)
  PROVE  here' = here /\ patch' = patch
<1>1. here' = here BY DEF here, Quiet, Stays
<1>2. \A u, v \in User : Talking(u, v)' <=> Talking(u, v) BY QuietTalk
<1>3. patch' = patch
  <2> DEFINE E == {x \in User \X User : Talking(x[1], x[2])}
  <2>1. E' = E BY <1>2
  <2> QED BY <2>1 DEF patch
<1> QED BY <1>1, <1>3

(* u, who is or comes up, is through to p, or to nobody if p is NoUid.     *)
LEMMA MeetStep ==
  ASSUME NEW u \in User, NEW p \in (User \ {u}) \cup {NoUid},
         link[u].st = "up" => link'[u].st = "up",
         Idle(u), ptc'[u].p = p,
         p # NoUid => Idle(p) /\ Stays(p) /\ ptc'[p].p = u,
         \A v \in User \ {u, p} : Quiet(v)
  PROVE  BoardNext
<1>0. NoUid \notin User BY UserAssumption
<1>1. \A v \in User \ {u} : Stays(v) BY <1>0 DEF Quiet
<1>2. ASSUME NEW x \in User, NEW y \in User, {x, y} # {u, p} PROVE Talking(x, y)' <=> Talking(x, y)
  <2>1. CASE x \notin {u, p} /\ y \notin {u, p} BY <2>1, QuietTalk
  <2>2. CASE x \in {u, p} \/ y \in {u, p}
    <3>1. ~Talking(x, y)
      BY <1>0, <2>2, TalkingSymmetric DEF Idle
    <3>2. ~Talking(x, y)' BY <1>0, <1>2, <2>2 DEF Talking
    <3> QED BY <3>1, <3>2
  <2> QED BY <2>1, <2>2
<1>3. patch' = patch \cup {q \in {{u, p}} : p # NoUid /\ Talking(u, p)'}
  <2>1. ASSUME NEW q \in patch' PROVE q \in patch \/ (q = {u, p} /\ p # NoUid /\ Talking(u, p)')
    <3>1. PICK x, y \in User : Talking(x, y)' /\ q = {x, y} BY PatchPrime
    <3>2. CASE q # {u, p} BY <1>2, <3>1, <3>2, PatchPairs
    <3>3. CASE q = {u, p} BY <1>0, <3>1, <3>3 DEF Talking
    <3> QED BY <3>2, <3>3
  <2>2. ASSUME NEW q \in patch PROVE q \in patch'
    <3>1. PICK x, y \in User : Talking(x, y) /\ q = {x, y} BY PatchPairs
    <3>2. {x, y} # {u, p} BY <3>1, TalkingSymmetric DEF Idle
    <3> QED BY <1>2, <3>1, <3>2, PatchPrime
  <2>3. p # NoUid /\ Talking(u, p)' => {u, p} \in patch' BY PatchPrime
  <2> QED BY <2>1, <2>2, <2>3
<1>4. \A s \in User : Idle(s) => \A q \in patch : s \notin q
  BY PatchPairs, TalkingSymmetric DEF Idle
<1>5. CASE link'[u].st # "up"
  <2>1. here' = here BY <1>1, <1>5 DEF here, Stays
  <2>2. ~Talking(u, p)' BY <1>5 DEF Talking
  <2> QED BY <1>3, <2>1, <2>2 DEF BoardNext
<1>6. CASE link'[u].st = "up" /\ link[u].st # "up"
  <2>1. here' = here \cup {u} /\ u \notin here BY <1>1, <1>6 DEF here, Stays
  <2>2. Talking(u, p)' /\ p # NoUid => p \in here /\ \A q \in patch : p \notin q
    <3>1. Talking(u, p)' /\ p # NoUid => link[p].st = "up" BY DEF Talking, Stays
    <3> QED BY <1>4, <3>1 DEF here
  <2> QED BY <1>3, <2>1, <2>2 DEF BoardNext
<1>7. CASE link'[u].st = "up" /\ link[u].st = "up"
  <2>1. here' = here /\ u \in here BY <1>1, <1>7 DEF here, Stays
  <2>2. CASE p # NoUid /\ Talking(u, p)'
    <3>1. p \in here BY <2>2 DEF here, Talking, Stays
    <3>2. \A q \in patch : u \notin q /\ p \notin q BY <1>4, <2>2
    <3> QED BY <1>3, <2>1, <2>2, <3>1, <3>2 DEF BoardNext
  <2>3. CASE ~(p # NoUid /\ Talking(u, p)')
    BY <1>3, <2>1, <2>3 DEF BoardNext
  <2> QED BY <2>2, <2>3
<1> QED BY <1>5, <1>6, <1>7

(* u comes and is through to nobody.                                       *)
LEMMA ComeStep ==
  ASSUME NEW u \in User, link[u].st # "up", link'[u].st = "up", Idle(u)',
         \A v \in User \ {u} : Quiet(v)
  PROVE  BoardNext
<1>1. here' = here \cup {u} /\ u \notin here BY DEF here, Quiet, Stays
<1>2. Idle(u) BY DEF Idle, Talking
<1>3. ASSUME NEW x \in User, NEW y \in User PROVE Talking(x, y)' <=> Talking(x, y)
  <2>1. CASE x = u BY <1>2, <2>1 DEF Idle
  <2>2. CASE y = u
    <3>1. ~Talking(y, x) /\ ~Talking(y, x)' BY <1>2, <2>2 DEF Idle
    <3> QED BY <3>1 DEF Talking
  <2>3. CASE x # u /\ y # u BY <2>3, QuietTalk
  <2> QED BY <2>1, <2>2, <2>3
<1>4. patch' = patch
  <2> DEFINE E == {x \in User \X User : Talking(x[1], x[2])}
  <2>1. E' = E BY <1>3
  <2> QED BY <2>1 DEF patch
<1> QED BY <1>1, <1>4 DEF BoardNext

(* u goes: whoever was through to it is through to nobody.                 *)
LEMMA GoStep ==
  ASSUME NEW u \in User, link[u].st = "up", link'[u].st # "up",
         \A v \in User \ {u} :
           Stays(v) /\ (Kept(v) \/ (Idle(v)' /\ \A y \in User \ {u} : ~Talking(v, y)))
  PROVE  BoardNext
<1>1. here' = here \ {u} /\ u \in here BY DEF here, Stays
<1>2. ASSUME NEW x \in User \ {u}, NEW y \in User \ {u} PROVE Talking(x, y)' <=> Talking(x, y)
  <2>1. CASE Kept(x) /\ Kept(y) BY <2>1 DEF Kept, Talking
  <2>2. CASE Idle(x)' /\ ~Talking(x, y) BY <2>2 DEF Idle
  <2>3. CASE Idle(y)' /\ ~Talking(y, x)
    <3>1. ~Talking(y, x)' BY <2>3 DEF Idle
    <3> QED BY <2>3, <3>1 DEF Talking
  <2> QED BY <2>1, <2>2, <2>3
<1>3. \A x \in User : ~Talking(u, x)' /\ ~Talking(x, u)' BY DEF Talking
<1>4. patch' = {q \in patch : u \notin q}
  <2>1. ASSUME NEW q \in patch' PROVE q \in patch /\ u \notin q
    <3>1. PICK x, y \in User : Talking(x, y)' /\ q = {x, y} BY PatchPrime
    <3>2. x # u /\ y # u BY <1>3, <3>1
    <3> QED BY <1>2, <3>1, <3>2, PatchPairs
  <2>2. ASSUME NEW q \in patch, u \notin q PROVE q \in patch'
    <3>1. PICK x, y \in User : Talking(x, y) /\ q = {x, y} BY PatchPairs
    <3> QED BY <1>2, <2>2, <3>1, PatchPrime
  <2> QED BY <2>1, <2>2
<1> QED BY <1>1, <1>4 DEF BoardNext

(* Who has a user block or no partner, or whose partner has one, does not  *)
(* talk.                                                                   *)
LEMMA IdleUser ==
  ASSUME NEW u \in User,
         \/ ptc[u].ublk # "no" \/ link[u].st # "up" \/ ptc[u].p = NoUid
         \/ ptc[u].p # NoUid /\ (ptc[ptc[u].p].ublk # "no" \/ link[ptc[u].p].st # "up")
  PROVE  Idle(u)
BY UserAssumption DEF Idle, Talking

LEMMA IdleUserPrime ==
  ASSUME NEW u \in User,
         ptc'[u].ublk # "no" \/ link'[u].st # "up" \/ ptc'[u].p = NoUid
  PROVE  Idle(u)'
BY UserAssumption DEF Idle, Talking

-----------------------------------------------------------------------------
(* The actions of the lower levels and of the console.                     *)

LEMMA ConnectedBoard ==
  ASSUME IInv, NEW u \in User, NEW w, At(w, u), NEW dig \in BOOLEAN, NEW ok \in BOOLEAN,
         Become(Connected(w, u, dig, ok)), Called(u),
         link[u].st = "up" => w.link[u].st = "up"
  PROVE  BoardNext
<1> DEFINE x == Connected(w, u, dig, ok)
<1>0. PICK p : p = ptc[u].p OBVIOUS
<1>1. w \in Worlds /\ w.ptc = ptc /\ w.cq = cq_user /\ Symmetric(w) /\ Len(w.cq) <= 1
  BY DEF At, IInv, CordInv, CordOk, CqInv, Symmetric
<1>2. /\ ptc[u].ublk = "no" /\ p # u /\ (p # NoUid => ptc[p].ublk = "CREQ" /\ ptc[p].p = u)
      /\ p \in User \cup {NoUid} /\ NoUid \notin User
  BY <1>0, UserAssumption DEF IInv, TypeOK, Called, CordInv, CordOk, Cord
<1>3. ConnectedPost(w, x, u, dig, ok) BY <1>0, <1>1, <1>2, ConnectedEffect
<1>4. link' = x.link /\ ptc' = x.ptc BY DEF Become
<1> HIDE DEF x
<1>5. /\ \A v \in User \ {u, p} : link'[v] = link[v] /\ ptc'[v] = ptc[v]
      /\ \A v \in User : link'[v].st = w.link[v].st
      /\ \A v \in User : ptc'[v].p = ptc[v].p
  BY <1>0, <1>1, <1>3, <1>4 DEF At, ConnectedPost, Within, SamePartners
<1>6. Idle(u) /\ (p # NoUid => Idle(p)) BY <1>0, <1>2, IdleUser
<1>7. p # NoUid => Stays(p) /\ ptc'[p].p = u BY <1>2, <1>5 DEF At, Stays
<1>8. \A v \in User \ {u, p} : Quiet(v) BY <1>5 DEF Quiet, Kept, Stays
<1>9. link[u].st = "up" => link'[u].st = "up" BY <1>5
<1>10. p \in (User \ {u}) \cup {NoUid} /\ ptc'[u].p = p BY <1>0, <1>2, <1>5
<1> QED BY <1>6, <1>7, <1>8, <1>9, <1>10, MeetStep

LEMMA DisconnectedBoard ==
  ASSUME IInv, NEW u \in User, NEW w, At(w, u), NEW op, NEW ok \in BOOLEAN,
         Become(Disconnected(w, op, u, ok)), w.link[u].st = "none"
  PROVE  BoardNext
<1> DEFINE x == Disconnected(w, op, u, ok)
<1>0. PICK p : p = ptc[u].p OBVIOUS
<1>1. w \in Worlds /\ w.ptc = ptc /\ w.cq = cq_user /\ Symmetric(w) /\ Len(w.cq) <= 1
  BY DEF At, IInv, CordInv, CordOk, CqInv, Symmetric
<1>2. /\ p \in User \cup {NoUid} /\ (p = u => ptc[u].ublk = "CQ")
      /\ (p # NoUid => ptc[p].p = u) /\ NoUid \notin User
  BY <1>0, UserAssumption DEF IInv, TypeOK, Cord, CordInv, CordOk
<1>3. DisconnectedPost(w, x, u, ok) BY <1>0, <1>1, <1>2, DisconnectedEffect
<1>4. link' = x.link /\ ptc' = x.ptc BY DEF Become
<1> HIDE DEF x
<1>5. /\ ptc'[u] = ClearCord /\ link'[u].st = "none"
      /\ \A v \in User \ {u, p} : link'[v] = link[v] /\ ptc'[v] = ptc[v]
      /\ \A v \in User \ {u} : link'[v].st = link[v].st
      /\ p \notin {u, NoUid} => ptc'[p].p = NoUid
  BY <1>0, <1>1, <1>3, <1>4 DEF DisconnectedPost, At
<1>6. \A v \in User \ {u} : Stays(v) BY <1>5 DEF Stays
<1>7. \A v \in User \ {u, p} : Kept(v) BY <1>5 DEF Kept
<1>8. p \notin {u, NoUid} => Idle(p)' /\ \A y \in User \ {u} : ~Talking(p, y)
  BY <1>2, <1>5, IdleUserPrime DEF Talking
<1>9. CASE link[u].st = "up"
  <2>1. link'[u].st # "up" BY <1>5
  <2> QED BY <1>2, <1>6, <1>7, <1>8, <1>9, <2>1, GoStep
<1>10. CASE link[u].st # "up"
  <2>1. Quiet(u)
    <3>1. Idle(u) BY <1>10, IdleUser
    <3>2. Idle(u)' BY <1>5, IdleUserPrime
    <3> QED BY <1>5, <1>10, <3>1, <3>2 DEF Quiet, Stays
  <2>2. p \notin {u, NoUid} => Quiet(p)
    <3>1. p \notin {u, NoUid} => Idle(p) BY <1>2, <1>10, IdleUser
    <3> QED BY <1>2, <1>6, <1>8, <3>1 DEF Quiet
  <2>3. \A v \in User : Quiet(v) BY <1>2, <1>6, <1>7, <2>1, <2>2 DEF Quiet
  <2> QED BY <2>3, StutterStep DEF BoardNext
<1> QED BY <1>9, <1>10

LEMMA IncomingBoard ==
  ASSUME IInv, NEW u \in User, NEW hth \in BOOLEAN, NEW dig \in BOOLEAN, NEW ok \in BOOLEAN,
         Incoming(u, hth, dig, ok)
  PROVE  BoardNext
<1> DEFINE w == [World EXCEPT !.link[u] = [NoLink EXCEPT !.st = IF hth THEN "hth" ELSE "up"]]
<1>1. u \in L2User \cup L4User /\ link[u].st = "none" /\ Become(Connected(w, u, dig, ok))
  BY DEF Incoming
<1>2. At(w, u) BY DEF At, IInv, TypeOK, World, Worlds, NoLink, LinkEntry
<1> HIDE DEF w
<1>3. u \notin HostUser BY <1>1, UserAssumption
<1>4. Called(u)
  <2>1. ptc[u] = ClearCord BY <1>1, <1>3 DEF IInv, LinkInv, LinkOk
  <2> QED BY <2>1 DEF Called, ClearCord
<1> QED BY <1>1, <1>2, <1>4, ConnectedBoard

LEMMA EstablishedBoard ==
  ASSUME IInv, NEW u \in User, NEW ok \in BOOLEAN, Established(u, ok)
  PROVE  BoardNext
<1> DEFINE w == [World EXCEPT !.link[u].st = "up"]
<1>1. link[u].st = "setup" /\ Become(Connected(w, u, FALSE, ok)) BY DEF Established
<1>2. w.link[u].st = "up" /\ At(w, u)
  <2> DEFINE l == [link EXCEPT ![u].st = "up"]
  <2>1. l \in [User -> LinkEntry] /\ l[u].st = "up" /\ \A v \in User : v # u => l[v] = link[v]
    BY DEF IInv, TypeOK, LinkEntry
  <2>2. w = [link |-> l, ptc |-> ptc, cq |-> cq_user] BY DEF World
  <2> HIDE DEF l, w
  <2> QED BY <2>1, <2>2 DEF At, Worlds, IInv, TypeOK
<1> HIDE DEF w
<1>3. Called(u) BY <1>1 DEF IInv, LinkInv, LinkOk
<1> QED BY <1>1, <1>2, <1>3, ConnectedBoard

LEMMA DownBoard ==
  ASSUME IInv, NEW u \in User, NEW op \in {"DISCF", "BUSYF", "FAILW"}, NEW ok \in BOOLEAN, Down(u, op, ok)
  PROVE  BoardNext
<1> DEFINE w == [World EXCEPT !.link[u] = NoLink]
<1>1. Become(IF u \in L2User /\ link[u].st = "setup" /\ op = "DISCF"
             THEN w ELSE Disconnected(w, op, u, ok))
  BY DEF Down
<1>2. w.link[u].st = "none" /\ At(w, u)
  BY LinkFields DEF At, IInv, TypeOK, World, Worlds, NoLink
<1> HIDE DEF w
<1>3. CASE u \in L2User /\ link[u].st = "setup" /\ op = "DISCF"
  <2>1. link' = w.link /\ ptc' = w.ptc BY <1>1, <1>3 DEF Become
  <2>2. \A v \in User : Stays(v) /\ Kept(v) BY <1>2, <1>3, <2>1 DEF At, Stays, Kept
  <2> QED BY <2>2, StutterStep DEF BoardNext, Quiet
<1>4. CASE ~(u \in L2User /\ link[u].st = "setup" /\ op = "DISCF")
  <2>1. Become(Disconnected(w, op, u, ok)) BY <1>1, <1>4
  <2> QED BY <1>2, <2>1, DisconnectedBoard
<1> QED BY <1>3, <1>4

LEMMA HostMessageBoard ==
  ASSUME IInv, NEW ok \in BOOLEAN, HostMessage(ok)
  PROVE  BoardNext
<1>0. PICK m : m = Head(hstatl) OBVIOUS
<1>1. PICK u : u = m.h OBVIOUS
<1>2. /\ hstatl # <<>>
      /\ Become(IF m.op = "CONNT" THEN Connected(World, u, FALSE, ok)
                ELSE Disconnected(World, m.op, u, ok))
  BY <1>0, <1>1 DEF HostMessage
<1>3. 1 \in DOMAIN hstatl /\ m = hstatl[1] BY <1>0, <1>2, TailFacts DEF IInv, TypeOK
<1>4. u \in HostUser /\ u \in User /\ MessageInv(1)
  BY <1>1, <1>3, StatusFields DEF IInv, HostInv, User
<1>5. At(World, u) /\ World.link[u] = link[u] BY DEF At, World, Worlds, IInv, TypeOK
<1>6. CASE m.op = "CONNT"
  <2>1. Called(u) BY <1>1, <1>3, <1>4, <1>6 DEF MessageInv
  <2>2. Become(Connected(World, u, FALSE, ok)) BY <1>2, <1>6
  <2> QED BY <1>4, <1>5, <2>1, <2>2, ConnectedBoard
<1>7. CASE m.op # "CONNT"
  <2>1. link[u].st = "none" BY <1>1, <1>3, <1>4, <1>7 DEF MessageInv, IInv, LinkInv, LinkOk
  <2>2. Become(Disconnected(World, m.op, u, ok)) BY <1>2, <1>7
  <2> QED BY <1>4, <1>5, <2>1, <2>2, DisconnectedBoard
<1> QED BY <1>6, <1>7

LEMMA AnswerHthBoard ==
  ASSUME IInv, NEW u \in User, AnswerHth(u)
  PROVE  BoardNext
<1>0. PICK p : p = ptc[u].p OBVIOUS
<1>1. /\ ptc' = ptc /\ u \in L2User
      /\ \A v \in User \ {u} : link'[v] = link[v]
      /\ link'[u].st = IF Hth(World, u) /\ link[u].ack THEN "up" ELSE link[u].st
  BY DEF AnswerHth, IInv, TypeOK, LinkEntry
<1>2. CASE link'[u].st = link[u].st
  <2>1. \A v \in User : Stays(v) /\ Kept(v) BY <1>1, <1>2 DEF Stays, Kept
  <2> QED BY <2>1, StutterStep DEF BoardNext, Quiet
<1>3. CASE link'[u].st # link[u].st
  <2>1. link[u].st = "hth" /\ link'[u].st = "up" BY <1>1, <1>3 DEF Hth, World
  <2>2. NoUid \notin User BY UserAssumption
  <2>3. p \in User \cup {NoUid} /\ (p = u => ptc[u].ublk = "CQ") /\ (p # NoUid => ptc[p].p = u)
    BY <1>0, <2>2 DEF IInv, TypeOK, Cord, CordInv, CordOk
  <2>4. Idle(u) BY <2>1, IdleUser
  <2>5. \A v \in User \ {u} : Stays(v) /\ Kept(v) BY <1>1 DEF Stays, Kept
  <2>6. CASE p # u
    <3>1. p # NoUid => Idle(p) BY <2>1, <2>2, <2>3, <2>6, IdleUser
    <3> QED BY <1>0, <1>1, <2>1, <2>2, <2>3, <2>4, <2>5, <2>6, <3>1, MeetStep DEF Quiet
  <2>7. CASE p = u
    <3>1. ~Talking(u, NoUid)' /\ Idle(u)' BY <1>1, <2>3, <2>7, IdleUserPrime DEF Talking
    <3> QED BY <2>1, <2>4, <2>5, <3>1, ComeStep DEF Quiet
  <2> QED BY <2>6, <2>7
<1> QED BY <1>2, <1>3

LEMMA HostConnectBoard ==
  ASSUME IInv, NEW h \in HostUser, HostConnect(h)
  PROVE  BoardNext
<1>1. /\ h \in User /\ ptc' = ptc /\ link[h].st = "none" /\ link'[h].st = "up"
      /\ \A v \in User \ {h} : link'[v] = link[v]
  BY DEF HostConnect, User, IInv, TypeOK, LinkEntry
<1>2. ptc[h] = ClearCord BY DEF HostConnect, IInv, HostInv
<1>3. Idle(h)' BY <1>1, <1>2, IdleUserPrime DEF ClearCord
<1>4. \A v \in User \ {h} : Quiet(v) BY <1>1 DEF Quiet, Stays, Kept
<1> QED BY <1>1, <1>3, <1>4, ComeStep

LEMMA HostDisconnectBoard ==
  ASSUME IInv, NEW h \in HostUser, HostDisconnect(h)
  PROVE  BoardNext
<1>1. /\ h \in User /\ ptc' = ptc /\ link'[h].st = "none"
      /\ \A v \in User \ {h} : link'[v] = link[v]
  BY LinkFields DEF HostDisconnect, User, IInv, TypeOK, NoLink
<1>2. \A v \in User \ {h} : Stays(v) /\ Kept(v) BY <1>1 DEF Stays, Kept
<1>3. CASE link[h].st = "up" BY <1>1, <1>2, <1>3, GoStep
<1>4. CASE link[h].st # "up"
  <2>1. Kept(h) /\ Stays(h) BY <1>1, <1>4 DEF Kept, Stays
  <2> QED BY <1>2, <2>1, StutterStep DEF BoardNext, Quiet
<1> QED BY <1>3, <1>4

LEMMA JoinCqBoard ==
  ASSUME IInv, NEW ok \in BOOLEAN, JoinCq(ok)
  PROVE  BoardNext
<1>0. PICK u, c : u = cq_statl[1][1] /\ c = cq_statl[1][2] OBVIOUS
<1>1. JoinPost(u, c) BY <1>0, JoinCqEffect
<1>2. Idle(u) /\ Idle(c) BY <1>1, IdleUser DEF JoinPost
<1>3. Stays(u) /\ Stays(c) /\ \A v \in User \ {u, c} : Quiet(v)
  BY <1>1 DEF JoinPost, Stays, Kept, Quiet
<1>4. /\ u \in User /\ c \in (User \ {u}) \cup {NoUid} /\ ptc'[u].p = c /\ ptc'[c].p = u
      /\ link[u].st = "up" => link'[u].st = "up"
  BY <1>1 DEF JoinPost
<1> QED BY <1>2, <1>3, <1>4, MeetStep

-----------------------------------------------------------------------------
(* What a command finds: its user does not talk, nor does p, and no link   *)
(* has changed.                                                            *)
LEMMA ReadyIdle ==
  ASSUME IInv, NEW w, NEW u \in User, NEW p, Ready(w, u, p)
  PROVE  /\ Idle(u) /\ (p \in User => Idle(p) /\ w.ptc[p].p = NoUid)
         /\ \A v \in User : w.link[v].st = link[v].st
         /\ \A v \in User \ {u, p} : w.ptc[v] = ptc[v]
<1>1. ptc[u].ublk # "no" /\ NoUid \notin User BY UserAssumption DEF Ready
<1>2. Idle(u) BY <1>1, IdleUser
<1>3. p \in User => Idle(p) /\ w.ptc[p].p = NoUid BY <1>1, IdleUser DEF Ready
<1> QED BY <1>1, <1>2, <1>3 DEF Ready

LEMMA PromptBoard ==
  ASSUME IInv, NEW w, NEW u \in User, NEW p, Ready(w, u, p), NEW x, Become(x),
         \A v \in User \ {u} : x.link[v] = w.link[v] /\ x.ptc[v] = w.ptc[v],
         x.link[u].st = link[u].st,
         x.ptc[u].p = NoUid \/ x.ptc[u].ublk # "no"
  PROVE  BoardNext
<1>1. link' = x.link /\ ptc' = x.ptc BY DEF Become
<1>2. /\ Idle(u) /\ (p \in User => Idle(p) /\ w.ptc[p].p = NoUid)
      /\ \A v \in User : w.link[v].st = link[v].st
      /\ \A v \in User \ {u, p} : w.ptc[v] = ptc[v]
  BY ReadyIdle
<1>3. \A v \in User : Stays(v) BY <1>1, <1>2 DEF Stays
<1>4. Quiet(u)
  <2>1. Idle(u)' BY <1>1, IdleUserPrime
  <2> QED BY <1>2, <1>3, <2>1 DEF Quiet
<1>5. p \in User \ {u} => Quiet(p)
  <2>1. p \in User \ {u} => Idle(p)' BY <1>1, <1>2, IdleUserPrime
  <2> QED BY <1>2, <1>3, <2>1 DEF Quiet
<1>6. \A v \in User \ {u, p} : Quiet(v) BY <1>1, <1>2, <1>3 DEF Quiet, Stays, Kept
<1>7. \A v \in User : Quiet(v) BY <1>4, <1>5, <1>6
<1> QED BY <1>7, StutterStep DEF BoardNext

LEMMA CallBoard ==
  ASSUME IInv, NEW w, NEW u \in User, NEW p, Ready(w, u, p), NEW x, NEW v, CallOf(w, u, p, x, v), Become(x),
         link[v].st = "none"
  PROVE  BoardNext
<1>1. link' = x.link /\ ptc' = x.ptc BY DEF Become
<1>2. /\ Idle(u) /\ (p \in User => Idle(p) /\ w.ptc[p].p = NoUid)
      /\ \A y \in User : w.link[y].st = link[y].st
      /\ \A y \in User \ {u, p} : w.ptc[y] = ptc[y]
  BY ReadyIdle
<1>3. /\ v \in User \ {u, p} /\ ptc'[v].p = u /\ ptc'[u].p = v /\ ptc'[u].ublk # "no"
      /\ \A y \in User \ {u, v} : link'[y] = w.link[y] /\ ptc'[y] = w.ptc[y]
      /\ link'[u] = w.link[u]
  BY <1>1 DEF CallOf
<1>4. \A y \in User \ {v} : Stays(y) BY <1>2, <1>3 DEF Stays
<1>5. Idle(v) BY <1>3, IdleUser
<1>6. \A y \in User \ {u, v} : Quiet(y)
  <2>1. p \in User \ {u} => Idle(p)' BY <1>2, <1>3, IdleUserPrime
  <2>2. p \in User \ {u} => Quiet(p) BY <1>2, <1>3, <1>4, <2>1 DEF Quiet
  <2>3. \A y \in User \ {u, v, p} : Quiet(y) BY <1>2, <1>3, <1>4 DEF Quiet, Stays, Kept
  <2> QED BY <2>2, <2>3
<1>7. v \in User /\ u \in (User \ {v}) \cup {NoUid} BY <1>3
<1> QED BY <1>2, <1>3, <1>4, <1>5, <1>6, <1>7, MeetStep

LEMMA ConnectLinkBoard ==
  ASSUME IInv, NEW w, NEW u \in User, NEW p, Ready(w, u, p), NEW v \in User, NEW how \in How,
         ConnectLink(w, u, v, how), link[u].st = "hth" => ~how.back
  PROVE  BoardNext
<1>1. link[v].st = "none" BY ConnectLinkEffect
<1>2. PICK x : CallOf(w, u, p, x, v) /\ Become(x) BY ConnectLinkEffect
<1> QED BY <1>1, <1>2, CallBoard

LEMMA ConnectHostBoard ==
  ASSUME IInv, Limits, NEW w, NEW u \in User, NEW p, Ready(w, u, p), NEW how \in How,
         ConnectHost(w, u, how), link[u].st = "hth" => ~how.back
  PROVE  BoardNext
<1>1. PICK h : HostCallPost(w, u, p, how, h) BY ConnectHostEffect
<1>2. link[h].st = "none" BY <1>1 DEF HostCallPost
<1>3. CASE \E x : CallOf(w, u, p, x, h) /\ Become(x) BY <1>2, <1>3, CallBoard
<1>4. CASE \E x : RefusalPost(w, x, u, how) /\ Become(x)
  BY <1>4, PromptBoard DEF RefusalPost
<1> QED BY <1>1, <1>3, <1>4 DEF HostCallPost

LEMMA RefusedBoard ==
  ASSUME IInv, NEW w, NEW u \in User, NEW p, Ready(w, u, p), NEW reject \in BOOLEAN, NEW how \in How,
         Refused(w, u, reject, how)
  PROVE  BoardNext
<1> DEFINE x == End(Conerr(w, u, reject), u, how)
<1>1. Become(x) BY DEF Refused
<1>2. RefusalPost(w, x, u, how) BY RefusalEffect
<1> HIDE DEF x
<1> QED BY <1>1, <1>2, PromptBoard DEF RefusalPost

LEMMA AnswerBoard ==
  ASSUME IInv, NEW w, NEW u \in User, NEW p, Ready(w, u, p), NEW c \in User \ {u}, NEW how \in How,
         ~how.gateway, ConnectCq(w, u, c, how)
  PROVE  BoardNext
<1>1. PICK x : CqAnswerOf(w, u, p, x, c) /\ Become(x) BY AnswerEffect
<1>2. link' = w.link /\ ptc' = x.ptc BY <1>1 DEF Become, CqAnswerOf
<1>3. /\ Idle(u) /\ (p \in User => Idle(p) /\ w.ptc[p].p = NoUid)
      /\ \A y \in User : w.link[y].st = link[y].st
      /\ \A y \in User \ {u, p} : w.ptc[y] = ptc[y]
  BY ReadyIdle
<1>4. Idle(c) /\ c # p BY <1>1, IdleUser DEF CqAnswerOf
<1>5. \A y \in User : Stays(y) BY <1>2, <1>3 DEF Stays
<1>6. /\ ptc'[u].p = c /\ ptc'[c].p = u
      /\ \A y \in User \ {u, c} : ptc'[y] = w.ptc[y]
  BY <1>1, <1>2 DEF CqAnswerOf
<1>7. \A y \in User \ {u, c} : Quiet(y)
  <2>1. p \in User \ {u} => Idle(p)' BY <1>3, <1>4, <1>6, IdleUserPrime
  <2>2. p \in User \ {u} => Quiet(p) BY <1>3, <1>5, <2>1 DEF Quiet
  <2>3. \A y \in User \ {u, c, p} : Quiet(y) BY <1>3, <1>5, <1>6 DEF Quiet, Stays, Kept
  <2> QED BY <2>2, <2>3
<1>8. link[u].st = "up" => link'[u].st = "up" BY <1>5 DEF Stays
<1> QED BY <1>3, <1>4, <1>5, <1>6, <1>7, <1>8, MeetStep

LEMMA LineBoard ==
  ASSUME IInv, Limits, NEW u \in User, NEW last \in BOOLEAN, Line(u, last)
  PROVE  BoardNext
<1>1. PICK w : w = GivenUp(u) OBVIOUS
<1>2. /\ turn = "l7rx" /\ u \in userhd /\ ptc[u].ublk # "no"
      /\ Become(w) \/ Ccpquit(w, u) \/ Ccpcon(w, u, last) \/ Ccpcq(w, u)
  BY <1>1 DEF Line
<1>3. PICK p : Ready(w, u, p) BY <1>1, <1>2, GivenUpEffect
<1>4. link[u].st # "hth" BY <1>2 DEF IInv, LinkInv, LinkOk
<1>5. w \in Worlds /\ w.ptc[u].p = NoUid /\ w.link[u] = link[u] BY <1>3 DEF Ready
<1>6. CASE Become(w) BY <1>3, <1>5, <1>6, PromptBoard
<1>7. CASE Ccpquit(w, u)
  <2> DEFINE x == Disusr(w, u)
  <2>1. Become(x) BY <1>7 DEF Ccpquit
  <2>2. Within(w, x, {u}) /\ x.ptc = w.ptc BY <1>5, DisusrEffect
  <2> HIDE DEF x
  <2>3. /\ \A v \in User \ {u} : x.link[v] = w.link[v] /\ x.ptc[v] = w.ptc[v]
        /\ x.link[u].st = link[u].st /\ x.ptc[u].p = NoUid
    BY <1>5, <2>2 DEF Within
  <2> QED BY <1>3, <2>1, <2>3, PromptBoard
<1>8. CASE Ccpcq(w, u)
  <2>5. \E x : CqCallOf(w, u, x) /\ Become(x) BY <1>3, <1>8, CcpcqEffect, ZenonT(60)
  <2>1. PICK x : CqCallOf(w, u, x) /\ Become(x) BY <2>5, Zenon
  <2>2. /\ \A v \in User \ {u} : x.link[v] = w.link[v] /\ x.ptc[v] = w.ptc[v]
        /\ x.link[u].st = link[u].st /\ x.ptc[u].ublk # "no"
    BY <1>5, <2>1 DEF CqCallOf
  <2>3. x.ptc[u].p = NoUid \/ x.ptc[u].ublk # "no" BY <2>2
  <2>4. Become(x) BY <2>1
  <2>6. u \in User /\ Ready(w, u, p) BY <1>3
  <2> HIDE DEF Ready, Become
  <2> QED BY <2>2, <2>3, <2>4, <2>6, PromptBoard, ZenonT(60)
<1>9. CASE Ccpcon(w, u, last)
  <2>1. PICK back \in BOOLEAN :
          LET how == [back |-> back, gateway |-> FALSE] IN
          \/ \E v \in User : ConnectLink(w, u, v, how)
          \/ Refused(w, u, FALSE, how)
          \/ ConnectHost(w, u, how)
          \/ \E c \in User \ {u} : ConnectCq(w, u, c, how)
    BY <1>9 DEF Ccpcon
  <2> DEFINE how == [back |-> back, gateway |-> FALSE]
  <2>2. how \in How /\ ~how.gateway BY DEF How
  <2> HIDE DEF how
  <2>3. CASE \E v \in User : ConnectLink(w, u, v, how) BY <1>3, <1>4, <2>2, <2>3, ConnectLinkBoard
  <2>4. CASE Refused(w, u, FALSE, how) BY <1>3, <2>2, <2>4, RefusedBoard
  <2>5. CASE ConnectHost(w, u, how) BY <1>3, <1>4, <2>2, <2>5, ConnectHostBoard
  <2>6. CASE \E c \in User \ {u} : ConnectCq(w, u, c, how) BY <1>3, <2>2, <2>6, AnswerBoard
  <2> QED BY <2>1, <2>3, <2>4, <2>5, <2>6 DEF how
<1> QED BY <1>2, <1>6, <1>7, <1>8, <1>9

LEMMA GatewayBoard ==
  ASSUME IInv, Limits, NEW u \in User, Gateway(u)
  PROVE  BoardNext
<1> DEFINE w == [World EXCEPT !.ptc[u].local = TRUE]
           how == [back |-> FALSE, gateway |-> TRUE]
<1>1. /\ turn = "l7tx" /\ ptc[u].ublk = "DIG"
      /\ \/ \E v \in User : ConnectLink(w, u, v, how)
         \/ \E reject \in BOOLEAN : Refused(w, u, reject, how)
         \/ ConnectHost(w, u, how)
         \/ used.gatewayCq < MaxGatewayCq
  BY DEF Gateway
<1>2. Ready(w, u, NoUid) BY <1>1, GatewayReady
<1>3. how \in How /\ ~how.back BY DEF How
<1> HIDE DEF w, how
<1>4. CASE \E v \in User : ConnectLink(w, u, v, how) BY <1>2, <1>3, <1>4, ConnectLinkBoard
<1>5. CASE \E reject \in BOOLEAN : Refused(w, u, reject, how) BY <1>2, <1>3, <1>5, RefusedBoard
<1>6. CASE ConnectHost(w, u, how) BY <1>2, <1>3, <1>6, ConnectHostBoard
<1>7. ~(used.gatewayCq < MaxGatewayCq) BY SameUsed
<1> QED BY <1>1, <1>4, <1>5, <1>6, <1>7

-----------------------------------------------------------------------------
LEMMA NextBoard ==
  ASSUME IInv, Limits, [Next]_vars
  PROVE  BoardNext
<1>1. ASSUME NEW u \in User, NEW ok \in BOOLEAN, NEW hth \in BOOLEAN, NEW dig \in BOOLEAN, Incoming(u, hth, dig, ok)
      PROVE  BoardNext
  BY <1>1, IncomingBoard
<1>2. ASSUME NEW u \in User, NEW ok \in BOOLEAN, Established(u, ok) PROVE BoardNext
  BY <1>2, EstablishedBoard
<1>3. ASSUME NEW u \in User, NEW ok \in BOOLEAN, NEW op \in {"DISCF", "BUSYF", "FAILW"}, Down(u, op, ok)
      PROVE  BoardNext
  BY <1>3, DownBoard
<1>4. ASSUME UNCHANGED <<link, ptc>> PROVE BoardNext
  <2>1. \A v \in User : Kept(v) /\ Stays(v) BY <1>4 DEF Kept, Stays
  <2> QED BY <2>1, StutterStep DEF BoardNext, Quiet
<1>5. ASSUME NEW u \in User, AnswerHth(u) \/ Gateway(u) PROVE BoardNext
  BY <1>5, AnswerHthBoard, GatewayBoard
<1>6. ASSUME NEW u \in User, NEW last \in BOOLEAN, Line(u, last) PROVE BoardNext
  BY <1>6, LineBoard
<1>7. ASSUME NEW h \in HostUser, HostConnect(h) \/ HostDisconnect(h) PROVE BoardNext
  BY <1>7, HostConnectBoard, HostDisconnectBoard
<1>8. ASSUME NEW ok \in BOOLEAN, HostMessage(ok) \/ JoinCq(ok) PROVE BoardNext
  BY <1>8, HostMessageBoard, JoinCqBoard
<1>9. ASSUME NEW u \in User, Input(u) \/ DropLine(u) PROVE BoardNext BY <1>4, <1>9 DEF Input, DropLine
<1>10. CASE Pass BY <1>4, <1>10 DEF Pass
<1>11. CASE UNCHANGED vars BY <1>4, <1>11 DEF vars
<1> QED BY <1>1, <1>2, <1>3, <1>5, <1>6, <1>7, <1>8, <1>9, <1>10, <1>11 DEF Next

LEMMA InitBoard == ASSUME Init PROVE Board!Init
<1>1. \A u, v : u \in User => ~Talking(u, v) BY DEF Init, NoLink, Talking
<1>2. patch = {} BY <1>1, PatchPairs
<1>3. here = {} BY DEF here, Init, NoLink
<1> QED BY <1>2, <1>3 DEF Board!Init, patch, here

(* Level 7 implements the board: two users who are through to each other   *)
(* stay so until one of them goes, and only those who are free are joined, *)
(* whatever others connect to, call, answer or give up.                    *)
THEOREM ImplementsBoard == ASSUME Limits PROVE Spec => BoardSpec
<1>1. Init => Board!Init BY InitBoard
<1>2. IInv /\ [Next]_vars => [Board!Next]_(Board!vars) BY NextBoard, BoardVars
<1> QED BY <1>1, <1>2, SpecIInv, PTL DEF Spec, BoardSpec, Board!Spec
=============================================================================
