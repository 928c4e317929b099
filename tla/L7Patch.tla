------------------------------ MODULE L7Patch -------------------------------
(***************************************************************************)
(* Level 7: users at the command prompt (CCP) and the patch cords between  *)
(* two links, circuits or console channels (l7.c, l7conn.c, l7ccp.c,       *)
(* l7time.c, l7host.c), driven by what the lower levels report with        *)
(* l2tol7().                                                               *)
(*                                                                         *)
(* A uid stands for a block of the link table, the circuit table or the    *)
(* console channels; what a line says, texts, passwords and the transfer   *)
(* of data are left out, and so are convers, files and TCP users.          *)
(***************************************************************************)
EXTENDS Integers, Sequences, FiniteSets, SequencesExt

CONSTANTS
  L2User, L4User, HostUser,   \* uids by g_utyp()
  NoUid,                      \* NO_UID
  HostPos,                    \* position of a channel in hstubl
  Ypar,                       \* console channels that may be connected to
  \* Bounds of the state space.
  MaxCq,          \* CQ callers at a time
  MaxGatewayCq,   \* gateway connects that reach a CQ caller
  MaxFrmr,        \* links that a FRMR sets up again
  MaxImpatient,   \* answers to a CQ while more lines of the two wait
  MaxMiscount,    \* disconnects of a channel that is not connected
  MaxReuse        \* connects to a channel that level 7 has not cleared yet

User == L2User \cup L4User \cup HostUser

ASSUME UserAssumption ==
  /\ IsFiniteSet(User) /\ NoUid \notin User
  /\ L2User \cap L4User = {} /\ (L2User \cup L4User) \cap HostUser = {}
  /\ HostPos \in [HostUser -> Nat] /\ Ypar \in Nat
ASSUME BoundAssumption == {MaxCq, MaxGatewayCq, MaxFrmr, MaxImpatient, MaxMiscount, MaxReuse} \subseteq Nat

VARIABLES
  link,     \* link[u]: what the lower level knows
  ptc,      \* ptctab
  hstatl,   \* status messages of console channels for level 7
  numhsts,  \* connected console channels
  cq_user,  \* CQ callers
  cq_statl, \* answers to them that wait for timsrv()
  userhd,   \* users of whom a line waits for the CCP
  turn,     \* the part of the main loop that runs
  used      \* how much of each bound is used up

vars == <<link, ptc, hstatl, numhsts, cq_user, cq_statl, userhd, turn, used>>

(* A link is set up by us, waits for an answer hop to hop, or is up.       *)
(* disc: it is to go down (L2FDSLE, L2FDIMM, L4FDSLE, L4FDIMM, disflg);    *)
(* ack, rej: L2FACKHTH and L2FREJHTH.                                      *)
LinkEntry == [st: {"none", "setup", "hth", "up"}, disc: BOOLEAN, ack: BOOLEAN, rej: BOOLEAN]
NoLink == [st |-> "none", disc |-> FALSE, ack |-> FALSE, rej |-> FALSE]

(* ublk and the status of the user block in one: "no" is no user block.    *)
Cord == [p: User \cup {NoUid}, ublk: {"no", "CCP", "CREQ", "CQ", "DIG"},
         local: BOOLEAN, recflg: BOOLEAN]
ClearCord == [p |-> NoUid, ublk |-> "no", local |-> FALSE, recflg |-> FALSE]

-----------------------------------------------------------------------------
(* Operators on w, the record of link, ptc and cq_user.                    *)

World == [link |-> link, ptc |-> ptc, cq |-> cq_user]

(* dsclnk(), discir(), hstout(): the lower level is only asked.            *)
MayDiscard(w, u) == u \in HostUser \/ w.link[u].st # "none"
Disusr(w, u) == IF MayDiscard(w, u) THEN [w EXCEPT !.link[u].disc = TRUE] ELSE w

KillPartner(w, u) ==
  [w EXCEPT !.link = [v \in User |->
                        IF w.ptc[v].p = u /\ MayDiscard(w, v)
                        THEN [@[v] EXCEPT !.disc = TRUE] ELSE @[v]],
            !.ptc = [v \in User |-> IF @[v].p = u THEN [@[v] EXCEPT !.p = NoUid] ELSE @[v]]]

(* Mutant: the list of CQ callers is not looked through.                   *)
Clrccp_KeepsCq(w, u) == [w EXCEPT !.ptc[u].ublk = "no"]

(* clrccp(): the user block is freed; a CQ caller is taken off the list if *)
(* it is the first in it.                                                  *)
Clrccp(w, u) ==
  [w EXCEPT !.ptc[u].ublk = "no",
            !.cq = IF @ # <<>> /\ Head(@) = u THEN Tail(@) ELSE @]

Hth(w, u) == u \in L2User /\ w.link[u].st = "hth"
Acklnk(w, u) == IF Hth(w, u) THEN [w EXCEPT !.link[u].ack = TRUE] ELSE w
Rejlnk(w, u) == IF Hth(w, u) THEN [w EXCEPT !.link[u].rej = TRUE] ELSE w

(* new_user() and send_ctext(): dig says that the connect is not for us;   *)
(* ok that the user is not refused.                                        *)
NewUser(w, u, dig, ok) ==
  IF ok THEN [w EXCEPT !.ptc[u].ublk = IF dig \/ Hth(w, u) THEN "DIG" ELSE "CCP"]
  ELSE Disusr(w, u)

(* Mutant: the caller stays at the prompt when the call is through.        *)
Connected_KeepsCaller(w, u, dig, ok) ==
  LET p == w.ptc[u].p IN
  IF p # NoUid
  THEN IF w.ptc[p].ublk # "no" THEN Acklnk(w, p) ELSE Disusr(KillPartner(w, u), u)
  ELSE IF w.ptc[u].ublk # "no" THEN KillPartner(w, u)
       ELSE NewUser(KillPartner(w, u), u, dig, ok)

(* Mutant: a caller who waits hop to hop is not told that it is through.   *)
Connected_NoAck(w, u, dig, ok) ==
  LET p == w.ptc[u].p IN
  IF p # NoUid
  THEN IF w.ptc[p].ublk # "no" THEN Clrccp(w, p) ELSE Disusr(KillPartner(w, u), u)
  ELSE IF w.ptc[u].ublk # "no" THEN KillPartner(w, u)
       ELSE NewUser(KillPartner(w, u), u, dig, ok)

(* l2tol7(), L2MCONNT and L7MCONNT.                                        *)
Connected(w, u, dig, ok) ==
  LET p == w.ptc[u].p IN
  IF p # NoUid
  THEN IF w.ptc[p].ublk # "no" THEN Clrccp(Acklnk(w, p), p)
       ELSE Disusr(KillPartner(w, u), u)
  ELSE LET w1 == KillPartner(w, u) IN
       IF w1.ptc[u].ublk # "no" THEN w1 ELSE NewUser(w1, u, dig, ok)

(* Mutant: a partner who does not want back to the prompt is forgotten.    *)
TellPartner_Silent(w, op, p, ok) ==
  IF w.ptc[p].ublk = "no"
  THEN IF w.ptc[p].recflg THEN NewUser(w, p, FALSE, ok) ELSE w
  ELSE IF w.ptc[p].local THEN Disusr(w, p) ELSE [w EXCEPT !.ptc[p].ublk = "CCP"]

(* Mutant: the status of a caller is left at US_CREQ.                      *)
TellPartner_StaysCalling(w, op, p, ok) ==
  IF w.ptc[p].ublk = "no"
  THEN IF w.ptc[p].recflg THEN NewUser(w, p, FALSE, ok) ELSE Disusr(w, p)
  ELSE IF w.ptc[p].local THEN Disusr(w, p) ELSE w

(* What a partner gets to know: it goes back to the prompt if it wants to, *)
(* or is disconnected.                                                     *)
TellPartner(w, op, p, ok) ==
  IF w.ptc[p].ublk = "no"
  THEN IF w.ptc[p].recflg THEN NewUser(w, p, FALSE, ok) ELSE Disusr(w, p)
  ELSE IF w.ptc[p].local
  THEN Disusr(IF op = "BUSYF" THEN Rejlnk(w, p) ELSE w, p)
  ELSE [w EXCEPT !.ptc[p].ublk = "CCP"]

(* l2tol7(), L2MDISCF, L2MBUSYF and L2MFAILW.                              *)
Disconnected(w, op, u, ok) ==
  LET p == w.ptc[u].p
      w1 == IF p = NoUid THEN w
            ELSE LET t == TellPartner(w, op, p, ok) IN [t EXCEPT !.ptc[p].p = NoUid]
      w2 == IF w1.ptc[u].ublk # "no" THEN Clrccp(w1, u) ELSE w1
  IN KillPartner([w2 EXCEPT !.ptc[u] = ClearCord], u)

Become(w) == link' = w.link /\ ptc' = w.ptc /\ cq_user' = w.cq

-----------------------------------------------------------------------------
(* The lower levels: l2(), l3rx() and l4rest().                            *)

LowTurn(u) == turn = "low" \/ (turn = "l4rest" /\ u \in L4User)
(* Level 2 hands over the lines of a link at the end of its pass.          *)
L2Done(u) == u \in L2User /\ u \in userhd

(* A connect from outside: a SABM to us, a SABM to be passed on (hth), or  *)
(* a CONREQ, which may be for a LOCAL (dig).                               *)
Incoming(u, hth, dig, ok) ==
  /\ turn = "low" /\ u \in L2User \cup L4User /\ ~L2Done(u)
  /\ link[u].st = "none"
  /\ hth => u \in L2User
  /\ dig => u \in L4User
  /\ Become(Connected([World EXCEPT !.link[u] =
                         [NoLink EXCEPT !.st = IF hth THEN "hth" ELSE "up"]], u, dig, ok))
  /\ UNCHANGED <<hstatl, numhsts, cq_statl, userhd, turn, used>>

(* The link or circuit we set up is there.                                 *)
Established(u, ok) ==
  /\ turn = "low" /\ u \in L2User \cup L4User /\ ~L2Done(u)
  /\ link[u].st = "setup"
  /\ Become(Connected([World EXCEPT !.link[u].st = "up"], u, FALSE, ok))
  /\ UNCHANGED <<hstatl, numhsts, cq_statl, userhd, turn, used>>

(* FRMR: level 2 sets the link up again, and reports it like a new one.    *)
Frmr(u) ==
  /\ turn = "low" /\ u \in L2User /\ ~L2Done(u)
  /\ link[u].st = "up" /\ used.frmr < MaxFrmr
  /\ link' = [link EXCEPT ![u].st = "setup"]
  /\ used' = [used EXCEPT !.frmr = @ + 1]
  /\ UNCHANGED <<ptc, hstatl, numhsts, cq_user, cq_statl, userhd, turn>>

(* The other side refuses, does not answer any more or disconnects, or the *)
(* wish of level 7 is carried out.  Level 2 says nothing of a setup that   *)
(* is given up (L2SLKSUP in table 20).                                     *)
Down(u, op, ok) ==
  /\ LowTurn(u) /\ u \in L2User \cup L4User
  /\ link[u].st # "none"
  /\ op = "BUSYF" => link[u].st = "setup"
  /\ op = "DISCF" => link[u].st # "setup" \/ link[u].disc
  /\ LET w == [World EXCEPT !.link[u] = NoLink] IN
     Become(IF u \in L2User /\ link[u].st = "setup" /\ op = "DISCF"
            THEN w ELSE Disconnected(w, op, u, ok))
  /\ UNCHANGED <<hstatl, numhsts, cq_statl, userhd, turn, used>>

(* l2timr(): the answer to a connect that waits hop to hop.                *)
AnswerHth(u) ==
  /\ turn = "low" /\ u \in L2User
  /\ link[u].ack \/ link[u].rej
  /\ link' = [link EXCEPT ![u].st = IF Hth(World, u) /\ link[u].ack THEN "up" ELSE @,
                          ![u].ack = FALSE, ![u].rej = FALSE]
  /\ UNCHANGED <<ptc, hstatl, numhsts, cq_user, cq_statl, userhd, turn, used>>

-----------------------------------------------------------------------------
(* The console.                                                            *)

(* hstcon() and hstdis()                                                   *)
HostStatus(op, h) == hstatl' = Append(hstatl, [op |-> op, h |-> h])
Pending(h) == \E i \in DOMAIN hstatl : hstatl[i].h = h

(* hostsv(): first the messages, then the channels.                        *)
HostMessage(ok) ==
  /\ turn = "timsrv" /\ cq_statl = <<>> /\ hstatl # <<>>
  /\ LET m == Head(hstatl) IN
     Become(IF m.op = "CONNT" THEN Connected(World, m.h, FALSE, ok)
            ELSE Disconnected(World, m.op, m.h, ok))
  /\ hstatl' = Tail(hstatl)
  /\ turn' = IF Len(hstatl) = 1 THEN "host" ELSE turn
  /\ UNCHANGED <<numhsts, cq_statl, userhd, used>>

(* The operator connects a channel (Ccmd()).                               *)
HostConnect(h) ==
  /\ turn = "host"
  /\ link[h].st = "none" /\ ~Pending(h)
  /\ link' = [link EXCEPT ![h].st = "up"]
  /\ HostStatus("CONNT", h)
  /\ numhsts' = numhsts + 1
  /\ UNCHANGED <<ptc, cq_user, cq_statl, userhd, turn, used>>

(* Dcmd() and hostim(); and srvhch() for a channel that level 7 wants to   *)
(* be disconnected, whatever its state.                                    *)
HostDisconnect(h) ==
  /\ turn = "host"
  /\ \/ link[h].st = "up" /\ UNCHANGED used
     \/ /\ link[h].st = "none" /\ link[h].disc
        /\ used.miscount < MaxMiscount
        /\ used' = [used EXCEPT !.miscount = @ + 1]
  /\ link' = [link EXCEPT ![h] = NoLink]
  /\ HostStatus("DISCF", h)
  /\ numhsts' = numhsts - 1
  /\ UNCHANGED <<ptc, cq_user, cq_statl, userhd, turn>>

-----------------------------------------------------------------------------
(* Connects.                                                               *)

Setptc(w, u, v) == [w EXCEPT !.ptc[u].p = v, !.ptc[v].p = u]
Calling(w, u, v) == [Setptc(w, u, v) EXCEPT !.ptc[u].ublk = "CREQ"]

(* conerr()                                                                *)
Conerr(w, u, reject) ==
  IF ~w.ptc[u].local THEN w ELSE Disusr(IF reject THEN Rejlnk(w, u) ELSE w, u)

(* l7tx(): a user whose gateway() has come to nothing is at the CCP.       *)
AfterGateway(ublk) == IF ublk = "DIG" THEN "CCP" ELSE ublk

(* The rest of a connect of user u, in the state w: each disjunct is one   *)
(* outcome of conprm2().  how says how the command ends: whether the user  *)
(* wants to come back (ccpcon()), and whether it was gateway().            *)
End(w, u, how) ==
  [w EXCEPT !.ptc[u].recflg = how.back,
            !.ptc[u].ublk = IF how.gateway THEN AfterGateway(@) ELSE @]

ConnectLink(w, u, v, how) ==
  /\ v \in L2User \cup L4User /\ w.link[v].st = "none"
  /\ Become(End(Calling([w EXCEPT !.link[v] = [NoLink EXCEPT !.st = "setup"]], u, v), u, how))
  /\ UNCHANGED <<hstatl, numhsts, cq_statl>>

Refused(w, u, reject, how) ==
  /\ Become(End(Conerr(w, u, reject), u, how))
  /\ UNCHANGED <<hstatl, numhsts, cq_statl>>

(* conhst(): the first free channel, if one more may be connected to.      *)
ConnectHost(w, u, how) ==
  LET free == {h \in HostUser : w.link[h].st = "none"}
      h == CHOOSE x \in free : \A y \in free : HostPos[x] <= HostPos[y]
  IN /\ free # {}
     /\ Pending(h) => used.reuse < MaxReuse
     /\ used' = [used EXCEPT !.reuse = IF Pending(h) THEN @ + 1 ELSE @]
     /\ IF numhsts < Ypar
        THEN /\ Become(End(Calling([w EXCEPT !.link[h].st = "up"], u, h), u, how))
             /\ HostStatus("CONNT", h)
             /\ numhsts' = numhsts + 1
        ELSE /\ Become(End(Conerr(w, u, TRUE), u, how))
             /\ HostStatus("BUSYF", h)
             /\ UNCHANGED numhsts
     /\ UNCHANGED cq_statl

(* is_cq() takes the entry of the called station off the list.             *)
ConnectCq(w, u, c, how) ==
  /\ \E i \in DOMAIN w.cq :
       /\ w.cq[i] = c
       /\ Become(End(Setptc([w EXCEPT !.cq = RemoveAt(@, i)], u, c), u, how))
  /\ cq_statl' = Append(cq_statl, <<u, c>>)
  /\ UNCHANGED <<hstatl, numhsts>>

(* timsrv(): both ends of an answered CQ are told.                         *)
JoinCq(ok) ==
  /\ turn = "timsrv" /\ cq_statl # <<>>
  /\ LET caller == Head(cq_statl)[1]
         called == Head(cq_statl)[2]
     IN Become(Connected(Connected(World, caller, FALSE, ok), called, FALSE, ok))
  /\ cq_statl' = Tail(cq_statl)
  /\ UNCHANGED <<hstatl, numhsts, userhd, turn, used>>

-----------------------------------------------------------------------------
(* fmlink() and itoccp(): a line is queued, under the number of its user.   *)
(* A level 4 connect to a LOCAL has no data before it is answered.         *)
Input(u) ==
  /\ turn = (IF u \in L2User THEN "low" ELSE IF u \in L4User THEN "l4rest" ELSE "host")
  /\ u \notin userhd
  /\ link[u].st = "up" /\ ~link[u].disc
  /\ ~ptc[u].local
  /\ u \in L4User => ptc[u].ublk # "DIG"
  /\ ptc[u].ublk \in {"CCP", "CREQ", "CQ"} \/ ptc[u].p = NoUid
  /\ userhd' = userhd \cup {u}
  /\ UNCHANGED <<link, ptc, hstatl, numhsts, cq_user, cq_statl, turn, used>>

(* Mutant: only the own end of the patch cord is cleared.                  *)
GivenUp_OneSided(u) ==
  IF ptc[u].ublk = "CREQ"
  THEN IF ptc[u].p = NoUid THEN [World EXCEPT !.ptc[u].ublk = "CCP"]
       ELSE [World EXCEPT !.ptc[u].p = NoUid, !.ptc[u].ublk = "CCP"]
  ELSE IF ptc[u].ublk = "CQ"
  THEN [World EXCEPT !.cq = RemoveFirst(@, u),
                     !.ptc[u].ublk = "CCP", !.ptc[u].p = NoUid]
  ELSE World

(* l7rx(): a connect or a CQ call that is under way is given up first.     *)
GivenUp(u) ==
  LET p == ptc[u].p IN
  IF ptc[u].ublk = "CREQ"
  THEN IF p = NoUid THEN [World EXCEPT !.ptc[u].ublk = "CCP"]
       ELSE [Disusr(World, p) EXCEPT !.ptc[u].p = NoUid, !.ptc[p].p = NoUid,
                                     !.ptc[u].ublk = "CCP"]
  ELSE IF ptc[u].ublk = "CQ"
  THEN [World EXCEPT !.cq = RemoveFirst(@, u),
                     !.ptc[u].ublk = "CCP", !.ptc[u].p = NoUid]
  ELSE World

(* ccpquit()                                                               *)
Ccpquit(w, u) ==
  Become(Disusr(w, u)) /\ UNCHANGED <<hstatl, numhsts, cq_statl, used>>

(* ccpcon(); back says whether the user wants to come back to the CCP.     *)
Ccpcon(w, u, last) == \E back \in BOOLEAN :
  LET how == [back |-> back, gateway |-> FALSE] IN
  \/ \E v \in User : ConnectLink(w, u, v, how) /\ UNCHANGED used
  \/ Refused(w, u, FALSE, how) /\ UNCHANGED used
  \/ ConnectHost(w, u, how)
  \/ \E c \in User \ {u} :
       /\ ConnectCq(w, u, c, how)
       /\ IF last /\ c \notin userhd THEN UNCHANGED used
          ELSE /\ used.impatient < MaxImpatient
               /\ used' = [used EXCEPT !.impatient = @ + 1]

(* ccpcq()                                                                 *)
Ccpcq(w, u) ==
  /\ Len(w.cq) < MaxCq
  /\ Become([w EXCEPT !.cq = Append(@, u),
                      !.ptc[u] = [@ EXCEPT !.ublk = "CQ", !.p = u, !.recflg = TRUE]])
  /\ UNCHANGED <<hstatl, numhsts, cq_statl, used>>

(* l7rx(): the next line of u; last says that it is the last one.          *)
Line(u, last) ==
  /\ turn = "l7rx" /\ u \in userhd
  /\ ptc[u].ublk # "no"
  /\ userhd' = IF last THEN userhd \ {u} ELSE userhd
  /\ LET w == GivenUp(u) IN
     \/ Become(w) /\ UNCHANGED <<hstatl, numhsts, cq_statl, used>>  \* any other command
     \/ Ccpquit(w, u)
     \/ Ccpcon(w, u, last)
     \/ Ccpcq(w, u)
  /\ UNCHANGED turn

(* l7rx(): a line of somebody who is not at the CCP (any more).            *)
DropLine(u) ==
  /\ turn = "l7rx" /\ u \in userhd /\ ptc[u].ublk = "no"
  /\ userhd' = userhd \ {u}
  /\ UNCHANGED <<link, ptc, hstatl, numhsts, cq_user, cq_statl, turn, used>>

(* l7tx(): gateway() for a connect that is not for us.                     *)
Gateway(u) ==
  /\ turn = "l7tx" /\ ptc[u].ublk = "DIG"
  /\ LET w == [World EXCEPT !.ptc[u].local = TRUE]
         how == [back |-> FALSE, gateway |-> TRUE]
     IN \/ \E v \in User : ConnectLink(w, u, v, how) /\ UNCHANGED used
        \/ \E reject \in BOOLEAN : Refused(w, u, reject, how) /\ UNCHANGED used
        \/ ConnectHost(w, u, how)
        \/ /\ used.gatewayCq < MaxGatewayCq
           /\ used' = [used EXCEPT !.gatewayCq = @ + 1]
           /\ \E c \in User : ConnectCq(w, u, c, how)
  /\ UNCHANGED <<userhd, turn>>

(* The main loop goes on: what the next part does not find, it does not    *)
(* do; hostsv() runs every 10 ms only.                                     *)
Pass ==
  /\ \/ turn = "low" /\ turn' = "l7rx"
     \/ turn = "l7rx" /\ userhd = {} /\ turn' = "timsrv"
     \/ turn = "timsrv" /\ cq_statl = <<>>
        /\ turn' \in (IF hstatl = <<>> THEN {"host", "l4rest"} ELSE {"l4rest"})
     \/ turn = "host" /\ turn' = "l4rest"
     \/ turn = "l4rest" /\ turn' = "l7tx"
     \/ turn = "l7tx" /\ (\A u \in User : ptc[u].ublk # "DIG") /\ turn' = "low"
  /\ UNCHANGED <<link, ptc, hstatl, numhsts, cq_user, cq_statl, userhd, used>>

Init ==
  /\ link = [u \in User |-> NoLink]
  /\ ptc = [u \in User |-> ClearCord]
  /\ hstatl = <<>> /\ numhsts = 0
  /\ cq_user = <<>> /\ cq_statl = <<>>
  /\ userhd = {} /\ turn = "low"
  /\ used = [gatewayCq |-> 0, frmr |-> 0, impatient |-> 0, miscount |-> 0, reuse |-> 0]

Next ==
  \/ \E u \in User, ok \in BOOLEAN :
       \/ \E hth, dig \in BOOLEAN : Incoming(u, hth, dig, ok)
       \/ Established(u, ok)
       \/ \E op \in {"DISCF", "BUSYF", "FAILW"} : Down(u, op, ok)
  \/ \E u \in User : AnswerHth(u) \/ Input(u) \/ DropLine(u) \/ Gateway(u)
  \/ \E u \in User, last \in BOOLEAN : Line(u, last)
  \/ \E h \in HostUser : HostConnect(h) \/ HostDisconnect(h)
  \/ \E ok \in BOOLEAN : HostMessage(ok) \/ JoinCq(ok)
  \/ Pass

Spec == Init /\ [][Next]_vars

FrmrSpec == Init /\ [][Next \/ \E u \in User : Frmr(u)]_vars

-----------------------------------------------------------------------------
(* Properties *)

(* Somebody is at the end of the line, or has just gone and level 7 is     *)
(* still to be told.                                                       *)
Present(u) == link[u].st # "none" \/ (u \in HostUser /\ Pending(u))

(* No user block outlives its user: whatever the order in which a user, a  *)
(* call of his and his CQ come and go, the block is given back.            *)
NoGhost == \A u \in User : ptc[u].ublk # "no" => Present(u)

(* While he calls CQ a user is his own partner (ccpcq()).                  *)
Partner(u) == IF ptc[u].p = u THEN NoUid ELSE ptc[u].p

(* A patch cord has two ends, and each leads to the other: data of one     *)
(* user never goes to somebody whose data goes elsewhere.                  *)
CordsAgree ==
  \A u \in User : Partner(u) # NoUid => ptc[Partner(u)].p = u

(* l7rx() looks for the partner of a user in US_CREQ in ptctab and         *)
(* disconnects it without a test for NO_UID, so there must be one.         *)
CallHasPartner ==
  \A u \in User : turn = "l7rx" /\ u \in userhd /\ ptc[u].ublk = "CREQ" => ptc[u].p # NoUid

(* Nobody is left connected to nothing: who is up and not about to be      *)
(* disconnected is at the CCP or patched through to somebody.              *)
NobodyAlone ==
  \A u \in User : link[u].st \in {"up", "hth"} /\ ~link[u].disc =>
    \/ ptc[u].ublk # "no" \/ Partner(u) # NoUid \/ (u \in HostUser /\ Pending(u))

Talking(u, v) == /\ ptc[u].p = v /\ ptc[v].p = u /\ u # v
                 /\ \A x \in {u, v} : ptc[x].ublk = "no" /\ link[x].st = "up"

(* Level 7 implements the board of L7Board: two users who talk go on doing *)
(* so until one of them goes, whatever others connect to, call or give up. *)
Board == INSTANCE L7Board WITH
  Station <- User,
  here <- {u \in User : link[u].st = "up"},
  patch <- {{e[1], e[2]} : e \in {x \in User \X User : Talking(x[1], x[2])}}
BoardSpec == Board!Spec

(* The lower levels settle what they set up or are asked to take down:     *)
(* their retry counters are bounded.  They may be kept from it in passes   *)
(* in which a line of that link waits, so the fairness is strong.  The     *)
(* main loop runs on; hostsv() is due every 10 ms, not in each pass.       *)
Settle(u) ==
  \/ /\ link[u].st = "setup" \/ link[u].disc
     /\ \E ok \in BOOLEAN : \/ Established(u, ok)
                           \/ \E op \in {"DISCF", "BUSYF", "FAILW"} : Down(u, op, ok)
  \/ AnswerHth(u)
MainLoop ==
  \/ Pass
  \/ \E u \in User : Line(u, TRUE) \/ DropLine(u) \/ Gateway(u)
  \/ \E ok \in BOOLEAN : JoinCq(ok)
HostService == \E ok \in BOOLEAN : HostMessage(ok)
Fairness == WF_vars(MainLoop) /\ SF_vars(HostService) /\ \A u \in L2User \cup L4User : SF_vars(Settle(u))
FairSpec == Spec /\ Fairness

(* A caller who waits hop to hop is answered, with a UA when the way is    *)
(* through and with a DM when it is not: he is not left to time out.       *)
HthAnswered == \A u \in L2User : link[u].st = "hth" /\ ptc[u].ublk = "DIG" ~> link[u].st # "hth"

(* A call ends: the caller is patched through or back at the CCP.          *)
CallEnds ==
  \A u, v \in User :
    LET calls == ptc[u].ublk = "CREQ" /\ ptc[u].p = v
    IN calls ~> ~calls
=============================================================================
