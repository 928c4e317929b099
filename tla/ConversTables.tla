--------------------------- MODULE ConversTables ----------------------------
(***************************************************************************)
(* Convers server: the tables of connections, host links, destinations and *)
(* channels, and what the commands of users and of other hosts do to them  *)
(* (cvs_cmds.c, cvs_cvsd.c).                                               *)
(*                                                                         *)
(* The operators work on w, a record of the tables of all hosts and of the *)
(* lines under way between them:                                           *)
(*   w.conn[n][s]   type of host n's CONNECTION for stream s               *)
(*   w.ends[s]      the ends of stream s that are still connected          *)
(*   w.q[s][n]      lines on stream s for host n                           *)
(*   w.perm[n][m]   PERMLINK of n for m, if it has one: connection, locked *)
(*   w.dest[n][h]   DESTINATION h: link, rtt, last_sent_rtt                *)
(*   w.local[n][u]  user u at n: chan_list, channel, away                  *)
(*   w.remote[n]    users of other hosts: name, host, via, channel, away   *)
(*   w.chans[n]     channels                                               *)
(* Texts, modes, topics, operators and the lines of prompts are left out.  *)
(***************************************************************************)
EXTENDS Integers, Sequences, FiniteSets, SequencesExt

CONSTANTS
  Host,      \* hosts: one convers server each
  Stream,    \* <<n, m>>: a connect from n to m
  NoStream,  \* a PERMLINK without connection
  NoHost,    \* a DESTINATION without link
  User, Channel

ASSUME StreamAssumption ==
  /\ Stream \subseteq {p \in Host \X Host : p[1] # p[2]}
  /\ NoStream \notin Stream /\ NoHost \notin Host

Between(n, m) == {s \in Stream : s \in {<<n, m>>, <<m, n>>}}
StreamsOf(n) == {s \in Stream : n \in {s[1], s[2]}}
Peer(s, n) == IF s[1] = n THEN s[2] ELSE s[1]

NotHere == [list |-> <<>>, def |-> 0, away |-> FALSE]
On(w, n, u, ch) == \E i \in DOMAIN w.local[n][u].list : w.local[n][u].list[i] = ch

HostConns(w, n) == {s \in StreamsOf(n) : w.conn[n][s] = "host"}

(* appenddirect(): lines to the other ends of the streams S.               *)
SendTo(w, n, S, lines) ==
  [w EXCEPT !.q = [s \in Stream |->
     IF s \in S /\ w.ends[s] = {s[1], s[2]}
     THEN [@[s] EXCEPT ![Peer(s, n)] = @ \o lines] ELSE @[s]]]

Abs(x) == IF x < 0 THEN -x ELSE x

(* The elements of l at the positions I, in their order.                   *)
Those(l, I) ==
  [k \in 1 .. Cardinality(I) |->
     l[CHOOSE i \in I : Cardinality({j \in I : j < i}) = k - 1]]

(* The users that n knows by stream s, the others, and a list without ch.  *)
By(w, n, s) ==
  Those(w.remote[n], {i \in DOMAIN w.remote[n] : w.remote[n][i].via = s})
NotBy(w, n, s) ==
  Those(w.remote[n], {i \in DOMAIN w.remote[n] : w.remote[n][i].via # s})
Without(l, ch) == Those(l, {i \in DOMAIN l : l[i] # ch})

-----------------------------------------------------------------------------
(* Destinations and host links.                                            *)

(* Mutant: the host that a time comes from gets it back.                   *)
UpdateDestinations_Echo(w, n, m, hs, rtt) ==
  LET line(h) == [t |-> "DEST", h |-> h, rtt |-> rtt] IN
  SendTo([w EXCEPT !.dest[n] = [h \in Host |->
            IF h \in hs THEN [link |-> m, rtt |-> rtt, sent |-> rtt] ELSE @[h]]],
         n, HostConns(w, n), SetToSeq({line(h) : h \in hs}))

(* update_destinations() for the destinations hs, in any order: a time     *)
(* that has changed by more than an eighth goes to the other hosts.        *)
UpdateDestinations(w, n, m, hs, rtt) ==
  LET S == {s \in HostConns(w, n) : Peer(s, n) # m /\ w.perm[n][Peer(s, n)].conn = s}
      told == {h \in hs : S # {} /\ Abs(rtt - w.dest[n][h].sent) > w.dest[n][h].sent \div 8}
      entry(h) == [link |-> m, rtt |-> rtt,
                   sent |-> IF h \in told THEN rtt ELSE w.dest[n][h].sent]
      line(h) == [t |-> "DEST", h |-> h, rtt |-> rtt]
  IN SendTo([w EXCEPT !.dest[n] = [h \in Host |-> IF h \in hs THEN entry(h) ELSE @[h]]],
            n, S, SetToSeq({line(h) : h \in told}))

(* update_permlinks(): nothing is reached by the link any more; a new      *)
(* connection may take it over.                                            *)
UpdatePermlinks(w, n, m, s) ==
  UpdateDestinations(IF s = NoStream THEN w ELSE [w EXCEPT !.perm[n][m].conn = s], n, m,
                     {h \in Host : w.dest[n][h].rtt # 0 /\ w.dest[n][h].link = m}, 0)

(* is_looped()                                                             *)
IsLooped(w, n, m, h) ==
  h = n \/ (w.dest[n][h].link # NoHost /\ w.dest[n][h].link # m /\ w.dest[n][h].rtt # 0)

-----------------------------------------------------------------------------
(* Users and channels.                                                     *)

(* Mutant: only users of this host keep a channel.                         *)
DropIfEmpty_LocalOnly(w, n, chs) ==
  [w EXCEPT !.chans[n] = {ch \in @ : ch \notin chs \/ \E u \in User : On(w, n, u, ch)}]

(* count_user() and destroy_channel() for the channels chs.                *)
DropIfEmpty(w, n, chs) ==
  [w EXCEPT !.chans[n] = {ch \in @ : \/ ch \notin chs
                                     \/ \E i \in DOMAIN w.remote[n] : w.remote[n][i].ch = ch
                                     \/ \E u \in User : On(w, n, u, ch)}]

(* send_user_change_msg(): what other hosts get.                           *)
UserChange(u, h, old, new) == [t |-> "USER", u |-> u, h |-> h, old |-> old, new |-> new]

(* Mutant: the destinations behind the host stay reached.                  *)
Bye_KeepsDestinations(w, n, s) ==
  DropIfEmpty([w EXCEPT !.conn[n][s] = "closed", !.remote[n] = NotBy(w, n, s)], n, w.chans[n])

(* Mutant: the other hosts are not told who has gone.                      *)
Bye_Silent(w, n, s) ==
  LET closed == [w EXCEPT !.conn[n][s] = "closed", !.remote[n] = NotBy(w, n, s)]
  IN IF w.conn[n][s] = "host"
     THEN DropIfEmpty(UpdatePermlinks(closed, n, Peer(s, n), NoStream), n, w.chans[n])
     ELSE closed

(* bye_command2() for a connection of a host: those who come by it go.     *)
Bye(w, n, s) ==
  LET gone == By(w, n, s)
      closed == [w EXCEPT !.conn[n][s] = "closed", !.remote[n] = NotBy(w, n, s)]
      lines == [i \in DOMAIN gone |-> UserChange(gone[i].u, gone[i].h, gone[i].ch, -1)]
  IN CASE w.conn[n][s] = "unknown" -> [w EXCEPT !.conn[n][s] = "closed"]
       [] w.conn[n][s] = "host" ->
            SendTo(DropIfEmpty(UpdatePermlinks(closed, n, Peer(s, n), NoStream), n,
                               {gone[i].ch : i \in DOMAIN gone}),
                   n, HostConns(w, n) \ {s}, lines)
       [] OTHER -> w

(* bye_command2() for a user: every channel is left.                       *)
ByeUser(w, n, u) ==
  LET list == w.local[n][u].list IN
  SendTo(DropIfEmpty([w EXCEPT !.local[n][u] = NotHere], n, Range(list)), n, HostConns(w, n),
         [i \in DOMAIN list |-> UserChange(u, n, list[i], -1)])

(* name_command(): a user is in, on channel ch.                            *)
Name(w, n, u, ch) ==
  SendTo([w EXCEPT !.local[n][u] = [list |-> <<ch>>, def |-> ch, away |-> FALSE],
                   !.chans[n] = @ \cup {ch}],
         n, HostConns(w, n), <<UserChange(u, n, -1, ch)>>)

(* channel_command()                                                       *)
JoinChannel(w, n, u, ch) ==
  IF On(w, n, u, ch) THEN [w EXCEPT !.local[n][u].def = ch]
  ELSE SendTo([w EXCEPT !.local[n][u].list = <<ch>> \o @, !.local[n][u].def = ch,
                        !.chans[n] = @ \cup {ch}],
              n, HostConns(w, n), <<UserChange(u, n, -1, ch)>>)

(* leave_command()                                                         *)
LeaveChannel(w, n, u, ch) ==
  LET l == w.local[n][u]
      rest == Without(l.list, ch)
      def == IF ch = l.def THEN Head(rest) ELSE l.def
  IN IF Len(l.list) = 1 THEN ByeUser(w, n, u)
     ELSE SendTo(DropIfEmpty([w EXCEPT !.local[n][u].list = rest, !.local[n][u].def = def], n, {ch}),
                 n, HostConns(w, n), <<UserChange(u, n, ch, -1)>>)

-----------------------------------------------------------------------------
(* Commands of hosts, received by n on stream s.                           *)

(* h_user_command()                                                        *)
HUser(w, n, s, l) ==
  LET same(r) == r.via = s /\ r.u = l.u /\ r.h = l.h /\ r.ch = l.old
      i == SelectInSeq(w.remote[n], same)
      table == CASE i # 0 /\ l.new # -1 -> [w.remote[n] EXCEPT ![i].ch = l.new]
                 [] i # 0 /\ l.new = -1 -> RemoveAt(w.remote[n], i)
                 [] i = 0 /\ l.new # -1 ->
                      <<[u |-> l.u, h |-> l.h, via |-> s, ch |-> l.new, away |-> FALSE]>> \o w.remote[n]
                 [] OTHER -> w.remote[n]
      opened == IF l.new = -1 THEN {} ELSE {l.new}
  IN SendTo(DropIfEmpty([w EXCEPT !.remote[n] = table, !.chans[n] = @ \cup opened], n, {l.old}),
            n, HostConns(w, n) \ {s}, <<l>>)

(* h_away_command(): the first entry that differs is changed; it is passed *)
(* on unless an entry before it was the same.  A user of n is found among  *)
(* the connections of n like the others.                                   *)
HAway(w, n, s, l) ==
  LET his(r) == r.u = l.u /\ r.h = l.h
      differs(r) == his(r) /\ ~(r.away /\ l.away)
      i == SelectInSeq(w.remote[n], differs)
      own == l.h = n /\ l.u \in {u \in User : w.local[n][u].list # <<>>}
      w1 == CASE own -> [w EXCEPT !.local[n][l.u].away = l.away]
              [] ~own /\ i # 0 -> [w EXCEPT !.remote[n][i].away = l.away]
              [] ~own /\ i = 0 -> w
      news == IF own THEN ~(w.local[n][l.u].away /\ l.away)
              ELSE i # 0 /\ i = SelectInSeq(w.remote[n], his)
  IN IF news THEN SendTo(w1, n, HostConns(w, n) \ {s}, <<l>>) ELSE w1

(* h_dest_command(), when there is no loop.                                *)
HDest(w, n, s, l) == UpdateDestinations(w, n, Peer(s, n), {l.h}, l.rtt)

(* Mutant: the line is dropped, but the link stays.                        *)
LoopDetect_LinkStays(w, n, s) == w

(* A link that a loop was found on is locked and thrown off.               *)
LoopDetect(w, n, s) == Bye([w EXCEPT !.perm[n][Peer(s, n)].locked = TRUE], n, s)

(* Mutant: who is away is said before who is there.                        *)
UserLines_AwayFirst(w, n) ==
  LET away == {u \in User : w.local[n][u].away}
      lines(u) == [i \in DOMAIN w.local[n][u].list |-> UserChange(u, n, -1, w.local[n][u].list[i])]
  IN SetToSeq({[t |-> "AWAY", u |-> u, h |-> n, away |-> TRUE] : u \in away})
     \o FoldSet(LAMBDA u, x : x \o lines(u), <<>>, User)

(* What h_host_command() sends of the users: local ones, then via others.  *)
UserLines(w, n) ==
  LET ofLocal(u) ==
        LET l == w.local[n][u] IN
        [i \in DOMAIN l.list |->
           UserChange(u, n, -1, l.list[i])]
        \o IF l.away THEN <<[t |-> "AWAY", u |-> u, h |-> n, away |-> TRUE]>> ELSE <<>>
      ofRemote(r) ==
        <<UserChange(r.u, r.h, -1, r.ch)>>
        \o IF r.away THEN <<[t |-> "AWAY", u |-> r.u, h |-> r.h, away |-> TRUE]>> ELSE <<>>
  IN FoldSet(LAMBDA u, x : x \o ofLocal(u), <<>>, User)
     \o FlattenSeq([i \in DOMAIN w.remote[n] |-> ofRemote(w.remote[n][i])])

(* h_host_command(): every other connection of that host is thrown off;    *)
(* hosts and users that we know are announced.                             *)
HHost(w, n, s) ==
  LET m == Peer(s, n)
      other == {o \in Between(n, m) \ {s} : w.conn[n][o] \in {"unknown", "host"}}
      w1 == IF other = {} THEN w ELSE Bye(w, n, CHOOSE o \in other : TRUE)
      w2 == UpdatePermlinks([w1 EXCEPT !.conn[n][s] = "host"], n, m, s)
      known == {h \in Host : w2.dest[n][h].rtt # 0}
      line(h) == [t |-> "DEST", h |-> h, rtt |-> w2.dest[n][h].rtt + 99]
  IN UpdateDestinations(
       SendTo(w2, n, {s}, (IF s[2] = n THEN <<[t |-> "HOST"]>> ELSE <<>>)
                          \o SetToSeq({line(h) : h \in known}) \o UserLines(w2, n)),
       n, m, {m}, 1)

(* ccpcvs(): a known host has connected us.  If its link is locked it is   *)
(* refused and stays at the CCP.                                           *)
Ccpcvs(w, n, s) ==
  LET m == Peer(s, n)
      old == w.perm[n][m].conn
      w1 == IF old = NoStream THEN w ELSE Bye(w, n, old)
  IN IF w.perm[n][m].locked THEN w
     ELSE UpdatePermlinks([w1 EXCEPT !.conn[n][s] = "unknown"], n, m, s)

(* free_connection() for the streams S: their links are free for a new     *)
(* connect; a stream is closed behind the lines that are under way.        *)
FreeConnections(w, n, S) ==
  LET open == {s \in S : n \in w.ends[s]}
      w1 == SendTo(w, n, open, <<[t |-> "EOF"]>>)
  IN [w1 EXCEPT !.conn[n] = [s \in StreamsOf(n) |-> IF s \in S THEN "none" ELSE @[s]],
                !.perm[n] = [m \in DOMAIN @ |->
                               IF @[m].conn \in S THEN [@[m] EXCEPT !.conn = NoStream] ELSE @[m]],
                !.ends = [s \in Stream |-> IF s \in open THEN @[s] \ {n} ELSE @[s]],
                !.q = [s \in Stream |-> IF s \in open THEN [@[s] EXCEPT ![n] = <<>>] ELSE @[s]]]

(* connect_cvshost() for the streams S.                                    *)
ConnectCvshost(w, n, S) ==
  [w EXCEPT !.conn[n] = [s \in StreamsOf(n) |-> IF s \in S THEN "unknown" ELSE @[s]],
            !.perm[n] = [m \in DOMAIN @ |->
                           IF <<n, m>> \in S THEN [conn |-> <<n, m>>, locked |-> FALSE] ELSE @[m]],
            !.ends = [s \in Stream |-> IF s \in S THEN {n} ELSE @[s]]]
=============================================================================
