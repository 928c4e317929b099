------------------------------ MODULE Convers -------------------------------
(***************************************************************************)
(* A network of convers servers (cvs_serv.c, cvs_cmds.c, cvs_cvsd.c): each *)
(* host reads the lines of its connections one at a time (convers_input()) *)
(* and once in a second sweeps up closed connections and connects to other *)
(* hosts (conversd()).                                                     *)
(*                                                                         *)
(* A stream is a link or circuit set up by connect_cvshost(): it carries   *)
(* lines in order until one end disconnects or it fails.  Times are left   *)
(* out: a link may be due at any time.  The same pair connects again only  *)
(* when both ends have swept up the old connection.                        *)
(***************************************************************************)
EXTENDS ConversTables

CONSTANTS
  Logins,    \* <<u, n, ch>>: user u may log in at host n, on channel ch
  \* Bounds of the state space.
  MaxEvents,    \* commands of users
  MaxMessages,  \* texts sent to a channel
  MaxFaults     \* streams that fail, operators that reset a link, early timeouts,
                \* locked links that are tried again

VARIABLES conn, ends, q, perm, dest, local, remote, chans,  \* see ConversTables
  heard,   \* how often each user got the text
  used     \* how much of each bound is used up

vars == <<conn, ends, q, perm, dest, local, remote, chans, heard, used>>

World == [conn |-> conn, ends |-> ends, q |-> q, perm |-> perm, dest |-> dest,
          local |-> local, remote |-> remote, chans |-> chans]

Become(world) == \E w \in {world} :
  /\ conn' = w.conn /\ ends' = w.ends /\ q' = w.q /\ perm' = w.perm /\ dest' = w.dest
  /\ local' = w.local /\ remote' = w.remote /\ chans' = w.chans

Use(what, max) == used[what] < max /\ used' = [used EXCEPT ![what] = @ + 1]

-----------------------------------------------------------------------------
(* Streams.                                                                *)

InSetup(s) == ends[s] = {s[1]} /\ q[s][s[1]] = <<>>

(* l2tol7(), CONNT: the caller starts convers at the other end.            *)
Established(s) ==
  /\ InSetup(s)
  /\ ends' = [ends EXCEPT ![s] = {s[1], s[2]}]
  /\ q' = [q EXCEPT ![s][s[2]] = <<[t |-> "convers"], [t |-> "HOST"]>>]
  /\ UNCHANGED <<conn, perm, dest, local, remote, chans, heard, used>>

(* The connect is refused, or nobody answers.                              *)
NotEstablished(s) ==
  /\ InSetup(s)
  /\ Use("faults", MaxFaults)
  /\ q' = [q EXCEPT ![s][s[1]] = <<[t |-> "EOF"]>>]
  /\ UNCHANGED <<conn, ends, perm, dest, local, remote, chans, heard>>

(* The stream fails: what is under way is lost.                            *)
Fail(s) ==
  /\ ends[s] = {s[1], s[2]}
  /\ Use("faults", MaxFaults)
  /\ q' = [q EXCEPT ![s] = [n \in {s[1], s[2]} |-> <<[t |-> "EOF"]>>]]
  /\ UNCHANGED <<conn, ends, perm, dest, local, remote, chans, heard>>

(* clrccp(): the connection has no user block any more.                    *)
Broken(w, n, s) == Bye([w EXCEPT !.ends[s] = @ \ {n}, !.q[s][n] = <<>>], n, s)

-----------------------------------------------------------------------------
(* send_msg_to_channel(): a text for the users of channel ch; from is the  *)
(* stream or the user that it comes from.                                  *)
Hear(n, ch, from) ==
  heard' = [x \in Logins |->
    IF x[2] = n /\ x[1] # from /\ On(World, n, x[1], ch) THEN heard[x] + 1 ELSE heard[x]]
(* Mutant: the host that a text comes from gets it back.                   *)
PassOn_Echo(w, n, ch, from) ==
  SendTo(w, n, {w.remote[n][i].via : i \in {j \in DOMAIN w.remote[n] : w.remote[n][j].ch = ch}},
         <<[t |-> "CMSG", ch |-> ch]>>)

PassOn(w, n, ch, from) ==
  LET vias == {w.remote[n][i].via : i \in {j \in DOMAIN w.remote[n] : w.remote[n][j].ch = ch}}
  IN SendTo(w, n, vias \ {from}, <<[t |-> "CMSG", ch |-> ch]>>)

(* convers_input() takes a line of another host; what the connection does  *)
(* not know is dropped (h_unknown_command()).                              *)
Arrives(n, s, t) == n \in ends[s] /\ q[s][n] # <<>> /\ Head(q[s][n]).t = t
First(n, s) == Head(q[s][n])
Rest(n, s) == [World EXCEPT !.q[s][n] = Tail(@)]
Looped(n, s) == IsLooped(World, n, Peer(s, n), First(n, s).h)

Lost(n, s) ==
  /\ Arrives(n, s, "EOF")
  /\ Become(Broken(World, n, s))
  /\ UNCHANGED <<heard, used>>

ConversLine(n, s) ==
  /\ Arrives(n, s, "convers") /\ conn[n][s] = "none"
  /\ Become(Ccpcvs(Rest(n, s), n, s))
  /\ UNCHANGED <<heard, used>>

HostLine(n, s) ==
  /\ Arrives(n, s, "HOST") /\ conn[n][s] = "unknown"
  /\ Become(HHost(Rest(n, s), n, s))
  /\ UNCHANGED <<heard, used>>

LoopedLine(n, s) ==
  /\ Arrives(n, s, "DEST") \/ Arrives(n, s, "USER")
  /\ conn[n][s] = "host" /\ Looped(n, s)
  /\ Become(LoopDetect(Rest(n, s), n, s))
  /\ UNCHANGED <<heard, used>>

DestLine(n, s) ==
  /\ Arrives(n, s, "DEST") /\ conn[n][s] = "host" /\ ~Looped(n, s)
  /\ Become(HDest(Rest(n, s), n, s, First(n, s)))
  /\ UNCHANGED <<heard, used>>

UserLine(n, s) ==
  /\ Arrives(n, s, "USER") /\ conn[n][s] = "host" /\ ~Looped(n, s)
  /\ Become(HUser(Rest(n, s), n, s, First(n, s)))
  /\ UNCHANGED <<heard, used>>

AwayLine(n, s) ==
  /\ Arrives(n, s, "AWAY") /\ conn[n][s] = "host"
  /\ Become(HAway(Rest(n, s), n, s, First(n, s)))
  /\ UNCHANGED <<heard, used>>

CmsgLine(n, s) ==
  /\ Arrives(n, s, "CMSG") /\ conn[n][s] = "host"
  /\ Become(PassOn(Rest(n, s), n, First(n, s).ch, s))
  /\ Hear(n, First(n, s).ch, s)
  /\ UNCHANGED used

Dropped(n, s) ==
  /\ n \in ends[s] /\ q[s][n] # <<>>
  /\ LET t == First(n, s).t
         type == conn[n][s]
     IN /\ t # "EOF" /\ ~(t = "convers" /\ type = "none") /\ ~(t = "HOST" /\ type = "unknown")
        /\ t \in {"convers", "HOST"} \/ type # "host"
  /\ Become(Rest(n, s))
  /\ UNCHANGED <<heard, used>>

Receive(n, s) ==
  \/ Lost(n, s) \/ ConversLine(n, s) \/ HostLine(n, s) \/ LoopedLine(n, s) \/ DestLine(n, s)
  \/ UserLine(n, s) \/ AwayLine(n, s) \/ CmsgLine(n, s) \/ Dropped(n, s)

-----------------------------------------------------------------------------
(* conversd(): free_closed_connections() and connect_permlinks().          *)

Waiting(n) == {s \in StreamsOf(n) : conn[n][s] = "unknown"}
(* Nothing will come of this connection any more.                          *)
Hopeless(n, s) == s \in Waiting(n) /\ ends[s] = {s[1], s[2]} /\ \A e \in ends[s] : q[s][e] = <<>>
(* Links that are due, once the connections S are swept up.                *)
Due(n, S) ==
  {s \in StreamsOf(n) : /\ s[1] = n /\ s[2] \in DOMAIN perm[n]
                        /\ perm[n][s[2]].conn \in S \cup {NoStream}
                        /\ IF s \in S THEN ends[s] \subseteq {n} ELSE ends[s] = {}
                        /\ s \in S \/ conn[n][s] = "none"
                        /\ conn[s[2]][s] = "none"}

Conversd(n, late, due) ==
  LET swept == late \cup {s \in StreamsOf(n) : conn[n][s] = "closed"}
  IN /\ late \subseteq Waiting(n) /\ due \subseteq Due(n, swept) /\ swept \cup due # {}
     /\ IF (\A s \in late : Hopeless(n, s)) /\ (\A s \in due : ~perm[n][s[2]].locked)
        THEN UNCHANGED used ELSE Use("faults", MaxFaults)
     /\ Become(ConnectCvshost(FreeConnections(World, n, swept), n, due))
     /\ UNCHANGED heard

(* links_command(): an operator gives the link new data.                   *)
Links(n, m) ==
  /\ m \in DOMAIN perm[n]
  /\ Use("faults", MaxFaults)
  /\ LET old == perm[n][m].conn
         w == IF old = NoStream THEN World ELSE Bye(World, n, old)
     IN Become([w EXCEPT !.perm[n][m] = [conn |-> NoStream, locked |-> FALSE]])
  /\ UNCHANGED heard

-----------------------------------------------------------------------------
(* Users.                                                                  *)

Here(n, u) == local[n][u].list # <<>>

(* ccpcvs() and name_command(): nobody is in twice (CheckUserCVS()).       *)
Login(n, u, ch) ==
  /\ <<u, n, ch>> \in Logins /\ ~Here(n, u)
  /\ \A i \in DOMAIN remote[n] : remote[n][i].u # u
  /\ Use("events", MaxEvents)
  /\ Become(Name(World, n, u, ch))
  /\ UNCHANGED heard

Join(n, u, ch) ==
  /\ Here(n, u) /\ local[n][u].def # ch
  /\ Use("events", MaxEvents)
  /\ Become(JoinChannel(World, n, u, ch))
  /\ UNCHANGED heard

Leave(n, u, ch) ==
  /\ Here(n, u) /\ On(World, n, u, ch)
  /\ Use("events", MaxEvents)
  /\ Become(LeaveChannel(World, n, u, ch))
  /\ UNCHANGED heard

(* bye_command(), or the user's link goes.                                 *)
Quit(n, u) ==
  /\ Here(n, u)
  /\ Use("events", MaxEvents)
  /\ Become(ByeUser(World, n, u))
  /\ UNCHANGED heard

(* away_command()                                                          *)
Away(n, u) ==
  /\ Here(n, u)
  /\ Use("events", MaxEvents)
  /\ LET away == ~local[n][u].away IN
     Become(SendTo([World EXCEPT !.local[n][u].away = away], n, HostConns(World, n),
                   <<[t |-> "AWAY", u |-> u, h |-> n, away |-> away]>>))
  /\ UNCHANGED heard

(* process_input(): a text for the current channel.                        *)
Say(n, u) ==
  /\ Here(n, u)
  /\ Use("messages", MaxMessages)
  /\ Become(PassOn(World, n, local[n][u].def, NoStream))
  /\ Hear(n, local[n][u].def, u)

(* No host is connected yet; the PERMLINKs are those of the configured     *)
(* streams, and the users of logged are there.                             *)
Unconnected(streams, logged) ==
  [conn |-> [n \in Host |-> [s \in StreamsOf(n) |-> "none"]],
   ends |-> [s \in Stream |-> {}],
   q |-> [s \in Stream |-> [n \in {s[1], s[2]} |-> <<>>]],
   perm |-> [n \in Host |-> [m \in {Peer(s, n) : s \in streams \cap StreamsOf(n)} |->
                             [conn |-> NoStream, locked |-> FALSE]]],
   dest |-> [n \in Host |-> [h \in Host |-> [link |-> NoHost, rtt |-> 0, sent |-> 0]]],
   local |-> [n \in Host |-> [u \in User |->
                LET his == {x \in logged : x[1] = u /\ x[2] = n} IN
                IF his = {} THEN NotHere
                ELSE LET ch == (CHOOSE x \in his : TRUE)[3]
                     IN [list |-> <<ch>>, def |-> ch, away |-> FALSE]]],
   remote |-> [n \in Host |-> <<>>],
   chans |-> [n \in Host |-> {x[3] : x \in {y \in logged : y[2] = n}}]]

Unused == [events |-> 0, messages |-> 0, faults |-> 0]

Start(w, done) ==
  /\ conn = w.conn /\ ends = w.ends /\ q = w.q /\ perm = w.perm /\ dest = w.dest
  /\ local = w.local /\ remote = w.remote /\ chans = w.chans
  /\ heard = [x \in Logins |-> 0] /\ used = done

Init == Start(Unconnected(Stream, {}), Unused)

Next ==
  \/ \E s \in Stream : Established(s) \/ NotEstablished(s) \/ Fail(s)
  \/ \E n \in Host :
       \/ \E s \in StreamsOf(n) : Receive(n, s)
       \/ \E late, due \in SUBSET StreamsOf(n) : Conversd(n, late, due)
       \/ \E m \in Host : Links(n, m)
       \/ \E u \in User : Quit(n, u) \/ Away(n, u) \/ Say(n, u)
       \/ \E u \in User, ch \in Channel : Login(n, u, ch) \/ Join(n, u, ch) \/ Leave(n, u, ch)

Spec == Init /\ [][Next]_vars

-----------------------------------------------------------------------------
(* Properties *)

(* A channel that somebody is on exists: process_input() and               *)
(* send_msg_to_channel() take its flags without a look at the pointer.     *)
ChannelsExist ==
  \A n \in Host :
    /\ \A u \in User : Range(local[n][u].list) \subseteq chans[n]
    /\ \A i \in DOMAIN remote[n] : remote[n][i].ch \in chans[n]

(* A user's via and the link of a destination that is reached lead to a    *)
(* connection that exists: h_rout_command() and send_msg_to_user() send    *)
(* there without a look at the pointer.                                    *)
WaysOpen ==
  \A n \in Host :
    /\ \A i \in DOMAIN remote[n] : conn[n][remote[n][i].via] = "host"
    /\ \A h \in Host : dest[n][h].rtt # 0 =>
         LET way == perm[n][dest[n][h].link].conn IN way # NoStream /\ conn[n][way] = "host"

(* An AWAY is about a user that is known: h_away_command() takes his       *)
(* nickname without a look at the pointer.                                 *)
AwayKnown ==
  \A n \in Host : \A s \in StreamsOf(n) :
    n \in ends[s] /\ conn[n][s] = "host" /\ q[s][n] # <<>> /\ Head(q[s][n]).t = "AWAY" =>
      \E i \in DOMAIN remote[n] : remote[n][i].u = Head(q[s][n]).u /\ remote[n][i].h = Head(q[s][n]).h

(* Nobody gets a text twice: it goes once to each host link with a user on *)
(* its channel, and links do not change under it so that it comes again.   *)
HeardOnce == \A x \in Logins : heard[x] <= used.messages

(* In a network without a loop no link is locked because of one.           *)
Linked == UNION {{{n, m} : m \in DOMAIN perm[n]} : n \in Host}
Tree == Cardinality(Linked) < Cardinality(Host)
NoFalseAlarm ==
  Tree => \A n \in Host : \A m \in DOMAIN perm[n] : ~perm[n][m].locked

(* The main loop runs, and a stream that is being set up is answered.      *)
Progress ==
  \/ \E s \in Stream : Established(s)
  \/ \E n \in Host :
       \/ \E s \in StreamsOf(n) : Receive(n, s)
       \/ \E due \in SUBSET StreamsOf(n) :
            Conversd(n, {s \in StreamsOf(n) : Hopeless(n, s)}, due)
Fairness == WF_vars(Progress)
FairSpec == Spec /\ Fairness

(* When nobody disturbs it any more, every host of a network without loops *)
(* gets to know all users of the others, on the channels they are on, and  *)
(* nobody else: whatever came between a change and the links that carry it.*)
Agree ==
  LET hosts == {n \in Host : DOMAIN perm[n] # {}} IN
  \A n \in hosts :
    {<<r.u, r.h, r.ch>> : r \in Range(remote[n])} =
    {x \in User \X (hosts \ {n}) \X Channel : On(World, x[2], x[1], x[3])}
Converges == <>[](Tree => Agree)

(* A loop of host links does not last: sooner or later one of its links is *)
(* locked, and what is left stays free of loops.                           *)
HostLinks == {{s[1], s[2]} : s \in {t \in Stream : \A n \in {t[1], t[2]} : conn[n][t] = "host"}}
LoopCut == <>[](Cardinality(HostLinks) < Cardinality(Host))
=============================================================================
