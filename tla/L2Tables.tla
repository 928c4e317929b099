------------------------------ MODULE L2Tables ------------------------------
(***************************************************************************)
(* The AX.25 level 2 state tables of l2stma.c.                             *)
(*                                                                         *)
(* A table gives, for the state a link is in, the function that transmits  *)
(* the answer, the state the link enters and the event that is reported to *)
(* the higher levels.  l2stma() runs them in that order.  Here a table is  *)
(* a function of the state; its three columns are written as rows, one     *)
(* entry per state 0..15.  The last row of the C tables, L2SHTH (a link    *)
(* that waits for a hop-to-hop connect), is left to the digipeating model. *)
(***************************************************************************)
EXTENDS Integers, Sequences

L2SDSCED == 0    \* disconnected
L2SLKSUP == 1    \* link setup, SABM sent
L2SFRREJ == 2    \* frame reject, FRMR sent
L2SDSCRQ == 3    \* disconnect request, DISC sent
L2SIXFER == 4    \* information transfer
L2SRS    == 5    \* REJ sent
L2SWA    == 6    \* waiting acknowledge, poll sent
L2SDBS   == 7    \* device busy
L2SRBS   == 8    \* remote busy
L2SBBS   == 9    \* both busy
L2SWADBS == 10   \* 10..12: waiting acknowledge, and device/remote/both busy
L2SWARBS == 11
L2SWABBS == 12
L2SRSDBS == 13   \* 13..15: REJ sent, and device/remote/both busy
L2SRSRBS == 14
L2SRSBBS == 15

States == 0 .. 15

(* The states in which I frames and N(R) count: "state >= L2SIXFER".       *)
Transfer == 4 .. 15

(* The link has sent a poll and waits for the final.                       *)
WaitStates == {L2SWA, L2SWADBS, L2SWARBS, L2SWABBS}

(* Device busy: this node told its peer to stop sending.                   *)
DeviceBusyStates ==
  {L2SDBS, L2SBBS, L2SWADBS, L2SWABBS, L2SRSDBS, L2SRSBBS}

(* The states from which itxwnd() and sdoi() let I frames go out.          *)
SendStates == {L2SIXFER, L2SRS, L2SDBS, L2SRSDBS}

Funcs == {"xnull", "xdm", "xua", "xsabm", "xdisc", "xfrmr", "xrrr", "xrnrr",
          "xrejr", "xrrc", "xrnrc", "sdipoll", "t2rrr", "t2rnrr", "t2rejr"}

(* Events for the higher levels; each has a message function in mftb[].    *)
Msgs == {"NIX", "CONNT", "DISCF", "BUSYF", "FAILW", "LRESF", "LREST",
         "FRMRF", "FRMRT"}

-----------------------------------------------------------------------------
Column(n, x) == [i \in 1 .. n |-> x]

Table(func, next, msg) ==
  [s \in States |->
     [func |-> func[s + 1], next |-> next[s + 1], msg |-> msg[s + 1]]]

Down   == Column(16, L2SDSCED)
Setup  == Column(16, L2SLKSUP)
Quiet  == Column(16, "NIX")
Silent == Column(16, "xnull")

(* A polled command answered from a link that is disconnecting ends it.    *)
PollQuiet == Column(3, "NIX") \o <<"DISCF">> \o Column(12, "NIX")

(* The answer to a polled command: RNR while this device is busy, RR else. *)
RRorRNR ==
  <<"xdm", "xnull", "xfrmr", "xdm", "xrrr", "xrrr", "xrrr", "xrnrr",
    "xrrr", "xrnrr", "xrnrr", "xrrr", "xrnrr", "xrnrr", "xrrr", "xrnrr">>

(* The delayed answer to a command without poll.                           *)
T2RRorRNR ==
  Column(4, "xnull") \o
  <<"t2rrr", "t2rrr", "t2rrr", "t2rnrr", "t2rrr", "t2rnrr",
    "t2rnrr", "t2rrr", "t2rnrr", "t2rnrr", "t2rrr", "t2rnrr">>

(* The state after RR or REJ (remote no longer busy) and after RNR.        *)
RemoteReady == <<0, 1, 2, 3, 4, 5, 6, 7, 4, 7, 10, 6, 10, 13, 5, 13>>
RemoteBusy  == <<0, 1, 2, 3, 8, 14, 11, 9, 8, 9, 12, 11, 12, 15, 14, 15>>
Polled(next) == [next EXCEPT ![4] = L2SDSCED]

\* I with poll
stbl00 == Table(RRorRNR,
                <<0, 1, 2, 0, 4, 4, 6, 7, 8, 9, 10, 11, 12, 13, 8, 15>>, PollQuiet)
\* I without poll
stbl01 == Table(T2RRorRNR,
                <<0, 1, 2, 3, 4, 4, 6, 7, 8, 9, 10, 11, 12, 13, 8, 15>>, Quiet)
\* RR command with poll; stbl04, REJ command with poll, is the same table
stbl02 == Table(RRorRNR, Polled(RemoteReady), PollQuiet)
\* RR command without poll; also stbl05, stbl11, stbl13
stbl03 == Table(Silent, RemoteReady, Quiet)
\* RNR command with poll
stbl06 == Table(RRorRNR, Polled(RemoteBusy), PollQuiet)
\* RNR without poll; also stbl15
stbl07 == Table(Silent, RemoteBusy, Quiet)
\* SABM, SABME
stbl08 == Table(Column(16, "xua"),
                <<4, 4, 4, 0, 4, 4, 4, 7, 4, 7, 7, 4, 7, 7, 4, 4>>,
                <<"CONNT", "CONNT", "LRESF", "DISCF">> \o Column(12, "LRESF"))
\* DISC
stbl09 == Table(<<"xdm", "xdm">> \o Column(14, "xua"), Down,
                <<"NIX", "BUSYF">> \o Column(14, "DISCF"))
\* RR response with final; stbl12, REJ response with final, is the same table
stbl10 == Table(Silent,
                <<0, 1, 2, 3, 4, 5, 4, 7, 4, 7, 7, 4, 7, 13, 5, 13>>, Quiet)
\* RNR response with final
stbl14 == Table(Silent,
                <<0, 1, 2, 3, 8, 14, 8, 9, 8, 9, 9, 8, 9, 15, 14, 15>>, Quiet)
\* UA
stbl16 == Table(Column(5, "xnull") \o Column(11, "xsabm"),
                <<0, 4, 2, 0, 4>> \o Column(11, L2SLKSUP),
                <<"NIX", "CONNT", "NIX", "DISCF", "NIX">> \o Column(11, "LREST"))
\* DM
stbl17 == Table(Silent, Down, <<"NIX", "BUSYF">> \o Column(14, "DISCF"))
\* FRMR
stbl18 == Table(<<"xnull", "xnull", "xsabm", "xnull">> \o Column(12, "xsabm"),
                <<0, 1, 1, 3>> \o Column(12, L2SLKSUP),
                <<"NIX", "NIX", "FRMRF", "NIX">> \o Column(12, "FRMRF"))
\* local start
stbl19 == Table(Column(16, "xsabm"), Setup, Quiet)
\* local stop
stbl20 == Table(<<"xnull">> \o Column(15, "xdisc"),
                <<0, 0>> \o Column(14, L2SDSCRQ), Quiet)
\* this station becomes busy
stbl21 == Table(<<"xnull", "xnull", "xnull", "xnull", "t2rnrr", "t2rnrr",
                  "t2rnrr", "xnull", "t2rnrr", "xnull", "xnull", "t2rnrr",
                  "xnull", "xnull", "t2rnrr", "xnull">>,
                <<0, 1, 2, 3, 7, 13, 10, 7, 9, 9, 10, 12, 12, 13, 15, 15>>, Quiet)
\* busy condition clears
stbl22 == Table(Column(7, "xnull") \o
                <<"xrrc", "xnull", "xrrc", "xrrc", "xnull", "xrrc", "xrrc", "xnull", "xrrc">>,
                <<0, 1, 2, 3, 4, 5, 6, 6, 8, 11, 6, 11, 11, 6, 14, 11>>, Quiet)
\* T1 expires
stbl23 == Table(<<"xnull", "xsabm", "xfrmr", "xdisc", "sdipoll", "sdipoll",
                  "sdipoll", "xrnrc", "xrrc", "xrnrc", "xrnrc", "xrrc",
                  "xrnrc", "xrnrc", "xrrc", "xrnrc">>,
                <<0, 1, 2, 3, 6, 6, 6, 10, 11, 12, 10, 11, 12, 10, 11, 10>>, Quiet)
\* T3 expires
stbl24 == Table(<<"xnull", "xsabm", "xfrmr", "xdisc", "xrrc", "xrrc",
                  "xnull", "xrnrc", "xrrc", "xrnrc", "xnull", "xnull",
                  "xnull", "xrnrc", "xrrc", "xrnrc">>,
                <<0, 1, 2, 3, 6, 6, 6, 10, 11, 12, 10, 11, 12, 10, 11, 10>>, Quiet)
\* N2 (retries) exceeded
stbl25 == Table([Silent EXCEPT ![7] = "xdisc"], Down,
                <<"NIX">> \o Column(15, "FAILW"))
\* I frame out of sequence, without and with poll
stbl26 == Table(Column(4, "xnull") \o
                <<"t2rejr", "xnull", "xnull", "t2rnrr", "t2rejr", "t2rnrr",
                  "xnull", "xnull", "xnull", "t2rnrr", "xnull", "t2rnrr">>,
                <<0, 1, 2, 3, 5, 5, 6, 7, 14, 9, 10, 11, 12, 13, 14, 15>>, Quiet)
stb26b == Table(<<"xdm", "xnull", "xfrmr", "xdm", "xrejr", "xrejr", "xrejr",
                  "xrnrr", "xrejr", "xrnrr", "xrnrr", "xrejr", "xrnrr",
                  "xrnrr", "xrejr", "xrnrr">>,
                <<0, 1, 2, 0, 5, 5, 6, 7, 14, 9, 10, 11, 12, 13, 14, 15>>, PollQuiet)
\* N(R) out of range, or a frame that cannot be understood
stbl27 == Table(Column(4, "xnull") \o Column(12, "xfrmr"),
                <<0, 1, 2, 3>> \o Column(12, L2SFRREJ),
                Column(4, "NIX") \o Column(12, "FRMRT"))
=============================================================================
