------------------------------- MODULE L2Pipe -------------------------------
(***************************************************************************)
(* What level 2 promises to the levels above: two pipes, one from each     *)
(* node to its peer.  A node's messages are numbered in the order in which *)
(* they are offered.  The peer takes them in that order, without a gap and *)
(* without a duplicate, until one of the two links is reset; a message is  *)
(* confirmed to its sender only when the peer has taken it.  Only a link   *)
(* that goes down drops what is still pending, and all of it.              *)
(***************************************************************************)
EXTENDS Naturals, Sequences

CONSTANT Node

VARIABLES
  offered,    \* offered[n]: how many messages n has offered
  pending,    \* pending[n]: those of them not yet confirmed, in order
  taken,      \* taken[n]: the messages of its peer that n has taken
  last,       \* last[n]: the last of them since n's link was reset, or 0
  up          \* up[n]: does n have a link, or wait for one?

vars == <<offered, pending, taken, last, up>>

Peer(n) == CHOOSE m \in Node : m # n

Init ==
  /\ offered = [n \in Node |-> 0]
  /\ pending = [n \in Node |-> <<>>]
  /\ taken = [n \in Node |-> {}]
  /\ last = [n \in Node |-> 0]
  /\ up = [n \in Node |-> FALSE]

(* The levels above offer the next message.                                *)
Offer(n) ==
  /\ up[n]
  /\ offered' = [offered EXCEPT ![n] = @ + 1]
  /\ pending' = [pending EXCEPT ![n] = Append(@, offered'[n])]
  /\ UNCHANGED <<taken, last, up>>

(* As a receiver n takes the next message of its peer, or is reset.        *)
Take(n) ==
  /\ up[n]
  /\ \E d \in 1 .. offered[Peer(n)] :
       /\ last[n] \in {0, d - 1}
       /\ taken' = [taken EXCEPT ![n] = @ \cup {d}]
       /\ last' = [last EXCEPT ![n] = d]

ResetReceiver(n) ==
  /\ last' = [last EXCEPT ![n] = 0]
  /\ UNCHANGED taken

(* As a sender n has messages confirmed, or its link ends.                 *)
Confirm(n) ==
  \E k \in 1 .. Len(pending[n]) :
    /\ up[n]
    /\ \A i \in 1 .. k : pending[n][i] \in taken[Peer(n)]
    /\ pending' = [pending EXCEPT ![n] = SubSeq(@, k + 1, Len(@))]

Drop(n) ==
  /\ ~up'[n]
  /\ pending' = [pending EXCEPT ![n] = <<>>]

(* One frame can be news for both of n's roles, and end the link.          *)
Work(n) ==
  /\ \E u \in BOOLEAN : up' = [up EXCEPT ![n] = u]
  /\ Take(n) \/ ResetReceiver(n) \/ UNCHANGED <<taken, last>>
  /\ Confirm(n) \/ Drop(n) \/ UNCHANGED pending
  /\ UNCHANGED offered

Next == \E n \in Node : Offer(n) \/ Work(n)

Spec == Init /\ [][Next]_vars
=============================================================================
