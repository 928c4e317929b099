------------------------------- MODULE L4Pipe -------------------------------
(***************************************************************************)
(* What level 4 promises to level 7.  A circuit is an end of a connection; *)
(* it opens once, and ends for good.  It numbers the messages level 7      *)
(* offers it.  Its partner takes them in that order, each one once and     *)
(* none left out, from the first to the last it takes; there are no        *)
(* resets.  A message is confirmed only when the partner has taken it.     *)
(* Only a circuit that ends drops what is pending, and all of it.          *)
(***************************************************************************)
EXTENDS Naturals, Sequences

CONSTANT Id     \* the circuits of both nodes

VARIABLES
  stage,      \* stage[s]: "new", "open" or "ended"
  peer,       \* peer[s]: the partner of an open circuit, 0 if not yet known
  offered,    \* offered[s]: how many messages level 7 has offered
  pending,    \* pending[s]: those of them not yet confirmed, in order
  taken       \* taken[s]: the messages of its partner that s has taken

vars == <<stage, peer, offered, pending, taken>>

Message(s, k) == [from |-> s, no |-> k]

Init ==
  /\ stage = [s \in Id |-> "new"]
  /\ peer = [s \in Id |-> 0]
  /\ offered = [s \in Id |-> 0]
  /\ pending = [s \in Id |-> <<>>]
  /\ taken = [s \in Id |-> <<>>]

(* A circuit is the partner of one circuit only.                           *)
Single(p) == p # 0 => p \in Id /\ \A q \in Id : peer[q] # p

(* A circuit opens, calling or called by p.                                *)
Begin(s) ==
  /\ stage[s] = "new"
  /\ stage' = [stage EXCEPT ![s] = "open"]
  /\ \E p \in Id \cup {0} : Single(p) /\ peer' = [peer EXCEPT ![s] = p]
  /\ UNCHANGED <<offered, pending, taken>>

Meet(s) ==
  /\ stage[s] = "open" /\ peer[s] = 0
  /\ \E p \in Id : Single(p) /\ peer' = [peer EXCEPT ![s] = p]
  /\ UNCHANGED <<stage, offered, pending, taken>>

Offer(s) ==
  /\ stage[s] = "open"
  /\ offered' = [offered EXCEPT ![s] = @ + 1]
  /\ pending' = [pending EXCEPT ![s] = Append(@, Message(s, offered'[s]))]
  /\ UNCHANGED <<stage, peer, taken>>

(* As a receiver s takes some of its partner's messages, the next ones.    *)
Take(s) ==
  \E k \in Len(taken[s]) + 1 .. offered[peer[s]] :
    taken' = [taken EXCEPT
      ![s] = [j \in 1 .. k |-> IF j <= Len(@) THEN @[j] ELSE Message(peer[s], j)]]

(* As a sender it has some of its own confirmed.                           *)
Confirm(s) ==
  \E k \in 1 .. Len(pending[s]) :
    /\ \A j \in 1 .. k :
         \E h \in 1 .. Len(taken[peer[s]]) : taken[peer[s]][h] = pending[s][j]
    /\ pending' = [pending EXCEPT ![s] = SubSeq(@, k + 1, Len(@))]

(* One datagram can be news for both.                                      *)
Work(s) ==
  /\ stage[s] = "open" /\ peer[s] # 0
  /\ Take(s) \/ UNCHANGED taken
  /\ Confirm(s) \/ UNCHANGED pending
  /\ UNCHANGED <<stage, peer, offered>>

(* Circuits end: one of them, or, with their node, several.                *)
End ==
  LET over == {s \in Id : stage[s] = "open" /\ stage'[s] = "ended"}
  IN  /\ over # {}
      /\ stage' = [s \in Id |-> IF s \in over THEN "ended" ELSE stage[s]]
      /\ peer' = [s \in Id |-> IF s \in over THEN 0 ELSE peer[s]]
      /\ pending' = [s \in Id |-> IF s \in over THEN <<>> ELSE pending[s]]
      /\ UNCHANGED <<offered, taken>>

Next ==
  \/ \E s \in Id : Begin(s) \/ Meet(s) \/ Offer(s) \/ Work(s)
  \/ End

Spec == Init /\ [][Next]_vars
=============================================================================
