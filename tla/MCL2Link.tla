------------------------------ MODULE MCL2Link ------------------------------
(* Values of the constants of L2Link for TLC.                              *)
EXTENDS L2Link

CONSTANTS east, west

TwoNodes == {east, west}

(* eax_behaviour of the ports: 0 refuses EAX.25, 1 follows the MHeard      *)
(* list, 2 tries EAX.25 first, 3 knows nothing else.                       *)
NoEax    == [n \in TwoNodes |-> 0]
MHeard   == [n \in TwoNodes |-> 1]
FirstEax == [n \in TwoNodes |-> IF n = east THEN 2 ELSE 1]

(* How many messages the users of each node send.                          *)
Simplex1 == [n \in TwoNodes |-> IF n = east THEN 1 ELSE 0]
Simplex  == [n \in TwoNodes |-> IF n = east THEN 2 ELSE 0]
Simplex3 == [n \in TwoNodes |-> IF n = east THEN 3 ELSE 0]

(* Where the runs on progress begin, as parts of the bounds used up: two   *)
(* messages and a lost frame; one message, a lost frame and one shortage   *)
(* of buffers; one message and two shortages, so that both ends are busy;  *)
(* one message, a lost frame, a restart and a second connect.              *)
UsedUp(connects, losses, restarts, shortages, msgs) ==
  [connect |-> connects, disconnect |-> 0, loss |-> losses,
   restart |-> restarts, low |-> shortages,
   msg |-> [n \in Node |-> IF n = east THEN msgs ELSE 0]]

Beginnings ==
  {UsedUp(1, 0, 1, 2, 0), UsedUp(1, 0, 1, 1, 1), UsedUp(1, 1, 1, 0, 1),
   UsedUp(0, 0, 0, 2, 1)}

ProgressInit ==
  /\ lk = [n \in Node |-> BlankLink]
  /\ txq = [n \in Node |-> <<>>]
  /\ rxq = [n \in Node |-> <<>>]
  /\ used \in Beginnings

ProgressSpec == ProgressInit /\ [][Next]_vars /\ Fairness
=============================================================================
