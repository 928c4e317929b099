-------------------------------- MODULE MCL4 --------------------------------
(* Values of the constants of L4Circuit for TLC.                           *)
EXTENDS L4Circuit

CONSTANTS east, west

TwoNodes == {east, west}

(* T-Window of the nodes; the largest that may be set.                     *)
Window2 == [n \in TwoNodes |-> 2]
Window127 == [n \in TwoNodes |-> 127]

(* How many messages go over each circuit, in the order they are opened.   *)
FourOne == <<4, 1>>
Three == <<3, 0>>
OneEach == <<1, 1, 1, 0>>
ThreeOnly == <<3, 0, 0, 0, 0>>
Two == <<2, 0>>
=============================================================================
