------------------------------ MODULE L7Board -------------------------------
(***************************************************************************)
(* What level 7 promises to those who use the node: stations come and go,  *)
(* and two of them may be patched through to each other.  A patch is made  *)
(* only between ends that have none, and it lasts until one of its ends    *)
(* goes: what a third station does never breaks or redirects it.           *)
(***************************************************************************)
EXTENDS Naturals, FiniteSets

CONSTANTS Station

VARIABLES
  here,    \* the stations that are connected
  patch    \* the pairs that are through to each other

vars == <<here, patch>>

Free(s) == \A p \in patch : s \notin p

Come(s) ==
  /\ s \notin here
  /\ here' = here \cup {s}
  /\ \/ UNCHANGED patch
     \/ \E t \in here : Free(t) /\ patch' = patch \cup {{s, t}}

Join(s, t) ==
  /\ {s, t} \subseteq here /\ s # t
  /\ Free(s) /\ Free(t)
  /\ patch' = patch \cup {{s, t}}
  /\ UNCHANGED here

Go(s) ==
  /\ s \in here
  /\ here' = here \ {s}
  /\ patch' = {p \in patch : s \notin p}

Init == here = {} /\ patch = {}

Next == \E s, t \in Station : Come(s) \/ Join(s, t) \/ Go(s)

Spec == Init /\ [][Next]_vars
=============================================================================
