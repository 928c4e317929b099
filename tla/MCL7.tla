-------------------------------- MODULE MCL7 --------------------------------
(***************************************************************************)
(* Instances of L7Patch for TLC: stations a and b on level 2, k on a       *)
(* circuit, and one console channel h1.                                    *)
(***************************************************************************)
EXTENDS L7Patch

CONSTANTS a, b, k, h1

MCHostPos == [h \in HostUser |-> 1]

Symmetry == Permutations({a, b})
=============================================================================
