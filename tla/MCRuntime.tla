------------------------------ MODULE MCRuntime ------------------------------
(***************************************************************************)
(* Instances of Runtime: two callers with a future each, or one caller     *)
(* with several.                                                           *)
(***************************************************************************)
EXTENDS Runtime, TLC

CONSTANTS c1, c2, f1, f2, f3

OneEach == f1 :> c1 @@ f2 :> c2
AllMine == [f \in Futs |-> c1]

Symmetry == Permutations(Workers)
=============================================================================
