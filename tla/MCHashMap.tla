------------------------------ MODULE MCHashMap ------------------------------
(* Instances of HashMap. *)
EXTENDS HashMap, TLC

Symmetry == Permutations(Ops) \cup Permutations(Keys)
=============================================================================
