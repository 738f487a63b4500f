------------------------------ MODULE Operation ------------------------------
(***************************************************************************)
(* What a user of the virtual data mover may rely on, future by future. An *)
(* operation is submitted once, performed once and only then reported      *)
(* complete; or it could not be allocated, or its mover reports that it    *)
(* failed, and is complete without having been performed. An operation may *)
(* be performed after the user lost interest in it, never after its mover  *)
(* is gone.                                                                *)
(***************************************************************************)
CONSTANTS
  Futs,
  Faulty   \* futures of a mover that may report an operation as not performed

VARIABLES phase, gone

ovars == <<phase, gone>>

OInit ==
  /\ phase = [f \in Futs |-> "none"]
  /\ gone = FALSE

Become(f, from, to) ==
  /\ phase[f] = from
  /\ phase' = [phase EXCEPT ![f] = to]

ONext ==
  \/ /\ ~gone
     /\ \E f \in Futs : \/ Become(f, "none", "created")
                        \/ Become(f, "none", "failed")
                        \/ Become(f, "created", "submitted")
                        \/ Become(f, "submitted", "performed")
                        \/ Become(f, "created", "performed")
                        \/ Become(f, "performed", "complete")
                        \/ f \in Faulty /\ Become(f, "created", "failed")
                        \/ f \in Faulty /\ Become(f, "submitted", "failed")
     /\ UNCHANGED gone
  \/ /\ ~gone
     /\ \A f \in Futs : phase[f] # "submitted"
     /\ gone' = TRUE
     /\ UNCHANGED phase

OSpec == OInit /\ [][ONext]_ovars
=============================================================================
