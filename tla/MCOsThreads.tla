----------------------------- MODULE MCOsThreads -----------------------------
(* Two threads on a semaphore. *)
EXTENDS OsThreads

MCUses == [t \in Threads |-> {"semaphore"}]
=============================================================================
