----------------------------- MODULE MCErrorMsg ------------------------------
(***************************************************************************)
(* Instances of ErrorMsg and OsThreads: two threads that use everything    *)
(* and one more that uses the rwlock, so that two readers and a writer     *)
(* meet.                                                                   *)
(***************************************************************************)
EXTENDS ErrorMsg

CONSTANTS t1, t2, t3

MCUses ==
  [t \in Threads |->
     IF t = t3 THEN {"rwlock"} ELSE {"mutex", "rwlock", "once", "semaphore"}]
=============================================================================
