------------------------------ MODULE ErrorMsg -------------------------------
(***************************************************************************)
(* The last error message of each thread (out.c), on the thread layer of   *)
(* OsThreads: a buffer in thread-local storage under a key that os_once    *)
(* creates. A thread's "once" session is a call of out_err or              *)
(* out_get_errormsg. One thread may call out_fini, which deletes the key.  *)
(***************************************************************************)
EXTENDS OsThreads

CONSTANT Messages

VARIABLES
  key,    \* Last_errormsg_key: "none", "live" or "deleted"
  slot,   \* what each thread's TLS slot points to: NULL, or a buffer
  last    \* the last error each thread has reported

evars == <<key, slot, last>>
allvars == <<vars, evars>>

EInit ==
  /\ Init
  /\ key = "none"
  /\ slot = [t \in Threads |-> NULL] /\ last = [t \in Threads |-> NULL]

\* A new buffer "contains empty string initially".
EmptyMsg == ""

\* os_thread_windows.c's thread-local storage, one key. A deleted key holds
\* nothing and takes nothing; deleting it, or ending a thread, runs free on the
\* buffers.
os_tls_key_create == key' = "live" /\ UNCHANGED slot
os_tls_key_delete == key' = "deleted" /\ slot' = [u \in Threads |-> NULL]
os_tls_set(t) == key = "live" /\ slot' = [slot EXCEPT ![t] = EmptyMsg]
os_tls_get(t) == slot[t]

\* _Last_errormsg_key_alloc is the func() of os_once: the key is created with
\* free as its destructor.
_Last_errormsg_key_alloc(t) ==
  /\ os_once_func(t)
  /\ os_tls_key_create
  /\ UNCHANGED last

\* The rest of Last_errormsg_get: os_tls_get finds nothing under a new key, and
\* nothing under a deleted one, for which os_tls_set then fails: FATAL.
Last_errormsg_get(t) ==
  /\ pc[t] = "past"
  /\ \/ os_tls_get(t) # NULL /\ Goto(t, "msg") /\ UNCHANGED <<slot, aborted>>
     \/ os_tls_get(t) = NULL /\ os_tls_set(t) /\ Goto(t, "msg") /\ UNCHANGED aborted
     \/ os_tls_get(t) = NULL /\ key # "live" /\ aborted' = TRUE /\ UNCHANGED <<slot, pc>>
  /\ UNCHANGED <<mvars, rwvars, ovars, sem, life, key, last>>

\* Mutant: one static buffer for all threads.
out_error_static(t) ==
  /\ pc[t] = "msg"
  /\ \E m \in Messages :
       slot' = [u \in Threads |-> m] /\ last' = [last EXCEPT ![t] = m]
  /\ Goto(t, "out")
  /\ UNCHANGED <<mvars, rwvars, ovars, sem, life, aborted, key>>

\* out_error formats the message into the buffer it was given.
out_error(t) ==
  /\ pc[t] = "msg"
  /\ \E m \in Messages :
       slot' = [slot EXCEPT ![t] = m] /\ last' = [last EXCEPT ![t] = m]
  /\ Goto(t, "out")
  /\ UNCHANGED <<mvars, rwvars, ovars, sem, life, aborted, key>>

\* out_get_errormsg hands the buffer out for reading.
out_get_errormsg(t) ==
  /\ pc[t] = "msg"
  /\ Goto(t, "out")
  /\ UNCHANGED <<mvars, rwvars, ovars, sem, life, aborted, evars>>

\* Last_errormsg_fini: FlsFree runs the destructor on every thread's buffer. It
\* "is called to close log file before process stop", so no thread is between
\* getting its buffer and writing to it.
out_fini(t) ==
  /\ At(t, "out") /\ key = "live" /\ once = 2
  /\ In({"msg"}) = {}
  /\ os_tls_key_delete
  /\ UNCHANGED <<vars, last>>

\* A thread ends; the destructor of the key frees its buffer.
ThreadExit(t) ==
  /\ os_thread_start_routine_wrapper(t)
  /\ slot' = [slot EXCEPT ![t] = NULL] /\ last' = [last EXCEPT ![t] = NULL]
  /\ UNCHANGED key

EStep(t) ==
  \/ OsStep(t) /\ pc[t] # "func" /\ UNCHANGED evars
  \/ ~aborted /\ (_Last_errormsg_key_alloc(t) \/ Last_errormsg_get(t)
                    \/ out_error(t) \/ out_get_errormsg(t) \/ out_fini(t)
                    \/ ThreadExit(t))

ENext == \E t \in Threads : EStep(t)
ESpin(t) ==
  ~aborted /\ (_Last_errormsg_key_alloc(t) \/ (Spin(t) /\ pc[t] # "func" /\ UNCHANGED evars))
EExpire(t) == Expire(t) /\ UNCHANGED evars

ESpec ==
  /\ EInit /\ [][ENext]_allvars
  /\ \A t \in Threads : WF_allvars(ESpin(t)) /\ WF_allvars(EExpire(t))

------------------------------------------------------------------------------
\* A thread reads back the error it reported last, whatever the other threads
\* report meanwhile, until out_fini takes the messages away; and the buffer does
\* not outlive its thread.
MessageIsOwn ==
  \A t \in Threads :
    /\ life[t] # "running" => slot[t] = NULL
    /\ slot[t] \in {NULL, EmptyMsg} \/ slot[t] = last[t]
    /\ key = "live" /\ last[t] # NULL => slot[t] = last[t]

\* The process is ended for a reason: "deadlock detected" is said by a thread
\* that locks a mutex it holds already, and that is then still held once, and
\* the other FATAL is the one of an error reported after out_fini.
AbortIsReal ==
  aborted =>
    \/ \E t \in Threads : pc[t] = "relocked" /\ cs = [owner |-> t, count |-> 1]
    \/ key = "deleted" /\ \E t \in Threads : pc[t] = "past"

\* What the functions conclude from a field they read beside the system call is
\* right: os_rwlock_unlock from is_write, os_mutex_lock from RecursionCount, and
\* os_tls_set from its failure.
FieldsTrue == TypeOK /\ UnlockMatches /\ AbortIsReal
=============================================================================
