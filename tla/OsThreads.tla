------------------------------ MODULE OsThreads ------------------------------
(***************************************************************************)
(* The Windows implementation of os_thread.h (os_thread_windows.c) under   *)
(* the wrappers of sys_util.h: a mutex made of a CRITICAL_SECTION, a       *)
(* condition variable, an rwlock made of an SRWLOCK and a flag, os_once    *)
(* made of compare-and-swap, a semaphore, and threads started suspended.   *)
(* A thread uses one object at a time; Uses says which objects.            *)
(*                                                                         *)
(* The loop of util_semaphore_wait is the same on both systems, but only   *)
(* the sem_wait of os_thread_posix.c can fail with EINTR: InterruptedSpec. *)
(***************************************************************************)
EXTENDS Integers, FiniteSets

CONSTANTS Threads, Uses, Tokens, NULL

ASSUME UsesAssumption ==
  /\ Uses \in [Threads -> SUBSET {"mutex", "rwlock", "once", "semaphore"}]
  /\ IsFiniteSet(Threads) /\ NULL \notin Threads
  /\ Tokens \in Nat

VARIABLES
  cs,        \* CRITICAL_SECTION: its owner and RecursionCount
  asleep,    \* threads inside SleepConditionVariableCS
  woken,     \* the ones a wake call has picked
  srw,       \* SRWLOCK: held exclusively, and how often it is held shared
  is_write,  \* the flag of internal_os_rwlock_t
  once,      \* internal_os_once_t
  runs,      \* times func() has been called
  sem,       \* count of the semaphore
  life,      \* what has become of each thread
  pc,        \* where each thread is
  saw,       \* what os_rwlock_unlock has read from is_write
  aborted    \* FATAL has ended the process

mvars == <<cs, asleep, woken>>
rwvars == <<srw, is_write, saw>>
ovars == <<once, runs>>
vars == <<mvars, rwvars, ovars, sem, life, pc, aborted>>

Timed == {"mutex_timed", "rd_timed", "wr_timed"}
Sleeping == {"asleep", "asleep_timed"}
Reading == {"rd_got", "rd", "rd_unlock"}
Writing == {"wr_got", "wr", "wr_unlock"}
Labels ==
  {"out", "entered", "tried", "locked", "relocked", "retried", "once", "cas",
   "func", "set", "past", "msg", "sem", "sem_eintr", "token"}
    \cup Timed \cup Sleeping \cup Reading \cup Writing

\* The init functions: os_mutex_init, os_cond_init, os_rwlock_init,
\* OS_ONCE_INIT, os_semaphore_init. No thread has been created.
Init ==
  /\ cs = [owner |-> NULL, count |-> 0] /\ asleep = {} /\ woken = {}
  /\ srw = [excl |-> FALSE, shared |-> 0] /\ is_write = FALSE
  /\ once = 0 /\ runs = 0
  /\ sem = Tokens
  /\ life = [t \in Threads |-> "none"]
  /\ pc = [t \in Threads |-> "out"] /\ saw = [t \in Threads |-> FALSE]
  /\ aborted = FALSE

At(t, l) == life[t] = "running" /\ pc[t] = l
Goto(t, l) == pc' = [pc EXCEPT ![t] = l]
Starts(t, object) == At(t, "out") /\ object \in Uses[t]

------------------------------------------------------------------------------
(* Mutex. EnterCriticalSection and TryEnterCriticalSection let the owner in *)
(* again and count; the functions look at the count afterwards.             *)

Enter(t) == cs.owner \in {NULL, t} /\ cs' = [owner |-> t, count |-> cs.count + 1]
Leave == cs' = IF cs.count = 1 THEN [owner |-> NULL, count |-> 0]
                               ELSE [cs EXCEPT !.count = @ - 1]

MutexRest == UNCHANGED <<asleep, woken, rwvars, ovars, sem, life>>

\* os_mutex_lock, os_mutex_trylock: the system call. The thread may already
\* own the mutex, which the code detects.
os_mutex_enter(t) ==
  /\ \/ Starts(t, "mutex") /\ \E l \in {"entered", "tried"} : Goto(t, l)
     \/ At(t, "locked") /\ \E l \in {"relocked", "retried"} : Goto(t, l)
  /\ Enter(t)
  /\ MutexRest /\ UNCHANGED aborted

\* os_mutex_lock: RecursionCount > 1 is FATAL("deadlock detected").
os_mutex_lock(t) ==
  /\ pc[t] \in {"entered", "relocked"}
  /\ IF cs.count > 1 THEN Leave /\ aborted' = TRUE /\ UNCHANGED pc
                     ELSE Goto(t, "locked") /\ UNCHANGED <<cs, aborted>>
  /\ MutexRest

\* os_mutex_trylock: RecursionCount > 1 leaves again and returns EBUSY.
os_mutex_trylock(t) ==
  /\ pc[t] \in {"tried", "retried"}
  /\ IF cs.count > 1 THEN Leave ELSE UNCHANGED cs
  /\ Goto(t, "locked")
  /\ MutexRest /\ UNCHANGED aborted

\* os_mutex_timedlock finds the mutex taken and starts TIMED_LOCK's loop.
os_mutex_timedlock(t) ==
  /\ Starts(t, "mutex") /\ cs.owner # NULL
  /\ Goto(t, "mutex_timed")
  /\ MutexRest /\ UNCHANGED <<cs, aborted>>

\* TIMED_LOCK: one turn of the loop, in which the lock is tried again. A turn
\* that finds it taken sleeps a millisecond and changes nothing.
TIMED_LOCK_try(t) ==
  /\ UNCHANGED <<asleep, woken, is_write, saw, ovars, sem, life, aborted>>
  /\ \/ pc[t] = "mutex_timed" /\ cs.owner = NULL /\ Enter(t) /\ Goto(t, "tried")
        /\ UNCHANGED srw
     \/ pc[t] = "rd_timed" /\ ~srw.excl /\ srw' = [srw EXCEPT !.shared = @ + 1]
        /\ Goto(t, "rd_got") /\ UNCHANGED cs
     \/ pc[t] = "wr_timed" /\ ~srw.excl /\ srw.shared = 0
        /\ srw' = [srw EXCEPT !.excl = TRUE] /\ Goto(t, "wr_got") /\ UNCHANGED cs

\* TIMED_LOCK: the clock has passed abstime; ETIMEDOUT.
TIMED_LOCK_expired(t) ==
  /\ pc[t] \in Timed
  /\ Goto(t, "out")
  /\ UNCHANGED <<mvars, rwvars, ovars, sem, life, aborted>>

os_mutex_unlock(t) ==
  /\ At(t, "locked")
  /\ Leave /\ Goto(t, "out")
  /\ MutexRest /\ UNCHANGED aborted

\* os_cond_wait, os_cond_timedwait: SleepConditionVariableCS leaves the
\* CRITICAL_SECTION once and sleeps.
os_cond_wait(t) ==
  /\ At(t, "locked")
  /\ Leave /\ asleep' = asleep \cup {t}
  /\ \E l \in Sleeping : Goto(t, l)
  /\ UNCHANGED <<woken, rwvars, ovars, sem, life, aborted>>

\* os_cond_signal, os_cond_broadcast: the caller may hold the mutex or not.
os_cond_signal(t) ==
  /\ Starts(t, "mutex") \/ At(t, "locked")
  /\ \E w \in asleep \ woken : woken' = woken \cup {w}
  /\ UNCHANGED <<cs, asleep, rwvars, ovars, sem, life, pc, aborted>>
os_cond_broadcast(t) ==
  /\ Starts(t, "mutex") \/ At(t, "locked")
  /\ asleep # woken /\ woken' = asleep
  /\ UNCHANGED <<cs, asleep, rwvars, ovars, sem, life, pc, aborted>>

\* SleepConditionVariableCS returns: a wake call picked the thread, or its
\* time is up; either way it has entered the CRITICAL_SECTION again.
os_cond_return(t) ==
  /\ pc[t] \in Sleeping
  /\ t \in woken \/ pc[t] = "asleep_timed"
  /\ cs.owner = NULL /\ Enter(t)
  /\ asleep' = asleep \ {t} /\ woken' = woken \ {t}
  /\ Goto(t, "locked")
  /\ UNCHANGED <<rwvars, ovars, sem, life, aborted>>

------------------------------------------------------------------------------
(* Rwlock. The SRWLOCK must be released in the mode it was acquired in;     *)
(* os_rwlock_unlock takes the mode from is_write, a plain variable that is  *)
(* stored after the acquisition.                                            *)

RwRest == UNCHANGED <<mvars, ovars, sem, life, aborted>>

\* os_rwlock_rdlock, os_rwlock_tryrdlock and their store to is_write.
os_rwlock_rdlock(t) ==
  /\ Starts(t, "rwlock") /\ ~srw.excl
  /\ srw' = [srw EXCEPT !.shared = @ + 1] /\ Goto(t, "rd_got")
  /\ RwRest /\ UNCHANGED <<is_write, saw>>
os_rwlock_rdlock_store(t) ==
  /\ pc[t] = "rd_got"
  /\ is_write' = FALSE /\ Goto(t, "rd")
  /\ RwRest /\ UNCHANGED <<srw, saw>>

\* os_rwlock_wrlock, os_rwlock_trywrlock and their store to is_write.
os_rwlock_wrlock(t) ==
  /\ Starts(t, "rwlock") /\ ~srw.excl /\ srw.shared = 0
  /\ srw' = [srw EXCEPT !.excl = TRUE] /\ Goto(t, "wr_got")
  /\ RwRest /\ UNCHANGED <<is_write, saw>>
os_rwlock_wrlock_store(t) ==
  /\ pc[t] = "wr_got"
  /\ is_write' = TRUE /\ Goto(t, "wr")
  /\ RwRest /\ UNCHANGED <<srw, saw>>

\* Mutant: is_write is stored before the lock has been acquired.
os_rwlock_timedlock_early(t) ==
  /\ Starts(t, "rwlock")
  /\ (srw.excl \/ srw.shared > 0) /\ Goto(t, "wr_timed")
  /\ is_write' = TRUE
  /\ RwRest /\ UNCHANGED <<srw, saw>>

\* os_rwlock_timedrdlock, os_rwlock_timedwrlock find the lock taken.
os_rwlock_timedlock(t) ==
  /\ Starts(t, "rwlock")
  /\ \/ srw.excl /\ Goto(t, "rd_timed")
     \/ (srw.excl \/ srw.shared > 0) /\ Goto(t, "wr_timed")
  /\ RwRest /\ UNCHANGED rwvars

\* os_rwlock_unlock reads is_write ...
os_rwlock_unlock_read(t) ==
  /\ \/ At(t, "rd") /\ Goto(t, "rd_unlock")
     \/ At(t, "wr") /\ Goto(t, "wr_unlock")
  /\ saw' = [saw EXCEPT ![t] = is_write]
  /\ RwRest /\ UNCHANGED <<srw, is_write>>

\* ... and releases in the mode it read.
os_rwlock_unlock(t) ==
  /\ pc[t] \in {"rd_unlock", "wr_unlock"}
  /\ srw' = IF saw[t] THEN [srw EXCEPT !.excl = FALSE]
                      ELSE [srw EXCEPT !.shared = @ - 1]
  /\ saw' = [saw EXCEPT ![t] = FALSE]
  /\ Goto(t, "out")
  /\ RwRest /\ UNCHANGED is_write

------------------------------------------------------------------------------
(* os_once: a loop over the flag, 0 (new), 1 (running), 2 (done).           *)

OnceRest == UNCHANGED <<mvars, rwvars, sem, life, aborted>>

\* Mutant: a function that is running counts as done.
os_once_early(t) ==
  /\ Starts(t, "once") \/ pc[t] = "once"
  /\ Goto(t, IF once = 0 THEN "cas" ELSE "past")
  /\ OnceRest /\ UNCHANGED ovars

\* The loop's condition: 2 ends it, 1 goes round, 0 goes on to the CAS.
os_once(t) ==
  /\ Starts(t, "once") \/ pc[t] = "once"
  /\ Goto(t, CASE once = 2 -> "past" [] once = 1 -> "once" [] once = 0 -> "cas")
  /\ OnceRest /\ UNCHANGED ovars

\* The compare-and-swap from 0 to 1 decides who calls func().
os_once_cas(t) ==
  /\ pc[t] = "cas"
  /\ IF once = 0 THEN once' = 1 /\ Goto(t, "func")
                 ELSE Goto(t, "once") /\ UNCHANGED once
  /\ OnceRest /\ UNCHANGED runs

os_once_func(t) ==
  /\ pc[t] = "func"
  /\ runs' = runs + 1 /\ Goto(t, "set")
  /\ OnceRest /\ UNCHANGED once

\* Mutant: the flag stays at 1.
os_once_set_not(t) ==
  /\ pc[t] = "set" /\ once = 1
  /\ Goto(t, "once")
  /\ OnceRest /\ UNCHANGED ovars

\* The compare-and-swap from 1 to 2.
os_once_set(t) ==
  /\ pc[t] = "set" /\ once = 1
  /\ once' = 2 /\ Goto(t, "once")
  /\ OnceRest /\ UNCHANGED runs

\* The caller of os_once uses what func() has set up.
use(t) ==
  /\ pc[t] = "past"
  /\ Goto(t, "out")
  /\ OnceRest /\ UNCHANGED ovars

------------------------------------------------------------------------------
(* Semaphore.                                                               *)

SemRest == UNCHANGED <<mvars, rwvars, ovars, life, aborted>>

\* util_semaphore_wait: errno = 0, then the loop. Its condition is errno, and
\* a successful os_semaphore_wait leaves errno alone.
util_semaphore_wait(t) ==
  /\ Starts(t, "semaphore")
  /\ Goto(t, "sem")
  /\ SemRest /\ UNCHANGED sem
os_semaphore_wait(t) ==
  /\ pc[t] \in {"sem", "sem_eintr"} /\ sem > 0
  /\ sem' = sem - 1
  /\ IF pc[t] = "sem_eintr" THEN UNCHANGED pc ELSE Goto(t, "token")
  /\ SemRest
os_semaphore_wait_eintr(t) ==
  /\ ~aborted /\ pc[t] = "sem"
  /\ Goto(t, "sem_eintr")
  /\ SemRest /\ UNCHANGED sem

\* util_semaphore_trywait with success; with EAGAIN it changes nothing.
util_semaphore_trywait(t) ==
  /\ Starts(t, "semaphore") /\ sem > 0
  /\ sem' = sem - 1 /\ Goto(t, "token")
  /\ SemRest

util_semaphore_post(t) ==
  /\ At(t, "token")
  /\ sem' = sem + 1 /\ Goto(t, "out")
  /\ SemRest

------------------------------------------------------------------------------
(* Threads.                                                                 *)

LifeRest == UNCHANGED <<mvars, rwvars, ovars, sem, pc, aborted>>

\* os_thread_create starts the thread suspended and resumes it. It fails when
\* _beginthreadex fails, or when ResumeThread does and the thread stays.
os_thread_create(t) ==
  /\ life[t] \in {"none", "joined"}
  /\ \E l \in {"running", "failed", "suspended"} : life' = [life EXCEPT ![t] = l]
  /\ LifeRest

\* os_thread_start_routine_wrapper: the routine returns and the thread ends.
os_thread_start_routine_wrapper(t) ==
  /\ At(t, "out")
  /\ life' = [life EXCEPT ![t] = "finished"]
  /\ LifeRest

\* os_thread_join waits for the thread to end.
os_thread_join(t) ==
  /\ life[t] = "finished"
  /\ life' = [life EXCEPT ![t] = "joined"]
  /\ LifeRest

------------------------------------------------------------------------------
OnceStep(t) == ~aborted /\ (os_once(t) \/ os_once_cas(t) \/ os_once_func(t) \/ os_once_set(t))
Expire(t) == ~aborted /\ TIMED_LOCK_expired(t)
Spin(t) == OnceStep(t) /\ pc[t] # "out"

OsStep(t) ==
  \/ ~aborted /\ (os_mutex_enter(t) \/ os_mutex_lock(t) \/ os_mutex_trylock(t)
                    \/ os_mutex_timedlock(t) \/ os_mutex_unlock(t))
  \/ ~aborted /\ TIMED_LOCK_try(t)
  \/ ~aborted /\ (os_cond_wait(t) \/ os_cond_signal(t) \/ os_cond_broadcast(t)
                    \/ os_cond_return(t))
  \/ ~aborted /\ (os_rwlock_rdlock(t) \/ os_rwlock_rdlock_store(t)
                    \/ os_rwlock_wrlock(t) \/ os_rwlock_wrlock_store(t)
                    \/ os_rwlock_timedlock(t)
                    \/ os_rwlock_unlock_read(t) \/ os_rwlock_unlock(t))
  \/ ~aborted /\ (util_semaphore_wait(t) \/ os_semaphore_wait(t)
                    \/ util_semaphore_trywait(t) \/ util_semaphore_post(t))
  \/ ~aborted /\ (os_thread_create(t) \/ os_thread_join(t))
  \/ OnceStep(t)
  \/ Expire(t)

Next == \E t \in Threads :
  OsStep(t) \/ (~aborted /\ (use(t) \/ os_thread_start_routine_wrapper(t)))

Spec == Init /\ [][Next]_vars
InterruptedSpec == Init /\ [][Next \/ \E t \in Threads : os_semaphore_wait_eintr(t)]_vars
FairSpec == Spec /\ \A t \in Threads : WF_vars(Spin(t)) /\ WF_vars(Expire(t))

------------------------------------------------------------------------------
TypeOK ==
  /\ cs \in [owner : Threads \cup {NULL}, count : 0..2]
  /\ woken \subseteq asleep /\ asleep \subseteq Threads
  /\ srw \in [excl : BOOLEAN, shared : 0..Cardinality(Threads)]
  /\ is_write \in BOOLEAN /\ saw \in [Threads -> BOOLEAN]
  /\ once \in 0..2 /\ runs \in 0..1
  /\ sem \in 0..Tokens
  /\ life \in [Threads -> {"none", "suspended", "failed", "running", "finished", "joined"}]
  /\ pc \in [Threads -> Labels]
  /\ aborted \in BOOLEAN

In(labels) == {t \in Threads : pc[t] \in labels}

\* What the callers have been told maps to the abstract objects, so a lock that
\* is really free while a caller believes to hold it shows as a wrong step.
Abstract == INSTANCE Threads WITH
  owners <- In({"entered", "tried", "locked", "relocked", "retried"}),
  asleep <- asleep,
  readers <- In(Reading),
  writers <- In(Writing),
  func <- CASE runs = 0 -> "new" [] runs > 1 -> "twice"
            [] OTHER -> IF once = 2 THEN "done" ELSE "called",
  past <- In({"past"}),
  count <- sem,
  holding <- In({"token"}),
  alive <- {t \in Threads : life[t] = "running"},
  ended <- {t \in Threads : life[t] = "finished"}

\* The Windows functions behave as the pthread calls do: one mutex holder, also
\* across a condition wait, readers or one writer, func() called once and
\* finished before any os_once returns, one token per successful wait, a join
\* that waits for the end of the thread.
ImplementsThreads == Abstract!TSpec

\* os_rwlock_unlock releases in the mode the thread holds, although is_write is
\* shared by all holders and written after the lock has been acquired.
UnlockMatches ==
  \A t \in Threads : /\ pc[t] = "rd_unlock" => ~saw[t]
                     /\ pc[t] = "wr_unlock" => saw[t]

\* A thread that waits in os_once returns from it, and a timed lock returns
\* whoever holds the lock, unless the process ends.
CallsReturn ==
  \A t \in Threads :
    /\ pc[t] \in {"once", "cas", "func", "set"} ~> (pc[t] = "past" \/ aborted)
    /\ pc[t] \in Timed ~> (pc[t] \notin Timed \/ aborted)

\* sys_util.h:253 "decreases the value of the semaphore": a token that is no
\* longer in the semaphore is held by a thread whose wait has returned.
TokensConserved == sem + Cardinality(In({"token"})) = Tokens
=============================================================================
