------------------------------- MODULE Threads -------------------------------
(***************************************************************************)
(* What os_thread.h promises its users: the meaning of the pthread and     *)
(* semaphore calls that os_thread_posix.c passes every function on to. One *)
(* mutex with a condition variable, one rwlock, one once-flag and one      *)
(* semaphore, each operation atomic at the moment it takes effect, and the *)
(* threads themselves.                                                     *)
(***************************************************************************)
EXTENDS Integers, FiniteSets

CONSTANTS Threads, Tokens

VARIABLES
  owners,   \* threads that hold the mutex: at most one
  asleep,   \* threads waiting on the condition variable
  readers, writers,
  func,     \* the once-only function: "new", "called" or "done"
  past,     \* threads that have returned from os_once
  count,    \* value of the semaphore
  holding,  \* threads that have taken a token
  alive,    \* threads that run
  ended     \* threads that have ended and can be joined

objects == <<owners, asleep, readers, writers, func, past, count, holding>>
tvars == <<objects, alive, ended>>

TInit ==
  /\ owners = {} /\ asleep = {}
  /\ readers = {} /\ writers = {}
  /\ func = "new" /\ past = {}
  /\ count = Tokens /\ holding = {}
  /\ alive = {} /\ ended = {}

\* os_mutex_lock, and os_mutex_trylock or os_mutex_timedlock with success.
lock(t) == owners = {} /\ owners' = {t} /\ UNCHANGED asleep
unlock(t) == t \in owners /\ owners' = {} /\ UNCHANGED asleep

\* os_cond_wait, os_cond_timedwait: the mutex is given up and taken again.
cond_sleep(t) == t \in owners /\ owners' = {} /\ asleep' = asleep \cup {t}
cond_return(t) == owners = {} /\ t \in asleep /\ owners' = {t} /\ asleep' = asleep \ {t}

\* os_rwlock_rdlock, os_rwlock_wrlock and their try and timed variants.
rdlock(t) == writers = {} /\ readers' = readers \cup {t} /\ UNCHANGED writers
wrlock(t) == readers = {} /\ writers = {} /\ writers' = {t} /\ UNCHANGED readers
rw_unlock(t) ==
  /\ t \in readers \cup writers
  /\ readers' = readers \ {t} /\ writers' = writers \ {t}

\* os_once: one thread runs the function, nobody returns before it is done.
once_call == func = "new" /\ func' = "called" /\ UNCHANGED past
once_done == func = "called" /\ func' = "done" /\ UNCHANGED past
once_return(t) == func = "done" /\ past' = past \cup {t} /\ UNCHANGED func
once_leave(t) == t \in past /\ past' = past \ {t} /\ UNCHANGED func

\* os_semaphore_wait, os_semaphore_trywait with success, os_semaphore_post.
sem_wait(t) == count > 0 /\ count' = count - 1 /\ holding' = holding \cup {t}
sem_post(t) == t \in holding /\ count' = count + 1 /\ holding' = holding \ {t}

\* os_thread_create, the return of the thread's routine, os_thread_join: a name
\* is given to a new thread when the last one of that name has been joined.
thread_create(t) == t \notin alive \cup ended /\ alive' = alive \cup {t} /\ UNCHANGED ended
thread_end(t) == t \in alive /\ alive' = alive \ {t} /\ ended' = ended \cup {t}
thread_join(t) == t \in ended /\ ended' = ended \ {t} /\ UNCHANGED alive

TNext ==
  \/ \E t \in alive :
       /\ UNCHANGED <<alive, ended>>
       /\ \/ /\ lock(t) \/ unlock(t) \/ cond_sleep(t) \/ cond_return(t)
             /\ UNCHANGED <<readers, writers, func, past, count, holding>>
          \/ /\ rdlock(t) \/ wrlock(t) \/ rw_unlock(t)
             /\ UNCHANGED <<owners, asleep, func, past, count, holding>>
          \/ /\ once_call \/ once_done \/ once_return(t) \/ once_leave(t)
             /\ UNCHANGED <<owners, asleep, readers, writers, count, holding>>
          \/ /\ sem_wait(t) \/ sem_post(t)
             /\ UNCHANGED <<owners, asleep, readers, writers, func, past>>
  \/ \E t \in Threads :
       /\ thread_create(t) \/ thread_end(t) \/ thread_join(t)
       /\ UNCHANGED objects

TSpec == TInit /\ [][TNext]_tvars
=============================================================================
