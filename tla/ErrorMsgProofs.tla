--------------------------- MODULE ErrorMsgProofs ----------------------------
(***************************************************************************)
(* Proofs about the thread layer (OsThreads) and about the last error      *)
(* messages on it (ErrorMsg), for every finite set of threads, whatever    *)
(* objects they use, and every number of tokens.                           *)
(***************************************************************************)
EXTENDS ErrorMsg, FiniteSetTheorems, TLAPS

\* Where a thread means something to each object.
Mutex == {"entered", "tried", "locked", "relocked", "retried"}
MutexLabels == Mutex \cup Sleeping
RwLabels == Reading \cup Writing
OnceLabels == {"func", "set", "past", "msg"}
SemLabels == {"token", "sem_eintr"}

\* A thread that is inside a function runs.
ThreadInv ==
  /\ life \in [Threads -> {"none", "suspended", "failed", "running", "finished", "joined"}]
  /\ pc \in [Threads -> Labels]
  /\ \A t \in Threads : pc[t] # "out" => life[t] = "running"
  /\ aborted \in BOOLEAN

\* The CRITICAL_SECTION has the thread that believes to hold it as its owner, and
\* RecursionCount is the number of times it has entered.
MutexInv ==
  /\ cs \in [owner : Threads \cup {NULL}, count : 0..2]
  /\ woken \subseteq asleep /\ asleep = In(Sleeping)
  /\ cs.owner = NULL <=> cs.count = 0
  /\ \A t \in Threads : pc[t] \in Mutex <=> cs.owner = t
  /\ \A t \in Threads : pc[t] \in {"entered", "tried", "locked"} => cs.count = 1
  /\ \A t \in Threads : pc[t] \in {"relocked", "retried"} /\ ~aborted => cs.count = 2

\* The SRWLOCK is held as the threads believe to hold it, and while a thread
\* holds it and has stored is_write, no store can change the flag's value.
RwInv ==
  /\ srw \in [excl : BOOLEAN, shared : Nat]
  /\ is_write \in BOOLEAN /\ saw \in [Threads -> BOOLEAN]
  /\ srw.shared = Cardinality(In(Reading))
  /\ srw.excl <=> \E t \in Threads : pc[t] \in Writing
  /\ \A t, u \in Threads : pc[t] \in Writing => pc[u] \notin Reading /\ (pc[u] \in Writing => u = t)
  /\ \A t \in Threads : /\ pc[t] = "rd" => ~is_write
                        /\ pc[t] = "wr" => is_write
                        /\ pc[t] = "rd_unlock" => ~saw[t]
                        /\ pc[t] = "wr_unlock" => saw[t]

\* The flag of os_once is 1 exactly between the two compare-and-swaps of the one
\* thread that calls func().
OnceInv ==
  /\ once \in 0..2 /\ runs \in 0..1
  /\ \A t, u \in Threads : pc[t] \in {"func", "set"} /\ pc[u] \in {"func", "set"} => t = u
  /\ \A t \in Threads : /\ pc[t] = "func" => once = 1 /\ runs = 0
                        /\ pc[t] = "set" => once = 1 /\ runs = 1
                        /\ pc[t] \in {"past", "msg"} => once = 2
  /\ once = 0 => runs = 0
  /\ once = 2 => runs = 1

\* Every token is in the semaphore or held.
SemInv ==
  /\ sem \in Nat
  /\ sem + Cardinality(In({"token"})) = Tokens
  /\ \A t \in Threads : pc[t] # "sem_eintr"

OsInv == ThreadInv /\ MutexInv /\ RwInv /\ OnceInv /\ SemInv

\* The key lives from the one call of func() to out_fini.
TlsInv ==
  /\ key \in {"none", "live", "deleted"}
  /\ slot = [t \in Threads |-> slot[t]] /\ last = [t \in Threads |-> last[t]]
  /\ key = "none" <=> runs = 0
  /\ key = "none" => \A t \in Threads : last[t] = NULL
  /\ MessageIsOwn
  /\ AbortIsReal

ErrorMsgInv == OsInv /\ TlsInv

------------------------------------------------------------------------------
(* Frames: an object is not concerned by a thread that moves outside its      *)
(* labels.                                                                    *)

Outside(t, S) ==
  /\ pc[t] \notin S /\ pc'[t] \notin S
  /\ \A u \in Threads \ {t} : pc'[u] = pc[u]

\* The set of threads at labels of S stays the same.
LEMMA InFrame ==
  ASSUME NEW t \in Threads, NEW CONSTANT S, NEW CONSTANT L, L \subseteq S, Outside(t, S)
  PROVE  In(L)' = In(L)
  BY Zenon DEF In, Outside

\* Outside a set of labels is outside every part of it.
LEMMA OutsidePart ==
  ASSUME NEW t \in Threads, NEW CONSTANT S, NEW CONSTANT L, L \subseteq S, Outside(t, S)
  PROVE  Outside(t, L)
  BY Zenon DEF Outside

\* Goto moves one thread.
LEMMA Moves ==
  ASSUME ThreadInv, NEW t \in Threads, NEW l \in Labels, Goto(t, l)
  PROVE  /\ pc' \in [Threads -> Labels] /\ pc'[t] = l
         /\ \A u \in Threads \ {t} : pc'[u] = pc[u]
  BY Zenon DEF ThreadInv, Goto

\* A running thread moves and remains a running thread.
LEMMA ThreadMoves ==
  ASSUME ThreadInv, NEW t \in Threads, NEW l \in Labels, Goto(t, l),
         life[t] = "running", life' = life, aborted' \in BOOLEAN
  PROVE  ThreadInv'
<1>1. /\ pc' \in [Threads -> Labels] /\ pc'[t] = l
      /\ \A u \in Threads \ {t} : pc'[u] = pc[u]
  BY Moves, Zenon
<1>. QED
  BY <1>1, Zenon DEF ThreadInv

\* The mutex and its condition variable.
LEMMA MutexFrame ==
  ASSUME MutexInv, NEW t \in Threads, Outside(t, MutexLabels), UNCHANGED mvars, aborted => aborted'
  PROVE  MutexInv'
<1>1. In(Sleeping)' = In(Sleeping)
  BY InFrame, Zenon DEF MutexLabels
<1>2. \A u \in Threads : pc'[u] = pc[u] \/ (pc[u] \notin MutexLabels /\ pc'[u] \notin MutexLabels)
  BY Zenon DEF Outside
<1>. QED
  BY <1>1, <1>2, Zenon DEF MutexInv, mvars, MutexLabels, Mutex

\* The rwlock.
LEMMA RwFrame ==
  ASSUME RwInv, NEW t \in Threads, Outside(t, RwLabels), UNCHANGED rwvars
  PROVE  RwInv'
<1>1. In(Reading)' = In(Reading)
  BY InFrame, Zenon DEF RwLabels
<1>2. \A u \in Threads : pc'[u] = pc[u] \/ (pc[u] \notin RwLabels /\ pc'[u] \notin RwLabels)
  BY Zenon DEF Outside
<1>. QED
  BY <1>1, <1>2, Zenon DEF RwInv, rwvars, RwLabels, Reading, Writing

\* The once-flag.
LEMMA OnceFrame ==
  ASSUME OnceInv, NEW t \in Threads, Outside(t, OnceLabels), UNCHANGED ovars
  PROVE  OnceInv'
<1>2. \A u \in Threads : pc'[u] = pc[u] \/ (pc[u] \notin OnceLabels /\ pc'[u] \notin OnceLabels)
  BY Zenon DEF Outside
<1>. QED
  BY <1>2, Zenon DEF OnceInv, ovars, OnceLabels

\* The semaphore.
LEMMA SemFrame ==
  ASSUME SemInv, NEW t \in Threads, Outside(t, SemLabels), UNCHANGED sem
  PROVE  SemInv'
<1>1. In({"token"})' = In({"token"})
  BY InFrame, Zenon DEF SemLabels
<1>2. \A u \in Threads : pc'[u] = pc[u] \/ (pc[u] \notin SemLabels /\ pc'[u] \notin SemLabels)
  BY Zenon DEF Outside
<1>. QED
  BY <1>1, <1>2, Zenon DEF SemInv, SemLabels

\* The threads that believe to hold the mutex are the owner.
LEMMA Holder == MutexInv => In(Mutex) = {u \in Threads : cs.owner = u}
  BY Zenon DEF MutexInv, In

------------------------------------------------------------------------------
(* Refinement: a step on one object is a step of Threads on that object.      *)

Running == {t \in Threads : life[t] = "running"}
Finished == {t \in Threads : life[t] = "finished"}
Func == CASE runs = 0 -> "new" [] runs > 1 -> "twice"
          [] OTHER -> IF once = 2 THEN "done" ELSE "called"

\* Steps that no user of the thread layer can see.
LEMMA Invisible ==
  ASSUME UNCHANGED <<In(Mutex), asleep, In(Reading), In(Writing), Func, In({"past"}), sem,
                     In({"token"}), Running, Finished>>
  PROVE  [Abstract!TNext]_(Abstract!tvars)
  BY Zenon DEF Abstract!tvars, Abstract!objects, Mutex, Func, Running, Finished

\* The owner of the CRITICAL_SECTION changes as locking, unlocking and waiting say.
LEMMA MutexRefines ==
  ASSUME MutexInv, MutexInv', NEW t \in Threads, life[t] = "running",
         UNCHANGED <<In(Reading), In(Writing), Func, In({"past"}), sem,
                     In({"token"}), Running, Finished>>,
         \/ cs'.owner = cs.owner /\ asleep' = asleep
         \/ cs.owner = NULL /\ cs'.owner = t /\ asleep' = asleep
         \/ cs.owner = t /\ cs'.owner = NULL /\ asleep' \in {asleep, asleep \cup {t}}
         \/ cs.owner = NULL /\ cs'.owner = t /\ t \in asleep /\ asleep' = asleep \ {t}
  PROVE  [Abstract!TNext]_(Abstract!tvars)
<1>1. /\ In(Mutex) = {u \in Threads : cs.owner = u}
      /\ In(Mutex)' = {u \in Threads : cs'.owner = u}
  <2>1. In(Mutex)' = {u \in Threads : cs'.owner = u}
    BY Zenon DEF MutexInv, In
  <2>. QED
    BY <2>1, Holder, Zenon
<1>2. CASE cs'.owner = cs.owner /\ asleep' = asleep
  BY <1>1, <1>2, Invisible, Zenon
<1>3. CASE ~(cs'.owner = cs.owner /\ asleep' = asleep)
  <2>0. t \in Running /\ NULL \notin Threads
    BY UsesAssumption, Zenon DEF Running
  <2>1. \/ In(Mutex) = {} /\ In(Mutex)' = {t} /\ asleep' = asleep
        \/ t \in In(Mutex) /\ In(Mutex)' = {} /\ asleep' = asleep
        \/ t \in In(Mutex) /\ In(Mutex)' = {} /\ asleep' = asleep \cup {t}
        \/ In(Mutex) = {} /\ t \in asleep /\ In(Mutex)' = {t} /\ asleep' = asleep \ {t}
    BY <1>1, <1>3, <2>0, Zenon
  <2>2. Abstract!lock(t) \/ Abstract!unlock(t) \/ Abstract!cond_sleep(t) \/ Abstract!cond_return(t)
    BY <2>1, Zenon DEF Abstract!lock, Abstract!unlock, Abstract!cond_sleep, Abstract!cond_return, Mutex
  <2>. QED
    BY <2>0, <2>2, Zenon DEF Abstract!TNext, Func, Running, Finished
<1>. QED
  BY <1>2, <1>3, Zenon

\* Readers and writers come and go as with a read-write lock.
LEMMA RwRefines ==
  ASSUME NEW t \in Threads, life[t] = "running",
         UNCHANGED <<In(Mutex), asleep, Func, In({"past"}), sem, In({"token"}), Running, Finished>>,
         \/ In(Writing) = {} /\ In(Reading)' = In(Reading) \cup {t} /\ In(Writing)' = In(Writing)
         \/ /\ In(Writing) = {} /\ In(Reading) = {}
            /\ In(Writing)' = {t} /\ In(Reading)' = In(Reading)
         \/ /\ t \in In(Reading) \cup In(Writing)
            /\ In(Reading)' = In(Reading) \ {t} /\ In(Writing)' = In(Writing) \ {t}
  PROVE  [Abstract!TNext]_(Abstract!tvars)
<1>1. t \in Running
  BY Zenon DEF Running
<1>2. Abstract!rdlock(t) \/ Abstract!wrlock(t) \/ Abstract!rw_unlock(t)
  BY Zenon DEF Abstract!rdlock, Abstract!wrlock, Abstract!rw_unlock
<1>. QED
  BY <1>1, <1>2, Zenon DEF Abstract!TNext, Mutex, Func, Running, Finished

\* func() is called, is done, and only then threads pass.
LEMMA OnceRefines ==
  ASSUME NEW t \in Threads, life[t] = "running",
         UNCHANGED <<In(Mutex), asleep, In(Reading), In(Writing), sem, In({"token"}),
                     Running, Finished>>,
         \/ Func = "new" /\ Func' = "called" /\ In({"past"})' = In({"past"})
         \/ Func = "called" /\ Func' = "done" /\ In({"past"})' = In({"past"})
         \/ Func = "done" /\ Func' = Func /\ In({"past"})' = In({"past"}) \cup {t}
         \/ t \in In({"past"}) /\ Func' = Func /\ In({"past"})' = In({"past"}) \ {t}
  PROVE  [Abstract!TNext]_(Abstract!tvars)
<1>1. t \in Running
  BY Zenon DEF Running
<1>2. Abstract!once_call \/ Abstract!once_done \/ Abstract!once_return(t) \/ Abstract!once_leave(t)
  BY Zenon DEF Abstract!once_call, Abstract!once_done, Abstract!once_return, Abstract!once_leave, Func
<1>. QED
  BY <1>1, <1>2, Zenon DEF Abstract!TNext, Mutex, Running, Finished

\* A token is taken or given back.
LEMMA SemRefines ==
  ASSUME NEW t \in Threads, life[t] = "running",
         UNCHANGED <<In(Mutex), asleep, In(Reading), In(Writing), Func, In({"past"}),
                     Running, Finished>>,
         \/ sem > 0 /\ sem' = sem - 1 /\ In({"token"})' = In({"token"}) \cup {t}
         \/ t \in In({"token"}) /\ sem' = sem + 1 /\ In({"token"})' = In({"token"}) \ {t}
  PROVE  [Abstract!TNext]_(Abstract!tvars)
<1>1. t \in Running
  BY Zenon DEF Running
<1>2. Abstract!sem_wait(t) \/ Abstract!sem_post(t)
  BY Zenon DEF Abstract!sem_wait, Abstract!sem_post
<1>. QED
  BY <1>1, <1>2, Zenon DEF Abstract!TNext, Mutex, Func, Running, Finished

------------------------------------------------------------------------------
(* The steps, object by object. Each keeps the invariant of the thread layer  *)
(* and is a step of Threads or invisible.                                     *)

Kept == OsInv' /\ [Abstract!TNext]_(Abstract!tvars)

\* What no step on an object touches of the threads themselves.
LEMMA SameLife ==
  ASSUME life' = life
  PROVE  Running' = Running /\ Finished' = Finished
  BY Zenon DEF Running, Finished

\* Moves from one label to another that mean nothing to any object.
Neutral == {"out", "once", "cas", "sem"} \cup Timed

\* Such a move keeps the invariant and is invisible.
LEMMA NeutralMove ==
  ASSUME OsInv, NEW t \in Threads, NEW l \in Neutral, pc[t] \in Neutral, Goto(t, l),
         life[t] = "running", UNCHANGED <<mvars, rwvars, ovars, sem, life, aborted>>
  PROVE  Kept
<1>. DEFINE S == MutexLabels \cup RwLabels \cup OnceLabels \cup SemLabels
<1>1. ThreadInv /\ MutexInv /\ RwInv /\ OnceInv /\ SemInv /\ l \in Labels
  BY Zenon DEF OsInv, Neutral, Labels
<1>2. Outside(t, S)
  <2>1. pc'[t] = l /\ \A u \in Threads \ {t} : pc'[u] = pc[u]
    BY <1>1, Moves, Zenon
  <2>2. Neutral \cap S = {}
    BY Zenon DEF Neutral, Timed, MutexLabels, Mutex, Sleeping, RwLabels, Reading, Writing,
           OnceLabels, SemLabels
  <2>. QED
    BY <2>1, <2>2, Zenon DEF Outside
<1>3. ThreadInv'
  BY <1>1, ThreadMoves, Zenon DEF ThreadInv
<1>4. /\ Outside(t, MutexLabels) /\ Outside(t, RwLabels)
      /\ Outside(t, OnceLabels) /\ Outside(t, SemLabels)
  BY <1>2, Zenon DEF Outside
<1>5. MutexInv' /\ RwInv' /\ OnceInv' /\ SemInv'
  BY <1>1, <1>4, MutexFrame, RwFrame, OnceFrame, SemFrame, Zenon
<1>6. UNCHANGED <<In(Mutex), In(Reading), In(Writing), In({"past"}), In({"token"})>>
  <2>1. UNCHANGED In(Mutex)
    BY <1>4, InFrame, Zenon DEF MutexLabels
  <2>2. UNCHANGED <<In(Reading), In(Writing)>>
    BY <1>4, InFrame, Zenon DEF RwLabels
  <2>3. UNCHANGED In({"past"})
    BY <1>4, InFrame, Zenon DEF OnceLabels
  <2>4. UNCHANGED In({"token"})
    BY <1>4, InFrame, Zenon DEF SemLabels
  <2>. QED
    BY <2>1, <2>2, <2>3, <2>4, Zenon
<1>7. UNCHANGED <<asleep, Func, Running, Finished>>
  BY SameLife, Zenon DEF mvars, ovars, Func
<1>8. [Abstract!TNext]_(Abstract!tvars)
  BY <1>6, <1>7, Invisible, Zenon
<1>. QED
  BY <1>3, <1>5, <1>8, Zenon DEF Kept, OsInv

\* A step on the mutex that keeps MutexInv keeps the rest.
LEMMA MutexMove ==
  ASSUME OsInv, NEW t \in Threads, NEW l \in MutexLabels \cup Neutral,
         pc[t] \in MutexLabels \cup Neutral, Goto(t, l), life[t] = "running",
         UNCHANGED <<rwvars, ovars, sem, life>>, aborted' \in BOOLEAN, MutexInv',
         \/ cs'.owner = cs.owner /\ asleep' = asleep
         \/ cs.owner = NULL /\ cs'.owner = t /\ asleep' = asleep
         \/ cs.owner = t /\ cs'.owner = NULL /\ asleep' \in {asleep, asleep \cup {t}}
         \/ cs.owner = NULL /\ cs'.owner = t /\ t \in asleep /\ asleep' = asleep \ {t}
  PROVE  Kept
<1>. DEFINE S == RwLabels \cup OnceLabels \cup SemLabels
<1>1. ThreadInv /\ MutexInv /\ RwInv /\ OnceInv /\ SemInv /\ l \in Labels
  BY Zenon DEF OsInv, Neutral, Labels, MutexLabels, Mutex
<1>2. Outside(t, S)
  <2>1. pc'[t] = l /\ \A u \in Threads \ {t} : pc'[u] = pc[u]
    BY <1>1, Moves, Zenon
  <2>2. (MutexLabels \cup Neutral) \cap S = {}
    BY Zenon DEF Neutral, Timed, MutexLabels, Mutex, Sleeping, RwLabels, Reading, Writing,
           OnceLabels, SemLabels
  <2>. QED
    BY <2>1, <2>2, Zenon DEF Outside
<1>3. ThreadInv'
  BY <1>1, ThreadMoves, Zenon
<1>4. Outside(t, RwLabels) /\ Outside(t, OnceLabels) /\ Outside(t, SemLabels)
  BY <1>2, Zenon DEF Outside
<1>5. RwInv' /\ OnceInv' /\ SemInv'
  BY <1>1, <1>4, RwFrame, OnceFrame, SemFrame, Zenon
<1>6. UNCHANGED <<In(Reading), In(Writing), In({"past"}), In({"token"})>>
  <2>2. UNCHANGED <<In(Reading), In(Writing)>>
    BY <1>4, InFrame, Zenon DEF RwLabels
  <2>3. UNCHANGED In({"past"})
    BY <1>4, InFrame, Zenon DEF OnceLabels
  <2>4. UNCHANGED In({"token"})
    BY <1>4, InFrame, Zenon DEF SemLabels
  <2>. QED
    BY <2>2, <2>3, <2>4, Zenon
<1>7. UNCHANGED <<Func, Running, Finished>>
  BY SameLife, Zenon DEF ovars, Func
<1>8. [Abstract!TNext]_(Abstract!tvars)
  BY <1>1, <1>6, <1>7, MutexRefines, Zenon
<1>. QED
  BY <1>3, <1>5, <1>8, Zenon DEF Kept, OsInv

\* A thread that is not asleep, before or after, leaves the sleepers as they are.
LEMMA Awake ==
  ASSUME MutexInv, NEW t \in Threads, Outside(t, Sleeping), UNCHANGED <<asleep, woken>>
  PROVE  woken' \subseteq asleep' /\ asleep' = In(Sleeping)'
  BY InFrame, Zenon DEF MutexInv

\* os_mutex_lock, os_mutex_trylock: the system call.
LEMMA EnterStep ==
  ASSUME OsInv, NEW t \in Threads, ~aborted, os_mutex_enter(t)
  PROVE  Kept
<1>1. PICK l \in {"entered", "tried", "relocked", "retried"} :
        /\ Goto(t, l) /\ life[t] = "running"
        /\ \/ pc[t] = "out" /\ l \in {"entered", "tried"}
           \/ pc[t] = "locked" /\ l \in {"relocked", "retried"}
  BY Zenon DEF os_mutex_enter, Starts, At
<1>2. /\ UNCHANGED <<asleep, woken, rwvars, ovars, sem, life, aborted>>
      /\ cs.owner \in {NULL, t} /\ cs' = [owner |-> t, count |-> cs.count + 1]
  BY Zenon DEF os_mutex_enter, MutexRest, Enter
<1>3. ThreadInv /\ MutexInv /\ l \in Labels /\ NULL \notin Threads
  BY UsesAssumption, Zenon DEF OsInv, Labels
<1>4. pc'[t] = l /\ \A u \in Threads \ {t} : pc'[u] = pc[u]
  BY <1>1, <1>3, Moves, Zenon
<1>5. /\ pc[t] = "out" => cs.owner = NULL /\ cs.count = 0
      /\ pc[t] = "locked" => cs.owner = t /\ cs.count = 1
  BY <1>2, <1>3, Zenon DEF MutexInv, Mutex
<1>6. MutexInv'
  <2>1. Outside(t, Sleeping)
    BY <1>1, <1>4, Zenon DEF Outside, Sleeping
  <2>2. woken' \subseteq asleep' /\ asleep' = In(Sleeping)'
    BY <2>1, <1>2, <1>3, Awake, Zenon
  <2>3. cs'.owner = t /\ cs'.count = (IF pc[t] = "out" THEN 1 ELSE 2) /\ cs' \in [owner : Threads \cup {NULL}, count : 0..2]
    BY <1>1, <1>2, <1>5
  <2>4. \A u \in Threads : pc'[u] \in Mutex <=> u = t
    BY <1>1, <1>2, <1>3, <1>4 DEF MutexInv, Mutex
  <2>. QED
    BY <1>1, <1>3, <1>4, <2>2, <2>3, <2>4 DEF MutexInv, Mutex
<1>7. /\ cs'.owner = cs.owner \/ (cs.owner = NULL /\ cs'.owner = t)
      /\ aborted' \in BOOLEAN /\ asleep' = asleep
  BY <1>2, <1>3, Zenon DEF ThreadInv
<1>8. l \in MutexLabels \cup Neutral /\ pc[t] \in MutexLabels \cup Neutral
  BY <1>1, Zenon DEF MutexLabels, Mutex, Neutral
<1>. QED
  BY <1>1, <1>2, <1>6, <1>7, <1>8, MutexMove, Zenon

\* os_mutex_trylock, os_mutex_lock and os_mutex_unlock look at the count, which
\* says whether the thread had the mutex before; os_cond_wait gives it up.
LEMMA CountStep ==
  ASSUME OsInv, NEW t \in Threads, ~aborted,
         os_mutex_lock(t) \/ os_mutex_trylock(t) \/ os_mutex_unlock(t) \/ os_cond_wait(t)
  PROVE  Kept
<1>1. ThreadInv /\ MutexInv /\ NULL \notin Threads
  BY UsesAssumption, Zenon DEF OsInv
<1>2. /\ UNCHANGED <<rwvars, ovars, sem, life, woken>>
      /\ pc[t] \in Mutex
  BY Zenon DEF os_mutex_lock, os_mutex_trylock, os_mutex_unlock, os_cond_wait, MutexRest, Mutex, At
<1>3. /\ cs.owner = t /\ life[t] = "running" /\ cs = [owner |-> t, count |-> cs.count]
      /\ pc[t] \in {"entered", "tried", "locked"} => cs.count = 1
      /\ pc[t] \in {"relocked", "retried"} => cs.count = 2
  BY <1>1, <1>2, Zenon DEF MutexInv, ThreadInv, Mutex
<1>4. \A u \in Threads \ {t} : pc[u] \notin Mutex
  BY <1>1, <1>3, Zenon DEF MutexInv
<1>5. CASE os_mutex_lock(t) /\ cs.count > 1
  <2>1. /\ aborted' = TRUE /\ UNCHANGED <<pc, asleep>> /\ pc[t] = "relocked"
        /\ cs' = [owner |-> t, count |-> 1]
    BY <1>3, <1>5 DEF os_mutex_lock, Leave, MutexRest
  <2>2. MutexInv'
    <3>1. In(Sleeping)' = In(Sleeping)
      BY <2>1, Zenon DEF In
    <3>. QED
      BY <1>1, <1>2, <1>3, <1>4, <2>1, <3>1 DEF MutexInv, Mutex
  <2>3. Goto(t, "relocked") /\ "relocked" \in MutexLabels
    BY <1>1, <2>1, Zenon DEF Goto, ThreadInv, MutexLabels, Mutex
  <2>4. cs'.owner = cs.owner /\ aborted' \in BOOLEAN
    BY <1>3, <2>1, Zenon
  <2>. QED
    BY <1>2, <1>3, <2>1, <2>2, <2>3, <2>4, MutexMove, Zenon
<1>6. CASE (os_mutex_lock(t) /\ ~(cs.count > 1)) \/ os_mutex_trylock(t)
  <2>1. /\ Goto(t, "locked") /\ UNCHANGED <<aborted, asleep>>
        /\ cs' = [owner |-> t, count |-> 1]
    BY <1>2, <1>3, <1>6 DEF os_mutex_lock, os_mutex_trylock, Leave, MutexRest, Mutex
  <2>2. pc'[t] = "locked" /\ \A u \in Threads \ {t} : pc'[u] = pc[u]
    BY <1>1, <2>1, Moves, Zenon DEF Labels
  <2>3. Outside(t, Sleeping)
    BY <1>2, <2>2, Zenon DEF Outside, Sleeping, Mutex
  <2>4. woken' \subseteq asleep' /\ asleep' = In(Sleeping)'
    BY <1>1, <1>2, <2>1, <2>3, Awake, Zenon
  <2>5. MutexInv'
    BY <1>1, <1>4, <2>1, <2>2, <2>4 DEF MutexInv, Mutex
  <2>6. cs'.owner = cs.owner /\ aborted' \in BOOLEAN /\ "locked" \in MutexLabels /\ pc[t] \in MutexLabels
    BY <1>1, <1>2, <1>3, <2>1, Zenon DEF ThreadInv, MutexLabels, Mutex
  <2>. QED
    BY <1>2, <1>3, <2>1, <2>5, <2>6, MutexMove, Zenon
<1>7. CASE os_mutex_unlock(t)
  <2>1. /\ Goto(t, "out") /\ UNCHANGED <<aborted, asleep>>
        /\ cs' = [owner |-> NULL, count |-> 0] /\ pc[t] = "locked"
    BY <1>3, <1>7, Zenon DEF os_mutex_unlock, Leave, MutexRest, At
  <2>2. pc'[t] = "out" /\ \A u \in Threads \ {t} : pc'[u] = pc[u]
    BY <1>1, <2>1, Moves, Zenon DEF Labels
  <2>3. Outside(t, Sleeping)
    BY <1>2, <2>2, Zenon DEF Outside, Sleeping, Mutex
  <2>4. woken' \subseteq asleep' /\ asleep' = In(Sleeping)'
    BY <1>1, <1>2, <2>1, <2>3, Awake, Zenon
  <2>5. MutexInv'
    BY <1>1, <1>4, <2>1, <2>2, <2>4 DEF MutexInv, Mutex
  <2>6. cs'.owner = NULL /\ aborted' \in BOOLEAN /\ "out" \in Neutral /\ pc[t] \in MutexLabels
    BY <1>1, <1>2, <1>3, <2>1, Zenon DEF ThreadInv, MutexLabels, Mutex, Neutral
  <2>. QED
    BY <1>2, <1>3, <2>1, <2>5, <2>6, MutexMove, Zenon
<1>8. CASE os_cond_wait(t)
  <2>1. /\ UNCHANGED aborted /\ asleep' = asleep \cup {t}
        /\ cs' = [owner |-> NULL, count |-> 0] /\ pc[t] = "locked"
    BY <1>3, <1>8, Zenon DEF os_cond_wait, Leave, At
  <2>0. PICK l \in Sleeping : Goto(t, l)
    BY <1>8, Zenon DEF os_cond_wait
  <2>2. pc'[t] = l /\ \A u \in Threads \ {t} : pc'[u] = pc[u]
    BY <1>1, <2>0, Moves, Zenon DEF Labels
  <2>3. In(Sleeping)' = In(Sleeping) \cup {t}
    BY <2>0, <2>2 DEF In
  <2>4. l \notin Mutex /\ l \in MutexLabels /\ "locked" \in MutexLabels
    BY <2>0, Zenon DEF Mutex, Sleeping, MutexLabels
  <2>5. MutexInv'
    <3>1. woken' \subseteq asleep' /\ asleep' = In(Sleeping)'
      BY <1>1, <1>2, <2>1, <2>3, Zenon DEF MutexInv
    <3>. QED
      BY <1>1, <1>4, <2>1, <2>2, <2>4, <3>1 DEF MutexInv, Mutex
  <2>6. cs'.owner = NULL /\ aborted' \in BOOLEAN
    BY <1>1, <2>1, Zenon DEF ThreadInv
  <2>. QED
    BY <1>2, <1>3, <2>0, <2>1, <2>4, <2>5, <2>6, MutexMove, Zenon
<1>. QED
  BY <1>5, <1>6, <1>7, <1>8, Zenon

\* TIMED_LOCK for os_mutex_timedlock and for the rwlock.
TimedMutex(t) == pc[t] = "mutex_timed" /\ TIMED_LOCK_try(t)
TimedRw(t) == pc[t] # "mutex_timed" /\ TIMED_LOCK_try(t)

\* SleepConditionVariableCS and TIMED_LOCK enter a CRITICAL_SECTION that is free.
LEMMA ReturnStep ==
  ASSUME OsInv, NEW t \in Threads, ~aborted,
         os_cond_return(t) \/ TimedMutex(t)
  PROVE  Kept
<1>1. ThreadInv /\ MutexInv /\ NULL \notin Threads
  BY UsesAssumption, Zenon DEF OsInv
<1>2. PICK l \in {"locked", "tried"} :
        /\ Goto(t, l) /\ cs.owner = NULL /\ Enter(t)
        /\ UNCHANGED <<rwvars, ovars, sem, life, aborted>>
        /\ \/ pc[t] \in Sleeping /\ asleep' = asleep \ {t} /\ woken' = woken \ {t}
           \/ pc[t] = "mutex_timed" /\ UNCHANGED <<asleep, woken>>
  BY Zenon DEF os_cond_return, TimedMutex, TIMED_LOCK_try, rwvars
<1>3. /\ cs' = [owner |-> t, count |-> 1] /\ life[t] = "running"
      /\ \A u \in Threads : pc[u] \notin Mutex
  <2>1. cs.count = 0 /\ \A u \in Threads : pc[u] \notin Mutex
    BY <1>1, <1>2, Zenon DEF MutexInv
  <2>2. cs' = [owner |-> t, count |-> cs.count + 1]
    BY <1>2, Zenon DEF Enter
  <2>3. life[t] = "running"
    BY <1>1, <1>2, Zenon DEF ThreadInv, Sleeping
  <2>4. cs.count + 1 = 1
    BY <2>1
  <2>. QED
    BY <2>1, <2>2, <2>3, <2>4, Zenon
<1>4. pc'[t] = l /\ \A u \in Threads \ {t} : pc'[u] = pc[u]
  BY <1>1, <1>2, Moves, Zenon DEF Labels
<1>5. woken' \subseteq asleep' /\ asleep' = In(Sleeping)'
  <2>1. l \notin Sleeping /\ "mutex_timed" \notin Sleeping
    BY Zenon DEF Sleeping
  <2>2. asleep = In(Sleeping) /\ woken \subseteq asleep
    BY <1>1, Zenon DEF MutexInv
  <2>3. In(Sleeping)' = In(Sleeping) \ {t}
    BY <1>4, <2>1, Zenon DEF In
  <2>4. pc[t] = "mutex_timed" => t \notin In(Sleeping)
    BY <2>1, Zenon DEF In
  <2>. QED
    BY <1>2, <2>2, <2>3, <2>4, Zenon
<1>6. MutexInv'
  <2>1. cs'.owner = t /\ cs'.count = 1 /\ cs' \in [owner : Threads \cup {NULL}, count : 0..2]
    <3>1. 1 \in 0..2
      OBVIOUS
    <3>. QED
      BY <1>3, <3>1, Zenon
  <2>2. \A u \in Threads : pc'[u] \in Mutex <=> u = t
    BY <1>3, <1>4, Zenon DEF Mutex
  <2>3. \A u \in Threads : pc'[u] \notin {"relocked", "retried"}
    BY <1>3, <1>4, Zenon DEF Mutex
  <2>. QED
    BY <1>1, <1>5, <2>1, <2>2, <2>3 DEF MutexInv
<1>7. /\ cs'.owner = t /\ aborted' \in BOOLEAN
      /\ l \in MutexLabels \cup Neutral /\ pc[t] \in MutexLabels \cup Neutral
      /\ asleep' = asleep \/ (asleep' = asleep \ {t} /\ t \in asleep)
  BY <1>1, <1>2, <1>3, Zenon DEF MutexInv, ThreadInv, MutexLabels, Mutex, Neutral, Timed, In
<1>. QED
  BY <1>2, <1>3, <1>6, <1>7, MutexMove, Zenon

\* os_cond_signal, os_cond_broadcast pick threads that sleep.
LEMMA SignalStep ==
  ASSUME OsInv, NEW t \in Threads, ~aborted, os_cond_signal(t) \/ os_cond_broadcast(t)
  PROVE  Kept
<1>1. ThreadInv /\ MutexInv
  BY Zenon DEF OsInv
<1>2. /\ UNCHANGED <<cs, asleep, rwvars, ovars, sem, life, pc, aborted>>
      /\ pc[t] \in {"out", "locked"} /\ life[t] = "running"
      /\ \/ \E w \in asleep \ woken : woken' = woken \cup {w}
         \/ woken' = asleep
  BY Zenon DEF os_cond_signal, os_cond_broadcast, Starts, At
<1>3. MutexInv'
  <2>1. In(Sleeping)' = In(Sleeping)
    BY <1>2, Zenon DEF In
  <2>2. woken' \subseteq asleep'
    BY <1>1, <1>2, Zenon DEF MutexInv
  <2>. QED
    BY <1>1, <1>2, <2>1, <2>2, Zenon DEF MutexInv
<1>4. Goto(t, pc[t]) /\ pc[t] \in MutexLabels \cup Neutral /\ aborted' \in BOOLEAN
  BY <1>1, <1>2, Zenon DEF Goto, ThreadInv, MutexLabels, Mutex, Neutral
<1>. QED
  BY <1>2, <1>3, <1>4, MutexMove, Zenon

------------------------------------------------------------------------------
\* A step on the rwlock that keeps RwInv keeps the rest.
LEMMA RwMove ==
  ASSUME OsInv, NEW t \in Threads, NEW l \in RwLabels \cup Neutral,
         pc[t] \in RwLabels \cup Neutral, Goto(t, l), life[t] = "running",
         UNCHANGED <<mvars, ovars, sem, life, aborted>>, RwInv',
         \/ UNCHANGED <<In(Reading), In(Writing)>>
         \/ In(Writing) = {} /\ In(Reading)' = In(Reading) \cup {t} /\ In(Writing)' = In(Writing)
         \/ /\ In(Writing) = {} /\ In(Reading) = {}
            /\ In(Writing)' = {t} /\ In(Reading)' = In(Reading)
         \/ /\ t \in In(Reading) \cup In(Writing)
            /\ In(Reading)' = In(Reading) \ {t} /\ In(Writing)' = In(Writing) \ {t}
  PROVE  Kept
<1>. DEFINE S == MutexLabels \cup OnceLabels \cup SemLabels
<1>1. ThreadInv /\ MutexInv /\ RwInv /\ OnceInv /\ SemInv /\ l \in Labels
  BY Zenon DEF OsInv, Neutral, Labels, RwLabels
<1>2. Outside(t, S)
  <2>1. pc'[t] = l /\ \A u \in Threads \ {t} : pc'[u] = pc[u]
    BY <1>1, Moves, Zenon
  <2>2. (RwLabels \cup Neutral) \cap S = {}
    BY Zenon DEF Neutral, Timed, MutexLabels, Mutex, Sleeping, RwLabels, Reading, Writing,
           OnceLabels, SemLabels
  <2>. QED
    BY <2>1, <2>2, Zenon DEF Outside
<1>3. ThreadInv'
  BY <1>1, ThreadMoves, Zenon DEF ThreadInv
<1>4. Outside(t, MutexLabels) /\ Outside(t, OnceLabels) /\ Outside(t, SemLabels)
  BY <1>2, Zenon DEF Outside
<1>5. MutexInv' /\ OnceInv' /\ SemInv'
  BY <1>1, <1>4, MutexFrame, OnceFrame, SemFrame, Zenon
<1>6. UNCHANGED <<In(Mutex), In({"past"}), In({"token"})>>
  <2>2. UNCHANGED In(Mutex)
    BY <1>4, InFrame, Zenon DEF MutexLabels
  <2>3. UNCHANGED In({"past"})
    BY <1>4, InFrame, Zenon DEF OnceLabels
  <2>4. UNCHANGED In({"token"})
    BY <1>4, InFrame, Zenon DEF SemLabels
  <2>. QED
    BY <2>2, <2>3, <2>4, Zenon
<1>7. UNCHANGED <<asleep, Func, Running, Finished>>
  BY SameLife, Zenon DEF mvars, ovars, Func
<1>8. CASE UNCHANGED <<In(Reading), In(Writing)>>
  <2>1. [Abstract!TNext]_(Abstract!tvars)
    BY <1>6, <1>7, <1>8, Invisible, Zenon
  <2>. QED
    BY <1>3, <1>5, <2>1, Zenon DEF Kept, OsInv
<1>9. CASE ~UNCHANGED <<In(Reading), In(Writing)>>
  <2>1. [Abstract!TNext]_(Abstract!tvars)
    BY <1>6, <1>7, <1>9, RwRefines, Zenon
  <2>. QED
    BY <1>3, <1>5, <2>1, Zenon DEF Kept, OsInv
<1>. QED
  BY <1>8, <1>9, Zenon

\* The number of threads at some labels, when one comes or goes.
LEMMA InCount ==
  ASSUME NEW L, NEW t \in Threads
  PROVE  /\ Cardinality(In(L)) \in Nat
         /\ t \notin In(L) => Cardinality(In(L) \cup {t}) = Cardinality(In(L)) + 1
         /\ t \in In(L) => Cardinality(In(L) \ {t}) = Cardinality(In(L)) - 1
<1>1. In(L) \subseteq Threads
  BY Zenon DEF In
<1>2. IsFiniteSet(In(L))
  BY <1>1, FS_Subset, UsesAssumption, Zenon
<1>. QED
  BY <1>2, FS_CardinalityType, FS_AddElement, FS_RemoveElement, Zenon

\* os_rwlock_rdlock, os_rwlock_wrlock and the timed variants get the SRWLOCK.
LEMMA RwGetStep ==
  ASSUME OsInv, NEW t \in Threads, ~aborted,
         os_rwlock_rdlock(t) \/ os_rwlock_wrlock(t) \/ TimedRw(t)
  PROVE  Kept
<1>1. ThreadInv /\ RwInv
  BY Zenon DEF OsInv
<1>2. PICK l \in {"rd_got", "wr_got"} :
        /\ Goto(t, l) /\ ~srw.excl /\ pc[t] \in {"out", "rd_timed", "wr_timed"}
        /\ UNCHANGED <<mvars, ovars, sem, life, aborted, is_write, saw>>
        /\ l = "rd_got" => srw' = [srw EXCEPT !.shared = @ + 1]
        /\ l = "wr_got" => srw.shared = 0 /\ srw' = [srw EXCEPT !.excl = TRUE]
  BY Zenon DEF os_rwlock_rdlock, os_rwlock_wrlock, TimedRw, TIMED_LOCK_try, RwRest, Starts, At, mvars
<1>3. pc'[t] = l /\ (\A u \in Threads \ {t} : pc'[u] = pc[u]) /\ l \in Labels
  BY <1>1, <1>2, Moves, Zenon DEF Labels, Reading, Writing
<1>4. life[t] = "running"
  BY <1>1, <1>2, Zenon DEF ThreadInv, os_rwlock_rdlock, os_rwlock_wrlock, TimedRw, TIMED_LOCK_try, Starts, At
<1>5. /\ t \notin In(Reading) /\ t \notin In(Writing) /\ In(Writing) = {}
      /\ \A u \in Threads : pc[u] \notin Writing
  BY <1>1, <1>2, Zenon DEF In, RwInv, Reading, Writing
<1>6. CASE l = "rd_got"
  <2>1. In(Reading)' = In(Reading) \cup {t} /\ In(Writing)' = In(Writing)
    BY <1>2, <1>3, <1>6, Zenon DEF In, Reading, Writing
  <2>2. /\ srw'.shared = Cardinality(In(Reading)') /\ srw'.excl = FALSE
        /\ srw' \in [excl : BOOLEAN, shared : Nat]
    <3>1. Cardinality(In(Reading)') = Cardinality(In(Reading)) + 1 /\ Cardinality(In(Reading)) \in Nat
      BY <1>5, <2>1, InCount, Zenon
    <3>2. srw \in [excl : BOOLEAN, shared : Nat] /\ srw.shared = Cardinality(In(Reading))
      BY <1>1, Zenon DEF RwInv
    <3>3. srw' = [srw EXCEPT !.shared = srw.shared + 1]
      BY <1>2, <1>6, Zenon
    <3>4. srw'.shared = srw.shared + 1 /\ srw'.excl = srw.excl /\ srw' \in [excl : BOOLEAN, shared : Nat]
      <4>0. srw.shared \in Nat
        BY <3>2, Zenon
      <4>1. srw.shared + 1 \in Nat
        BY <4>0
      <4>. QED
        BY <3>2, <3>3, <4>1, Zenon
    <3>5. srw.excl = FALSE
      BY <1>2, <3>2, Zenon
    <3>. QED
      BY <3>1, <3>2, <3>4, <3>5, Zenon
  <2>3. RwInv'
    <3>1. \A u \in Threads : pc'[u] \notin Writing
      BY <1>3, <1>5, <1>6, Zenon DEF Writing
    <3>2. \A u \in Threads : pc'[u] \in {"rd", "rd_unlock", "wr", "wr_unlock"} => pc'[u] = pc[u]
      BY <1>3, <1>6, Zenon
    <3>3. is_write' = is_write /\ saw' = saw
      BY <1>2, Zenon
    <3>. QED
      BY <1>1, <2>2, <3>1, <3>2, <3>3, Zenon DEF RwInv
  <2>4. l \in RwLabels \cup Neutral /\ pc[t] \in RwLabels \cup Neutral
    BY <1>2, Zenon DEF RwLabels, Reading, Writing, Neutral, Timed
  <2>. QED
    BY <1>2, <1>4, <1>5, <2>1, <2>3, <2>4, RwMove, Zenon
<1>7. CASE l = "wr_got"
  <2>1. In(Reading) = {}
    <3>1. Cardinality(In(Reading)) = 0 /\ IsFiniteSet(In(Reading))
      <4>1. In(Reading) \subseteq Threads
        BY Zenon DEF In
      <4>. QED
        BY <1>1, <1>2, <1>7, <4>1, FS_Subset, UsesAssumption, Zenon DEF RwInv
    <3>. QED
      BY <3>1, FS_EmptySet, Zenon
  <2>2. In(Reading)' = In(Reading) /\ In(Writing)' = {t}
    BY <1>2, <1>3, <1>5, <1>7 DEF In, Reading, Writing
  <2>3. srw'.excl = TRUE /\ srw'.shared = srw.shared /\ srw' \in [excl : BOOLEAN, shared : Nat]
    BY <1>1, <1>2, <1>7, Zenon DEF RwInv
  <2>4. \A u \in Threads : pc[u] \notin Reading
    BY <2>1, Zenon DEF In
  <2>5. RwInv'
    <3>1. \A u \in Threads : pc'[u] \notin Reading /\ (pc'[u] \in Writing <=> u = t)
      BY <1>3, <1>5, <1>7, <2>4, Zenon DEF Reading, Writing
    <3>2. \A u \in Threads : pc'[u] \in {"rd", "rd_unlock", "wr", "wr_unlock"} => pc'[u] = pc[u]
      BY <1>3, <1>7, Zenon
    <3>3. is_write' = is_write /\ saw' = saw
      BY <1>2, Zenon
    <3>. QED
      BY <1>1, <2>2, <2>3, <3>1, <3>2, <3>3, ZenonT(30) DEF RwInv
  <2>6. l \in RwLabels \cup Neutral /\ pc[t] \in RwLabels \cup Neutral
    BY <1>2, Zenon DEF RwLabels, Reading, Writing, Neutral, Timed
  <2>. QED
    BY <1>2, <1>4, <1>5, <2>1, <2>2, <2>5, <2>6, RwMove, ZenonT(30)
<1>. QED
  BY <1>6, <1>7, Zenon

\* A thread that holds the SRWLOCK stores is_write, or reads it in order to
\* unlock. Nobody who may store another value holds it too.
LEMMA RwFlagStep ==
  ASSUME OsInv, NEW t \in Threads, ~aborted,
         \/ os_rwlock_rdlock_store(t) \/ os_rwlock_wrlock_store(t)
         \/ os_rwlock_unlock_read(t)
  PROVE  Kept
<1>1. ThreadInv /\ RwInv
  BY Zenon DEF OsInv
<1>2. PICK l \in {"rd", "wr", "rd_unlock", "wr_unlock"} :
        /\ Goto(t, l) /\ UNCHANGED <<mvars, ovars, sem, life, aborted, srw>>
        /\ \/ pc[t] = "rd_got" /\ l = "rd" /\ is_write' = FALSE /\ saw' = saw
           \/ pc[t] = "wr_got" /\ l = "wr" /\ is_write' = TRUE /\ saw' = saw
           \/ pc[t] = "rd" /\ l = "rd_unlock" /\ is_write' = is_write /\ saw' = [saw EXCEPT ![t] = is_write]
           \/ pc[t] = "wr" /\ l = "wr_unlock" /\ is_write' = is_write /\ saw' = [saw EXCEPT ![t] = is_write]
  BY Zenon DEF os_rwlock_rdlock_store, os_rwlock_wrlock_store, os_rwlock_unlock_read, RwRest, At
<1>3. pc'[t] = l /\ (\A u \in Threads \ {t} : pc'[u] = pc[u]) /\ l \in Labels
  BY <1>1, <1>2, Moves, Zenon DEF Labels, Reading, Writing
<1>4. life[t] = "running"
  BY <1>1, <1>2, Zenon DEF ThreadInv
<1>5. \A u \in Threads : /\ pc'[u] \in Reading <=> pc[u] \in Reading
                         /\ pc'[u] \in Writing <=> pc[u] \in Writing
  BY <1>2, <1>3, Zenon DEF Reading, Writing
<1>6. In(Reading)' = In(Reading) /\ In(Writing)' = In(Writing)
  BY <1>5, Zenon DEF In
<1>7. saw' \in [Threads -> BOOLEAN] /\ is_write' \in BOOLEAN /\ \A u \in Threads \ {t} : saw'[u] = saw[u]
  BY <1>1, <1>2, Zenon DEF RwInv
<1>8. RwInv'
  <2>1. \A u \in Threads : /\ pc'[u] = "rd" => ~is_write'
                           /\ pc'[u] = "wr" => is_write'
    BY <1>1, <1>2, <1>3 DEF RwInv, Reading, Writing
  <2>2. \A u \in Threads : /\ pc'[u] = "rd_unlock" => ~saw'[u]
                           /\ pc'[u] = "wr_unlock" => saw'[u]
    BY <1>1, <1>2, <1>3, <1>7, Zenon DEF RwInv
  <2>. QED
    BY <1>1, <1>2, <1>5, <1>6, <1>7, <2>1, <2>2, ZenonT(30) DEF RwInv
<1>9. l \in RwLabels /\ pc[t] \in RwLabels
  BY <1>2, Zenon DEF RwLabels, Reading, Writing
<1>. QED
  BY <1>2, <1>4, <1>6, <1>8, <1>9, RwMove, Zenon

\* os_rwlock_unlock releases in the mode the thread holds.
LEMMA RwUnlockStep ==
  ASSUME OsInv, NEW t \in Threads, ~aborted, os_rwlock_unlock(t)
  PROVE  Kept
<1>1. ThreadInv /\ RwInv
  BY Zenon DEF OsInv
<1>2. /\ pc[t] \in {"rd_unlock", "wr_unlock"} /\ Goto(t, "out")
      /\ UNCHANGED <<mvars, ovars, sem, life, aborted, is_write>>
      /\ srw' = IF saw[t] THEN [srw EXCEPT !.excl = FALSE]
                          ELSE [srw EXCEPT !.shared = srw.shared - 1]
      /\ saw' = [saw EXCEPT ![t] = FALSE]
  BY Zenon DEF os_rwlock_unlock, RwRest
<1>3. pc'[t] = "out" /\ (\A u \in Threads \ {t} : pc'[u] = pc[u])
  BY <1>1, <1>2, Moves, Zenon DEF Labels
<1>4. life[t] = "running"
  BY <1>1, <1>2, Zenon DEF ThreadInv
<1>5. saw' \in [Threads -> BOOLEAN] /\ is_write' \in BOOLEAN /\ \A u \in Threads \ {t} : saw'[u] = saw[u]
  BY <1>1, <1>2, Zenon DEF RwInv
<1>6. /\ pc[t] = "wr_unlock" <=> saw[t]
      /\ srw \in [excl : BOOLEAN, shared : Nat] /\ srw.shared = Cardinality(In(Reading))
  BY <1>1, <1>2, Zenon DEF RwInv
<1>7. /\ In(Reading)' = In(Reading) \ {t} /\ In(Writing)' = In(Writing) \ {t}
      /\ t \in In(Reading) \cup In(Writing)
  BY <1>2, <1>3, Zenon DEF In, Reading, Writing
<1>8. /\ srw' \in [excl : BOOLEAN, shared : Nat]
      /\ srw'.shared = Cardinality(In(Reading)')
      /\ srw'.excl <=> \E u \in Threads : pc'[u] \in Writing
  <2>1. CASE pc[t] = "wr_unlock"
    <3>1. srw' = [srw EXCEPT !.excl = FALSE]
      BY <1>2, <1>6, <2>1, Zenon
    <3>2. \A u \in Threads : pc'[u] \notin Writing
      BY <1>1, <1>3, <2>1, Zenon DEF RwInv, Writing
    <3>3. In(Reading)' = In(Reading)
      BY <1>7, <2>1, Zenon DEF In, Reading
    <3>4. srw'.excl = FALSE /\ srw'.shared = srw.shared /\ srw' \in [excl : BOOLEAN, shared : Nat]
      BY <1>6, <3>1, Zenon
    <3>. QED
      BY <1>6, <3>2, <3>3, <3>4, Zenon
  <2>2. CASE pc[t] = "rd_unlock"
    <3>1. srw' = [srw EXCEPT !.shared = srw.shared - 1]
      BY <1>2, <1>6, <2>2, Zenon
    <3>2. t \in In(Reading)
      BY <2>2, Zenon DEF In, Reading
    <3>3. /\ Cardinality(In(Reading)') = srw.shared - 1
          /\ Cardinality(In(Reading)') \in Nat
      <4>1. Cardinality(In(Reading) \ {t}) = Cardinality(In(Reading)) - 1
        BY <3>2, InCount, Zenon
      <4>2. IsFiniteSet(In(Reading) \ {t})
        <5>1. In(Reading) \ {t} \subseteq Threads
          BY Zenon DEF In
        <5>. QED
          BY <5>1, FS_Subset, UsesAssumption, Zenon
      <4>. QED
        BY <1>6, <1>7, <4>1, <4>2, FS_CardinalityType, Zenon
    <3>4. srw'.excl = srw.excl /\ srw'.shared = srw.shared - 1 /\ srw' \in [excl : BOOLEAN, shared : Nat]
      BY <1>6, <3>1, <3>3, Zenon
    <3>5. srw.excl <=> \E u \in Threads : pc'[u] \in Writing
      BY <1>1, <1>3, <2>2, Zenon DEF RwInv, Writing
    <3>. QED
      BY <3>3, <3>4, <3>5, Zenon
  <2>. QED
    BY <1>2, <2>1, <2>2, Zenon
<1>9. RwInv'
  <2>1. \A u \in Threads : u # t => pc'[u] = pc[u] /\ saw'[u] = saw[u]
    BY <1>3, <1>5, Zenon
  <2>2. "out" \notin Reading /\ "out" \notin Writing
    BY Zenon DEF Reading, Writing
  <2>. QED
    BY <1>1, <1>2, <1>3, <1>5, <1>8, <2>1, <2>2 DEF RwInv
<1>10. "out" \in Neutral /\ pc[t] \in RwLabels
  BY <1>2, Zenon DEF RwLabels, Reading, Writing, Neutral
<1>. QED
  BY <1>2, <1>4, <1>7, <1>9, <1>10, RwMove, Zenon

------------------------------------------------------------------------------
\* A step in os_once, or after it, that keeps OnceInv keeps the rest.
LEMMA OnceMove ==
  ASSUME OsInv, NEW t \in Threads, NEW l \in OnceLabels \cup Neutral,
         pc[t] \in OnceLabels \cup Neutral, Goto(t, l), life[t] = "running",
         UNCHANGED <<mvars, rwvars, sem, life, aborted>>, OnceInv',
         \/ UNCHANGED <<Func, In({"past"})>>
         \/ Func = "new" /\ Func' = "called" /\ In({"past"})' = In({"past"})
         \/ Func = "called" /\ Func' = "done" /\ In({"past"})' = In({"past"})
         \/ Func = "done" /\ Func' = Func /\ In({"past"})' = In({"past"}) \cup {t}
         \/ t \in In({"past"}) /\ Func' = Func /\ In({"past"})' = In({"past"}) \ {t}
  PROVE  Kept
<1>. DEFINE S == MutexLabels \cup RwLabels \cup SemLabels
<1>1. ThreadInv /\ MutexInv /\ RwInv /\ OnceInv /\ SemInv /\ l \in Labels
  BY Zenon DEF OsInv, Neutral, Labels, OnceLabels
<1>2. Outside(t, S)
  <2>1. pc'[t] = l /\ \A u \in Threads \ {t} : pc'[u] = pc[u]
    BY <1>1, Moves, Zenon
  <2>2. (OnceLabels \cup Neutral) \cap S = {}
    BY Zenon DEF Neutral, Timed, MutexLabels, Mutex, Sleeping, RwLabels, Reading, Writing,
           OnceLabels, SemLabels
  <2>. QED
    BY <2>1, <2>2, Zenon DEF Outside
<1>3. ThreadInv'
  BY <1>1, ThreadMoves, Zenon DEF ThreadInv
<1>4. Outside(t, MutexLabels) /\ Outside(t, RwLabels) /\ Outside(t, SemLabels)
  BY <1>2, Zenon DEF Outside
<1>5. MutexInv' /\ RwInv' /\ SemInv'
  BY <1>1, <1>4, MutexFrame, RwFrame, SemFrame, Zenon
<1>6. UNCHANGED <<In(Mutex), In(Reading), In(Writing), In({"token"})>>
  <2>2. UNCHANGED In(Mutex)
    BY <1>4, InFrame, Zenon DEF MutexLabels
  <2>3. UNCHANGED <<In(Reading), In(Writing)>>
    BY <1>4, InFrame, Zenon DEF RwLabels
  <2>4. UNCHANGED In({"token"})
    BY <1>4, InFrame, Zenon DEF SemLabels
  <2>. QED
    BY <2>2, <2>3, <2>4, Zenon
<1>7. UNCHANGED <<asleep, Running, Finished>>
  BY SameLife, Zenon DEF mvars
<1>8. CASE UNCHANGED <<Func, In({"past"})>>
  <2>1. [Abstract!TNext]_(Abstract!tvars)
    BY <1>6, <1>7, <1>8, Invisible, ZenonT(30)
  <2>. QED
    BY <1>3, <1>5, <2>1, Zenon DEF Kept, OsInv
<1>9. CASE ~UNCHANGED <<Func, In({"past"})>>
  <2>1. [Abstract!TNext]_(Abstract!tvars)
    BY <1>6, <1>7, <1>9, OnceRefines, Zenon
  <2>. QED
    BY <1>3, <1>5, <2>1, Zenon DEF Kept, OsInv
<1>. QED
  BY <1>8, <1>9, Zenon

\* What Func says, given OnceInv.
LEMMA FuncIs ==
  ASSUME OnceInv
  PROVE  Func = IF runs = 0 THEN "new" ELSE IF once = 2 THEN "done" ELSE "called"
  BY DEF OnceInv, Func

\* os_once: the turns of the loop and the two compare-and-swaps.
LEMMA OnceLoopStep ==
  ASSUME OsInv, NEW t \in Threads, ~aborted, os_once(t) \/ os_once_cas(t) \/ os_once_set(t)
  PROVE  Kept
<1>1. ThreadInv /\ OnceInv
  BY Zenon DEF OsInv
<1>2. PICK l \in {"past", "once", "cas", "func"} :
        /\ Goto(t, l) /\ UNCHANGED <<mvars, rwvars, sem, life, aborted, runs>>
        /\ \/ pc[t] \in {"out", "once"} /\ l = "past" /\ once = 2 /\ once' = once
           \/ pc[t] \in {"out", "once", "cas"} /\ l \in {"once", "cas"} /\ once' = once
           \/ pc[t] = "cas" /\ l = "func" /\ once = 0 /\ once' = 1
           \/ pc[t] = "set" /\ l = "once" /\ once = 1 /\ once' = 2
  <2>1. once \in {0, 1, 2}
    BY <1>1 DEF OnceInv
  <2>2. CASE os_once(t)
    <3>1. /\ pc[t] \in {"out", "once"} /\ UNCHANGED <<mvars, rwvars, sem, life, aborted, once, runs>>
          /\ Goto(t, CASE once = 2 -> "past" [] once = 1 -> "once" [] once = 0 -> "cas")
      BY <2>2, Zenon DEF os_once, OnceRest, ovars, Starts, At
    <3>2. (CASE once = 2 -> "past" [] once = 1 -> "once" [] once = 0 -> "cas")
            = IF once = 2 THEN "past" ELSE IF once = 1 THEN "once" ELSE "cas"
      BY <2>1
    <3>. QED
      BY <3>1, <3>2, Zenon
  <2>3. CASE os_once_cas(t)
    BY <2>3, Zenon DEF os_once_cas, OnceRest
  <2>4. CASE os_once_set(t)
    BY <2>4, Zenon DEF os_once_set, OnceRest
  <2>. QED
    BY <2>2, <2>3, <2>4, Zenon
<1>3. pc'[t] = l /\ \A u \in Threads \ {t} : pc'[u] = pc[u]
  BY <1>1, <1>2, Moves, Zenon DEF Labels
<1>4. life[t] = "running"
  BY <1>1, <1>2, Zenon DEF ThreadInv, os_once, os_once_cas, os_once_set, Starts, At
<1>5. OnceInv'
  BY <1>1, <1>2, <1>3 DEF OnceInv
<1>6. l \in OnceLabels \cup Neutral /\ pc[t] \in OnceLabels \cup Neutral
  BY <1>2, Zenon DEF OnceLabels, Neutral
<1>7. \/ UNCHANGED <<Func, In({"past"})>>
      \/ Func = "called" /\ Func' = "done" /\ In({"past"})' = In({"past"})
      \/ Func = "done" /\ Func' = Func /\ In({"past"})' = In({"past"}) \cup {t}
  <2>1. /\ Func = IF runs = 0 THEN "new" ELSE IF once = 2 THEN "done" ELSE "called"
        /\ Func' = IF runs' = 0 THEN "new" ELSE IF once' = 2 THEN "done" ELSE "called"
    <3>1. Func' = IF runs' = 0 THEN "new" ELSE IF once' = 2 THEN "done" ELSE "called"
      BY <1>5 DEF OnceInv, Func
    <3>. QED
      BY <1>1, <3>1, FuncIs, Zenon
  <2>2. In({"past"})' = IF l = "past" THEN In({"past"}) \cup {t} ELSE In({"past"})
    BY <1>2, <1>3, Zenon DEF In
  <2>. QED
    BY <1>1, <1>2, <2>1, <2>2 DEF OnceInv
<1>. QED
  BY <1>2, <1>4, <1>5, <1>6, <1>7, OnceMove, Zenon

\* func() is called, by the one thread that may.
LEMMA OnceFuncStep ==
  ASSUME OsInv, NEW t \in Threads, ~aborted, os_once_func(t)
  PROVE  Kept /\ runs = 0 /\ runs' = 1
<1>1. ThreadInv /\ OnceInv
  BY Zenon DEF OsInv
<1>2. /\ pc[t] = "func" /\ Goto(t, "set") /\ runs' = runs + 1 /\ once' = once
      /\ UNCHANGED <<mvars, rwvars, sem, life, aborted>>
  BY Zenon DEF os_once_func, OnceRest
<1>3. pc'[t] = "set" /\ \A u \in Threads \ {t} : pc'[u] = pc[u]
  BY <1>1, <1>2, Moves, Zenon DEF Labels
<1>4. life[t] = "running" /\ runs = 0 /\ once = 1 /\ runs' = 1
  BY <1>1, <1>2 DEF ThreadInv, OnceInv
<1>5. OnceInv'
  BY <1>1, <1>2, <1>3, <1>4 DEF OnceInv
<1>6. "set" \in OnceLabels /\ pc[t] \in OnceLabels
  BY <1>2, Zenon DEF OnceLabels
<1>7. Func = "new" /\ Func' = "called" /\ In({"past"})' = In({"past"})
  <2>1. Func = "new" /\ Func' = "called"
    BY <1>2, <1>4 DEF Func
  <2>2. In({"past"})' = In({"past"})
    BY <1>2, <1>3, Zenon DEF In
  <2>. QED
    BY <2>1, <2>2, Zenon
<1>. QED
  BY <1>2, <1>4, <1>5, <1>6, <1>7, OnceMove, ZenonT(30)

\* The caller of os_once goes on: to its buffer, and from it.
LEMMA PastStep ==
  ASSUME OsInv, NEW t \in Threads, ~aborted, NEW l \in {"msg", "out"}, Goto(t, l),
         \/ pc[t] = "past"
         \/ pc[t] = "msg" /\ l = "out",
         UNCHANGED <<mvars, rwvars, ovars, sem, life, aborted>>
  PROVE  Kept
<1>1. ThreadInv /\ OnceInv
  BY Zenon DEF OsInv
<1>3. pc'[t] = l /\ \A u \in Threads \ {t} : pc'[u] = pc[u]
  BY <1>1, Moves, Zenon DEF Labels
<1>4. life[t] = "running"
  BY <1>1, Zenon DEF ThreadInv
<1>5. OnceInv'
  BY <1>1, <1>3, Zenon DEF OnceInv, ovars
<1>6. l \in OnceLabels \cup Neutral /\ pc[t] \in OnceLabels \cup Neutral
  BY Zenon DEF OnceLabels, Neutral
<1>7. /\ Func' = Func
      /\ \/ UNCHANGED In({"past"})
         \/ t \in In({"past"}) /\ In({"past"})' = In({"past"}) \ {t}
  BY <1>3, Zenon DEF In, Func, ovars
<1>. QED
  BY <1>4, <1>5, <1>6, <1>7, OnceMove, Zenon

------------------------------------------------------------------------------
\* A step on the semaphore.
LEMMA SemStep ==
  ASSUME OsInv, NEW t \in Threads, ~aborted,
         os_semaphore_wait(t) \/ util_semaphore_trywait(t) \/ util_semaphore_post(t)
  PROVE  Kept
<1>. DEFINE S == MutexLabels \cup RwLabels \cup OnceLabels
<1>1. ThreadInv /\ MutexInv /\ RwInv /\ OnceInv /\ SemInv
  BY Zenon DEF OsInv
<1>2. PICK l \in {"token", "out"} :
        /\ Goto(t, l) /\ UNCHANGED <<mvars, rwvars, ovars, life, aborted>>
        /\ \/ pc[t] \in {"sem", "out"} /\ l = "token" /\ sem > 0 /\ sem' = sem - 1
           \/ pc[t] = "token" /\ l = "out" /\ sem' = sem + 1
  BY <1>1, Zenon DEF os_semaphore_wait, util_semaphore_trywait, util_semaphore_post, SemRest, Starts, At, SemInv
<1>3. /\ pc'[t] = l /\ (\A u \in Threads \ {t} : pc'[u] = pc[u]) /\ l \in Labels
      /\ life[t] = "running"
  <2>1. pc'[t] = l /\ (\A u \in Threads \ {t} : pc'[u] = pc[u]) /\ l \in Labels
    BY <1>1, <1>2, Moves, Zenon DEF Labels
  <2>. QED
    BY <1>1, <1>2, <2>1, Zenon
       DEF ThreadInv, os_semaphore_wait, util_semaphore_trywait, util_semaphore_post, Starts, At
<1>4. ThreadInv'
  BY <1>1, <1>2, <1>3, ThreadMoves, Zenon DEF ThreadInv
<1>5. Outside(t, S)
  <2>1. {"sem", "out", "token"} \cap S = {}
    BY Zenon DEF MutexLabels, Mutex, Sleeping, RwLabels, Reading, Writing, OnceLabels
  <2>. QED
    BY <1>2, <1>3, <2>1, Zenon DEF Outside
<1>6. Outside(t, MutexLabels) /\ Outside(t, RwLabels) /\ Outside(t, OnceLabels)
  BY <1>5, Zenon DEF Outside
<1>7. MutexInv' /\ RwInv' /\ OnceInv'
  BY <1>1, <1>2, <1>6, MutexFrame, RwFrame, OnceFrame, ZenonT(30)
<1>8. UNCHANGED <<In(Mutex), In(Reading), In(Writing), In({"past"})>>
  <2>2. UNCHANGED In(Mutex)
    BY <1>6, InFrame, Zenon DEF MutexLabels
  <2>3. UNCHANGED <<In(Reading), In(Writing)>>
    BY <1>6, InFrame, Zenon DEF RwLabels
  <2>4. UNCHANGED In({"past"})
    BY <1>6, InFrame, Zenon DEF OnceLabels
  <2>. QED
    BY <2>2, <2>3, <2>4, Zenon
<1>9. UNCHANGED <<asleep, Func, Running, Finished>>
  BY <1>2, SameLife, Zenon DEF mvars, ovars, Func
<1>10. \/ /\ sem > 0 /\ sem' = sem - 1 /\ t \notin In({"token"})
          /\ In({"token"})' = In({"token"}) \cup {t}
       \/ /\ t \in In({"token"}) /\ sem' = sem + 1
          /\ In({"token"})' = In({"token"}) \ {t}
  BY <1>2, <1>3, Zenon DEF In
<1>11. SemInv'
  <2>1. /\ sem \in Nat /\ sem + Cardinality(In({"token"})) = Tokens
        /\ Cardinality(In({"token"})) \in Nat
    BY <1>1, InCount, Zenon DEF SemInv
  <2>2. sem' \in Nat /\ sem' + Cardinality(In({"token"})') = Tokens
    BY <1>10, <2>1, InCount
  <2>3. \A u \in Threads : pc'[u] # "sem_eintr"
    BY <1>1, <1>2, <1>3, Zenon DEF SemInv
  <2>. QED
    BY <2>2, <2>3, Zenon DEF SemInv
<1>12. [Abstract!TNext]_(Abstract!tvars)
  BY <1>3, <1>8, <1>9, <1>10, SemRefines, Zenon
<1>. QED
  BY <1>4, <1>7, <1>11, <1>12, Zenon DEF Kept, OsInv

------------------------------------------------------------------------------
(* The steps put together.                                                    *)

\* Steps that only begin or give up a wait.
LEMMA NeutralStep ==
  ASSUME OsInv, NEW t \in Threads, ~aborted,
         \/ os_mutex_timedlock(t) \/ os_rwlock_timedlock(t)
         \/ TIMED_LOCK_expired(t) \/ util_semaphore_wait(t)
  PROVE  Kept
<1>1. ThreadInv
  BY Zenon DEF OsInv
<1>2. PICK l \in {"mutex_timed", "rd_timed", "wr_timed", "out", "sem"} :
        /\ Goto(t, l) /\ pc[t] \in {"out"} \cup Timed
        /\ pc[t] = "out" => life[t] = "running"
        /\ UNCHANGED <<mvars, rwvars, ovars, sem, life, aborted>>
  <2>1. CASE os_mutex_timedlock(t)
    BY <2>1, Zenon DEF os_mutex_timedlock, MutexRest, mvars, Starts, At
  <2>2. CASE os_rwlock_timedlock(t)
    BY <2>2, Zenon DEF os_rwlock_timedlock, RwRest, Starts, At
  <2>3. CASE TIMED_LOCK_expired(t)
    BY <2>3, Zenon DEF TIMED_LOCK_expired, Timed
  <2>4. CASE util_semaphore_wait(t)
    BY <2>4, Zenon DEF util_semaphore_wait, SemRest, Starts, At
  <2>. QED
    BY <2>1, <2>2, <2>3, <2>4, Zenon
<1>3. life[t] = "running"
  BY <1>1, <1>2, Zenon DEF ThreadInv
<1>4. l \in Neutral /\ pc[t] \in Neutral
  BY <1>2, Zenon DEF Neutral, Timed
<1>. QED
  BY <1>2, <1>3, <1>4, NeutralMove, Zenon

\* Nothing moves, but the process may end.
LEMMA StandStill ==
  ASSUME OsInv, UNCHANGED <<mvars, rwvars, ovars, sem, life, pc>>,
         aborted' \in BOOLEAN, aborted => aborted'
  PROVE  Kept
<1>1. ThreadInv /\ MutexInv /\ RwInv /\ OnceInv /\ SemInv
  BY Zenon DEF OsInv
<1>3. UNCHANGED <<In(Mutex), In(Reading), In(Writing), In({"past"}), In({"token"}), In(Sleeping)>>
  BY Zenon DEF In, Mutex, Reading, Writing, Sleeping
<1>4. UNCHANGED <<asleep, Func, Running, Finished>>
  BY SameLife, Zenon DEF mvars, ovars, Func
<1>5. ThreadInv'
  BY <1>1, Zenon DEF ThreadInv
<1>6. MutexInv'
  BY <1>1, <1>3, Zenon DEF MutexInv, mvars
<1>7. RwInv'
  BY <1>1, <1>3, Zenon DEF RwInv, rwvars
<1>8. OnceInv' /\ SemInv'
  BY <1>1, <1>3, Zenon DEF OnceInv, SemInv, ovars
<1>9. [Abstract!TNext]_(Abstract!tvars)
  BY <1>3, <1>4, Invisible, Zenon
<1>. QED
  BY <1>5, <1>6, <1>7, <1>8, <1>9, Zenon DEF Kept, OsInv

\* A thread is created, ends, or is joined.
LEMMA LifeStep ==
  ASSUME OsInv, NEW t \in Threads, ~aborted,
         os_thread_create(t) \/ os_thread_join(t) \/ os_thread_start_routine_wrapper(t)
  PROVE  Kept
<1>1. ThreadInv /\ MutexInv /\ RwInv /\ OnceInv /\ SemInv
  BY Zenon DEF OsInv
<1>2. PICK l \in {"running", "failed", "suspended", "finished", "joined"} :
        /\ life' = [life EXCEPT ![t] = l] /\ UNCHANGED <<mvars, rwvars, ovars, sem, pc, aborted>>
        /\ \/ life[t] \in {"none", "joined"} /\ l \in {"running", "failed", "suspended"}
           \/ life[t] = "running" /\ pc[t] = "out" /\ l = "finished"
           \/ life[t] = "finished" /\ l = "joined"
  BY Zenon DEF os_thread_create, os_thread_join, os_thread_start_routine_wrapper, LifeRest, At
<1>3. life'[t] = l /\ \A u \in Threads \ {t} : life'[u] = life[u]
  BY <1>1, <1>2, Zenon DEF ThreadInv
<1>4. ThreadInv'
  BY <1>1, <1>2, <1>3, Zenon DEF ThreadInv
<1>5. UNCHANGED <<In(Mutex), In(Reading), In(Writing), In({"past"}), In({"token"}), In(Sleeping)>>
  BY <1>2, Zenon DEF In, Mutex, Reading, Writing, Sleeping
<1>6. MutexInv'
  BY <1>1, <1>2, <1>5, Zenon DEF MutexInv, mvars
<1>7. RwInv'
  BY <1>1, <1>2, <1>5, Zenon DEF RwInv, rwvars
<1>8. OnceInv' /\ SemInv'
  BY <1>1, <1>2, <1>5, Zenon DEF OnceInv, SemInv, ovars
<1>9. UNCHANGED <<asleep, Func, sem>>
  BY <1>2, Zenon DEF mvars, ovars, Func
<1>10. \/ Running' = Running /\ Finished' = Finished
       \/ t \notin Running \cup Finished /\ Running' = Running \cup {t} /\ Finished' = Finished
       \/ t \in Running /\ Running' = Running \ {t} /\ Finished' = Finished \cup {t}
       \/ t \in Finished /\ Finished' = Finished \ {t} /\ Running' = Running
  BY <1>2, <1>3, Zenon DEF Running, Finished
<1>11. [Abstract!TNext]_(Abstract!tvars)
  <2>1. CASE Running' = Running /\ Finished' = Finished
    BY <1>5, <1>9, <2>1, Invisible, Zenon
  <2>2. CASE ~(Running' = Running /\ Finished' = Finished)
    <3>1. Abstract!thread_create(t) \/ Abstract!thread_end(t) \/ Abstract!thread_join(t)
      BY <1>10, <2>2, Zenon DEF Abstract!thread_create, Abstract!thread_end, Abstract!thread_join,
                         Running, Finished
    <3>2. UNCHANGED Abstract!objects
      BY <1>5, <1>9, Zenon DEF Abstract!objects, Mutex, Func
    <3>. QED
      BY <3>1, <3>2, Zenon DEF Abstract!TNext
  <2>. QED
    BY <2>1, <2>2, Zenon
<1>. QED
  BY <1>4, <1>6, <1>7, <1>8, <1>11, Zenon DEF Kept, OsInv

\* Every step of the thread layer, by what kind of step it is.
LEMMA OsStepKept ==
  ASSUME OsInv, NEW t \in Threads, OsStep(t)
  PROVE  Kept
<1>1. ~aborted
  BY Zenon DEF OsStep, OnceStep, Expire
<1>2. CASE \/ os_mutex_enter(t) \/ os_mutex_lock(t) \/ os_mutex_trylock(t)
           \/ os_mutex_unlock(t) \/ os_cond_wait(t)
  BY <1>1, <1>2, EnterStep, CountStep, Zenon
<1>3. CASE os_cond_signal(t) \/ os_cond_broadcast(t) \/ os_cond_return(t)
  BY <1>1, <1>3, SignalStep, ReturnStep, Zenon
<1>4. CASE TIMED_LOCK_try(t)
  <2>1. TimedMutex(t) \/ TimedRw(t)
    BY <1>4, Zenon DEF TimedMutex, TimedRw
  <2>. QED
    BY <1>1, <2>1, ReturnStep, RwGetStep, Zenon
<1>5. CASE \/ os_rwlock_rdlock(t) \/ os_rwlock_rdlock_store(t) \/ os_rwlock_wrlock(t)
           \/ os_rwlock_wrlock_store(t) \/ os_rwlock_unlock_read(t) \/ os_rwlock_unlock(t)
  BY <1>1, <1>5, RwGetStep, RwFlagStep, RwUnlockStep, Zenon
<1>6. CASE os_semaphore_wait(t) \/ util_semaphore_trywait(t) \/ util_semaphore_post(t)
  BY <1>1, <1>6, SemStep, Zenon
<1>7. CASE \/ os_mutex_timedlock(t) \/ os_rwlock_timedlock(t) \/ Expire(t)
           \/ util_semaphore_wait(t)
  BY <1>1, <1>7, NeutralStep, Zenon DEF Expire
<1>8. CASE os_thread_create(t) \/ os_thread_join(t)
  BY <1>1, <1>8, LifeStep, Zenon
<1>9. CASE OnceStep(t)
  BY <1>1, <1>9, OnceLoopStep, OnceFuncStep, Zenon DEF OnceStep
<1>. QED
  BY <1>2, <1>3, <1>4, <1>5, <1>6, <1>7, <1>8, <1>9, ZenonT(30) DEF OsStep

\* The other things a step of the thread layer does and does not do: only func()
\* counts as a call, a running thread goes on running, and the process is ended
\* by the thread that has entered its mutex again, and has left it again.
LEMMA OsStepEffect ==
  ASSUME OsInv, NEW t \in Threads, OsStep(t)
  PROVE  /\ ~aborted
         /\ pc[t] # "func" => runs' = runs
         /\ \A u \in Threads : life[u] = "running" => life'[u] = "running"
         /\ aborted' => pc'[t] = "relocked" /\ cs' = [owner |-> t, count |-> 1]
<1>1. ~aborted
  BY Zenon DEF OsStep, OnceStep, Expire
<1>2. ThreadInv /\ MutexInv /\ NULL \notin Threads
  BY UsesAssumption, Zenon DEF OsInv
<1>3. CASE os_mutex_lock(t)
  <2>1. UNCHANGED <<life, runs>>
    BY <1>3, Zenon DEF os_mutex_lock, MutexRest, ovars
  <2>2. ASSUME aborted'
        PROVE  pc'[t] = "relocked" /\ cs' = [owner |-> t, count |-> 1]
    <3>1. cs.count > 1 /\ Leave /\ pc' = pc /\ pc[t] \in {"entered", "relocked"}
      <4>1. ~(cs.count > 1) => aborted' = aborted
        BY <1>3, Zenon DEF os_mutex_lock
      <4>2. aborted = FALSE
        BY <1>1, <1>2, Zenon DEF ThreadInv
      <4>3. ~(cs.count > 1) => ~aborted'
        BY <4>1, <4>2, Zenon
      <4>4. cs.count > 1
        BY <2>2, <4>3, Zenon
      <4>. QED
        BY <1>3, <4>4, Zenon DEF os_mutex_lock
    <3>2. cs.owner = t /\ cs.count = 2 /\ pc[t] = "relocked"
      BY <1>1, <1>2, <3>1 DEF MutexInv, Mutex
    <3>3. cs = [owner |-> t, count |-> 2]
      BY <1>2, <3>2, Zenon DEF MutexInv
    <3>. QED
      BY <3>1, <3>2, <3>3 DEF Leave
  <2>. QED
    BY <1>1, <2>1, <2>2, Zenon
<1>4. CASE os_thread_create(t) \/ os_thread_join(t)
  <2>1. PICK l : life' = [life EXCEPT ![t] = l] /\ life[t] # "running" /\ aborted' = aborted
                 /\ runs' = runs
    BY <1>4, Zenon DEF os_thread_create, os_thread_join, LifeRest, ovars
  <2>. QED
    BY <1>1, <1>2, <2>1, Zenon DEF ThreadInv
<1>5. CASE OnceStep(t)
  BY <1>1, <1>5 DEF OnceStep, os_once, os_once_cas, os_once_func, os_once_set, OnceRest, ovars
<1>6. CASE \/ os_mutex_enter(t) \/ os_mutex_trylock(t) \/ os_mutex_timedlock(t)
           \/ os_mutex_unlock(t) \/ os_cond_wait(t) \/ os_cond_signal(t)
           \/ os_cond_broadcast(t) \/ os_cond_return(t) \/ TIMED_LOCK_try(t) \/ Expire(t)
  <2>1. UNCHANGED <<life, runs, aborted>>
    BY <1>6, ZenonT(30) DEF os_mutex_enter, os_mutex_trylock, os_mutex_timedlock, os_mutex_unlock,
                os_cond_wait, os_cond_signal, os_cond_broadcast, os_cond_return,
                TIMED_LOCK_try, Expire, TIMED_LOCK_expired, MutexRest, ovars
  <2>. QED
    BY <1>1, <2>1, Zenon
<1>7. CASE \/ os_rwlock_rdlock(t) \/ os_rwlock_rdlock_store(t) \/ os_rwlock_wrlock(t)
           \/ os_rwlock_wrlock_store(t) \/ os_rwlock_timedlock(t)
           \/ os_rwlock_unlock_read(t) \/ os_rwlock_unlock(t)
           \/ util_semaphore_wait(t) \/ os_semaphore_wait(t)
           \/ util_semaphore_trywait(t) \/ util_semaphore_post(t)
  <2>1. UNCHANGED <<life, runs, aborted>>
    BY <1>7, Zenon DEF os_rwlock_rdlock, os_rwlock_rdlock_store, os_rwlock_wrlock,
                os_rwlock_wrlock_store, os_rwlock_timedlock, os_rwlock_unlock_read,
                os_rwlock_unlock, util_semaphore_wait, os_semaphore_wait,
                util_semaphore_trywait, util_semaphore_post, RwRest, SemRest, ovars
  <2>. QED
    BY <1>1, <2>1, Zenon
<1>. QED
  BY <1>3, <1>4, <1>5, <1>6, <1>7, ZenonT(30) DEF OsStep

------------------------------------------------------------------------------
(* The last error messages.                                                   *)

\* A step of the thread layer outside func() leaves the messages alone.
LEMMA OsStepKeepsMessages ==
  ASSUME ErrorMsgInv, NEW t \in Threads, OsStep(t), pc[t] # "func", UNCHANGED evars
  PROVE  TlsInv'
<1>1. TlsInv /\ OsInv
  BY Zenon DEF ErrorMsgInv
<1>2. /\ ~aborted /\ runs' = runs
      /\ \A u \in Threads : life[u] = "running" => life'[u] = "running"
      /\ aborted' => pc'[t] = "relocked" /\ cs' = [owner |-> t, count |-> 1]
  BY <1>1, OsStepEffect, Zenon
<1>3. MessageIsOwn'
  BY <1>1, <1>2, Zenon DEF TlsInv, MessageIsOwn, evars
<1>4. AbortIsReal'
  BY <1>2, Zenon DEF AbortIsReal
<1>. QED
  BY <1>1, <1>2, <1>3, <1>4, Zenon DEF TlsInv, evars

\* func() creates the key, before any thread has reported an error.
LEMMA KeyAllocStep ==
  ASSUME ErrorMsgInv, NEW t \in Threads, ~aborted, _Last_errormsg_key_alloc(t)
  PROVE  Kept /\ TlsInv'
<1>1. TlsInv /\ OsInv
  BY Zenon DEF ErrorMsgInv
<1>2. os_once_func(t) /\ key' = "live" /\ UNCHANGED <<slot, last>>
  BY Zenon DEF _Last_errormsg_key_alloc, os_tls_key_create
<1>3. Kept /\ runs = 0 /\ runs' = 1
  BY <1>1, <1>2, OnceFuncStep, Zenon
<1>4. UNCHANGED <<life, aborted>>
  BY <1>2, Zenon DEF os_once_func, OnceRest
<1>5. MessageIsOwn'
  BY <1>1, <1>2, <1>3, <1>4, Zenon DEF TlsInv, MessageIsOwn
<1>6. AbortIsReal'
  BY <1>4, Zenon DEF AbortIsReal
<1>. QED
  BY <1>1, <1>2, <1>3, <1>5, <1>6 DEF TlsInv

\* A thread gets its buffer, or finds the key deleted.
LEMMA GetStep ==
  ASSUME ErrorMsgInv, NEW t \in Threads, ~aborted, Last_errormsg_get(t)
  PROVE  Kept /\ TlsInv'
<1>1. TlsInv /\ OsInv /\ ThreadInv /\ OnceInv
  BY Zenon DEF ErrorMsgInv, OsInv
<1>2. /\ pc[t] = "past" /\ UNCHANGED <<mvars, rwvars, ovars, sem, life, key, last>>
      /\ life[t] = "running" /\ runs = 1
  BY <1>1, Zenon DEF Last_errormsg_get, ThreadInv, OnceInv
<1>3. CASE Goto(t, "msg") /\ UNCHANGED aborted /\ (slot' = slot \/ (slot[t] = NULL /\ os_tls_set(t)))
  <2>1. Kept
    BY <1>1, <1>2, <1>3, PastStep, Zenon
  <2>2. \/ slot' = slot
        \/ slot[t] = NULL /\ slot' = [slot EXCEPT ![t] = EmptyMsg] /\ key = "live"
    BY <1>3, Zenon DEF os_tls_set
  <2>3. MessageIsOwn'
    BY <1>1, <1>2, <2>2, Zenon DEF TlsInv, MessageIsOwn
  <2>4. AbortIsReal'
    BY <1>3, Zenon DEF AbortIsReal
  <2>. QED
    BY <1>1, <1>2, <2>1, <2>2, <2>3, <2>4, Zenon DEF TlsInv, ovars
<1>4. CASE key # "live" /\ aborted' = TRUE /\ UNCHANGED <<slot, pc>>
  <2>1. Kept
    BY <1>1, <1>2, <1>4, StandStill, Zenon
  <2>2. key' = "deleted" /\ pc'[t] = "past"
    BY <1>1, <1>2, <1>4 DEF TlsInv
  <2>3. MessageIsOwn' /\ AbortIsReal'
    BY <1>1, <1>2, <1>4, <2>2, Zenon DEF TlsInv, MessageIsOwn, AbortIsReal
  <2>. QED
    BY <1>1, <1>2, <1>4, <2>1, <2>3, Zenon DEF TlsInv, ovars
<1>5. \/ /\ Goto(t, "msg") /\ UNCHANGED aborted
         /\ slot' = slot \/ (slot[t] = NULL /\ os_tls_set(t))
      \/ key # "live" /\ aborted' = TRUE /\ UNCHANGED <<slot, pc>>
  BY Zenon DEF Last_errormsg_get, os_tls_get
<1>. QED
  BY <1>3, <1>4, <1>5, Zenon

\* A thread writes to its buffer, or reads it.
LEMMA BufferStep ==
  ASSUME ErrorMsgInv, NEW t \in Threads, ~aborted, out_error(t) \/ out_get_errormsg(t)
  PROVE  Kept /\ TlsInv'
<1>1. TlsInv /\ OsInv /\ ThreadInv /\ OnceInv
  BY Zenon DEF ErrorMsgInv, OsInv
<1>2. /\ pc[t] = "msg" /\ Goto(t, "out") /\ UNCHANGED <<mvars, rwvars, ovars, sem, life, aborted, key>>
      /\ \/ UNCHANGED <<slot, last>>
         \/ \E m \in Messages : slot' = [slot EXCEPT ![t] = m] /\ last' = [last EXCEPT ![t] = m]
  BY Zenon DEF out_error, out_get_errormsg, evars
<1>3. Kept
  BY <1>1, <1>2, PastStep, Zenon
<1>4. life[t] = "running" /\ runs = 1
  BY <1>1, <1>2, Zenon DEF ThreadInv, OnceInv
<1>5. MessageIsOwn'
  BY <1>1, <1>2, <1>4, ZenonT(30) DEF TlsInv, MessageIsOwn
<1>6. AbortIsReal'
  BY <1>2, Zenon DEF AbortIsReal
<1>. QED
  BY <1>1, <1>2, <1>3, <1>4, <1>5, <1>6 DEF TlsInv, ovars

\* out_fini takes all messages away.
LEMMA FiniStep ==
  ASSUME ErrorMsgInv, NEW t \in Threads, ~aborted, out_fini(t)
  PROVE  Kept /\ TlsInv'
<1>1. TlsInv /\ OsInv /\ aborted \in BOOLEAN
  BY Zenon DEF ErrorMsgInv, OsInv, ThreadInv
<1>2. /\ key = "live" /\ key' = "deleted" /\ slot' = [u \in Threads |-> NULL]
      /\ UNCHANGED <<mvars, rwvars, ovars, sem, life, pc, aborted, last>>
  BY Zenon DEF out_fini, os_tls_key_delete, vars
<1>3. Kept
  BY <1>1, <1>2, StandStill, Zenon
<1>4. MessageIsOwn' /\ AbortIsReal'
  BY <1>1, <1>2, Zenon DEF TlsInv, MessageIsOwn, AbortIsReal
<1>. QED
  BY <1>1, <1>2, <1>3, <1>4, Zenon DEF TlsInv, ovars

\* A function stays one when a value is replaced.
LEMMA StillFunction ==
  ASSUME NEW S, NEW f, f = [u \in S |-> f[u]], NEW t, NEW v, NEW g, g = [f EXCEPT ![t] = v]
  PROVE  g = [u \in S |-> g[u]]
  BY Zenon

\* A thread ends and its buffer with it.
LEMMA ExitStep ==
  ASSUME ErrorMsgInv, NEW t \in Threads, ~aborted, ThreadExit(t)
  PROVE  Kept /\ TlsInv'
<1>1. TlsInv /\ OsInv /\ ThreadInv
  BY Zenon DEF ErrorMsgInv, OsInv
<1>2. /\ os_thread_start_routine_wrapper(t) /\ key' = key
      /\ slot' = [slot EXCEPT ![t] = NULL] /\ last' = [last EXCEPT ![t] = NULL]
  BY Zenon DEF ThreadExit
<1>3. Kept
  BY <1>1, <1>2, LifeStep, Zenon
<1>4. life' = [life EXCEPT ![t] = "finished"] /\ UNCHANGED <<ovars, aborted>>
  BY <1>2, Zenon DEF os_thread_start_routine_wrapper, LifeRest
<1>5. \A u \in Threads \ {t} : life'[u] = life[u]
  BY <1>1, <1>4, Zenon DEF ThreadInv
<1>6. /\ slot'[t] = NULL /\ last'[t] = NULL
      /\ \A u \in Threads \ {t} : slot'[u] = slot[u] /\ last'[u] = last[u]
  BY <1>1, <1>2, Zenon DEF TlsInv
<1>7. MessageIsOwn'
  <2>1. \A u \in Threads \ {t} :
          /\ life'[u] # "running" => slot'[u] = NULL
          /\ slot'[u] \in {NULL, EmptyMsg} \/ slot'[u] = last'[u]
          /\ key' = "live" /\ last'[u] # NULL => slot'[u] = last'[u]
    <3>1. MessageIsOwn /\ key' = key
      BY <1>1, <1>2, Zenon DEF TlsInv
    <3>. QED
      BY <1>5, <1>6, <3>1, Zenon DEF MessageIsOwn
  <2>2. slot'[t] = NULL /\ last'[t] = NULL
    BY <1>6, Zenon
  <2>. QED
    BY <2>1, <2>2, Zenon DEF MessageIsOwn
<1>8. AbortIsReal'
  BY <1>4, Zenon DEF AbortIsReal
<1>. QED
  <2>1. /\ key' \in {"none", "live", "deleted"}
        /\ key' = "none" <=> runs' = 0
        /\ key' = "none" => \A u \in Threads : last'[u] = NULL
    BY <1>1, <1>2, <1>4, <1>6, Zenon DEF TlsInv, ovars
  <2>2. slot' = [u \in Threads |-> slot'[u]] /\ last' = [u \in Threads |-> last'[u]]
    <3>1. slot = [u \in Threads |-> slot[u]] /\ last = [u \in Threads |-> last[u]]
      BY <1>1, Zenon DEF TlsInv
    <3>2. slot' = [u \in Threads |-> slot'[u]]
      BY <1>2, <3>1, StillFunction, Zenon
    <3>3. last' = [u \in Threads |-> last'[u]]
      BY <1>2, <3>1, StillFunction, Zenon
    <3>. QED
      BY <3>2, <3>3, Zenon
  <2>3. TlsInv'
    BY <1>7, <1>8, <2>1, <2>2, Zenon DEF TlsInv
  <2>. QED
    BY <1>3, <2>3, Zenon

------------------------------------------------------------------------------
(* The theorems.                                                              *)

\* The init functions establish the invariant of the thread layer, and the
\* objects are new to their users.
LEMMA OsInit == Init => OsInv /\ Abstract!TInit
<1>. SUFFICES ASSUME Init PROVE OsInv /\ Abstract!TInit
  BY Zenon
<1>1. \A u \in Threads : pc[u] = "out" /\ life[u] = "none"
  BY Zenon DEF Init
<1>2. \A L : "out" \notin L => In(L) = {}
  BY <1>1, Zenon DEF In
<1>3. /\ In(Mutex) = {} /\ In(Sleeping) = {} /\ In(Reading) = {} /\ In(Writing) = {}
      /\ In({"past"}) = {} /\ In({"token"}) = {}
  BY <1>2, Zenon DEF Mutex, Sleeping, Reading, Writing
<1>4. Cardinality({}) = 0 /\ NULL \notin Threads /\ Tokens \in Nat
  BY FS_EmptySet, UsesAssumption, Zenon
<1>5. ThreadInv
  <2>1. "out" \in Labels
    BY Zenon DEF Labels
  <2>2. pc \in [Threads -> Labels]
    BY <2>1, Zenon DEF Init
  <2>3. life \in [Threads -> {"none", "suspended", "failed", "running", "finished", "joined"}]
    BY Zenon DEF Init
  <2>4. aborted \in BOOLEAN
    BY Zenon DEF Init
  <2>. QED
    BY <1>1, <2>2, <2>3, <2>4, Zenon DEF ThreadInv
<1>6. MutexInv
  BY <1>1, <1>3, <1>4 DEF Init, MutexInv, Mutex
<1>7. RwInv
  <2>1. /\ srw = [excl |-> FALSE, shared |-> 0]
        /\ is_write \in BOOLEAN /\ saw \in [Threads -> BOOLEAN]
    BY Zenon DEF Init
  <2>. QED
    BY <1>1, <1>3, <1>4, <2>1, Zenon DEF RwInv, Reading, Writing
<1>8. OnceInv /\ SemInv
  <2>1. once = 0 /\ runs = 0 /\ sem = Tokens
    BY Zenon DEF Init
  <2>2. OnceInv
    BY <1>1, <2>1 DEF OnceInv
  <2>3. SemInv
    <3>1. \A t \in Threads : pc[t] # "sem_eintr"
      BY <1>1, Zenon
    <3>2. sem + 0 = Tokens
      BY <1>4, <2>1
    <3>. QED
      BY <1>3, <1>4, <2>1, <3>1, <3>2, Zenon DEF SemInv
  <2>. QED
    BY <2>2, <2>3, Zenon
<1>9. Abstract!TInit
  <2>1. Func = "new" /\ Running = {} /\ Finished = {}
    BY <1>1 DEF Func, Running, Finished, Init
  <2>2. sem = Tokens /\ asleep = {}
    BY Zenon DEF Init
  <2>. QED
    BY <1>3, <2>1, <2>2, Zenon DEF Abstract!TInit, Mutex, Func, Running, Finished
<1>. QED
  BY <1>5, <1>6, <1>7, <1>8, <1>9, Zenon DEF OsInv

\* Every step of the thread layer on its own.
LEMMA OsNext == OsInv /\ [Next]_vars => Kept
<1>. SUFFICES ASSUME OsInv, [Next]_vars PROVE Kept
  BY Zenon
<1>1. CASE UNCHANGED vars
  <2>1. aborted' \in BOOLEAN /\ (aborted => aborted')
    BY <1>1, Zenon DEF vars, OsInv, ThreadInv
  <2>. QED
    BY <1>1, <2>1, StandStill, Zenon DEF vars
<1>2. CASE Next
  <2>1. PICK t \in Threads :
          OsStep(t) \/ (~aborted /\ (use(t) \/ os_thread_start_routine_wrapper(t)))
    BY <1>2, Zenon DEF Next
  <2>2. CASE ~aborted /\ use(t)
    BY <2>2, PastStep, Zenon DEF use, OnceRest
  <2>. QED
    BY <2>1, <2>2, OsStepKept, LifeStep, Zenon
<1>. QED
  BY <1>1, <1>2, Zenon

\* The thread layer without signals: the Windows functions behave as the pthread
\* calls do, for any number of threads.
THEOREM OsThreadsImplementThreads == Spec => ImplementsThreads
<1>1. Spec => []OsInv
  BY OsInit, OsNext, PTL DEF Spec, Kept
<1>2. OsInv /\ [Next]_vars => [Abstract!TNext]_(Abstract!tvars)
  BY OsNext, Zenon DEF Kept
<1>. QED
  BY <1>1, <1>2, OsInit, PTL DEF Spec, ImplementsThreads, Abstract!TSpec

\* Without signals no token is lost: util_semaphore_wait takes exactly one. (An
\* EINTR takes this away, which the run on InterruptedSpec shows.)
THEOREM TokensAreConserved == Spec => []TokensConserved
<1>1. Spec => []OsInv
  BY OsInit, OsNext, PTL DEF Spec, Kept
<1>2. OsInv => TokensConserved
  BY Zenon DEF OsInv, SemInv, TokensConserved
<1>. QED
  BY <1>1, <1>2, PTL

\* Every step of the threads that report errors.
LEMMA ErrorMsgNext == ErrorMsgInv /\ [ENext]_allvars => Kept /\ ErrorMsgInv'
<1>. SUFFICES ASSUME ErrorMsgInv, [ENext]_allvars PROVE Kept /\ TlsInv'
  BY Zenon DEF Kept, ErrorMsgInv
<1>0. OsInv /\ TlsInv /\ aborted \in BOOLEAN
  BY Zenon DEF ErrorMsgInv, OsInv, ThreadInv
<1>1. CASE UNCHANGED allvars
  <2>1. /\ UNCHANGED <<mvars, rwvars, ovars, sem, life, pc, aborted, key, slot, last>>
        /\ aborted' \in BOOLEAN /\ (aborted => aborted')
    BY <1>0, <1>1, Zenon DEF allvars, vars, evars
  <2>2. UNCHANGED <<cs, runs>>
    BY <2>1, Zenon DEF mvars, ovars
  <2>3. TlsInv'
    BY <1>0, <2>1, <2>2, Zenon DEF TlsInv, MessageIsOwn, AbortIsReal
  <2>. QED
    BY <1>0, <2>1, <2>3, StandStill, Zenon
<1>2. CASE ENext
  <2>1. PICK t \in Threads : EStep(t)
    BY <1>2, Zenon DEF ENext
  <2>2. CASE OsStep(t) /\ pc[t] # "func" /\ UNCHANGED evars
    BY <1>0, <2>2, OsStepKept, OsStepKeepsMessages, Zenon
  <2>3. CASE ~aborted /\ _Last_errormsg_key_alloc(t)
    BY <2>3, KeyAllocStep, Zenon
  <2>4. CASE ~aborted /\ Last_errormsg_get(t)
    BY <2>4, GetStep, Zenon
  <2>5. CASE ~aborted /\ (out_error(t) \/ out_get_errormsg(t))
    BY <2>5, BufferStep, Zenon
  <2>6. CASE ~aborted /\ (out_fini(t) \/ ThreadExit(t))
    BY <2>6, FiniStep, ExitStep, Zenon
  <2>. QED
    BY <2>1, <2>2, <2>3, <2>4, <2>5, <2>6, ZenonT(30) DEF EStep
<1>. QED
  BY <1>1, <1>2, Zenon

\* The inductive invariant of the error messages and the thread layer under them.
THEOREM ErrorMsgAlways == ESpec => []ErrorMsgInv
<1>1. EInit => ErrorMsgInv
  <2>. SUFFICES ASSUME EInit PROVE OsInv /\ TlsInv
    BY Zenon DEF ErrorMsgInv
  <2>1. OsInv
    BY OsInit, Zenon DEF EInit
  <2>2. TlsInv
    <3>1. /\ key = "none" /\ runs = 0 /\ aborted = FALSE
          /\ slot = [t \in Threads |-> NULL] /\ last = [t \in Threads |-> NULL]
      BY Zenon DEF EInit, Init
    <3>. QED
      BY <3>1, Zenon DEF TlsInv, MessageIsOwn, AbortIsReal
  <2>. QED
    BY <2>1, <2>2, Zenon
<1>. QED
  BY <1>1, ErrorMsgNext, PTL DEF ESpec

\* What the functions conclude from is_write, RecursionCount and a failed
\* os_tls_set is right, whatever the number of threads.
THEOREM FieldsAreTrue == ESpec => []FieldsTrue
<1>1. ErrorMsgInv => FieldsTrue
  <2>. SUFFICES ASSUME ErrorMsgInv PROVE FieldsTrue
    BY Zenon
  <2>1. ThreadInv /\ MutexInv /\ RwInv /\ OnceInv /\ SemInv /\ TlsInv
    BY Zenon DEF ErrorMsgInv, OsInv
  <2>2. Cardinality(In(Reading)) \in 0..Cardinality(Threads)
    <3>1. In(Reading) \subseteq Threads
      BY Zenon DEF In
    <3>2. /\ Cardinality(In(Reading)) <= Cardinality(Threads)
          /\ IsFiniteSet(In(Reading))
      BY <3>1, FS_Subset, UsesAssumption, Zenon
    <3>3. Cardinality(In(Reading)) \in Nat /\ Cardinality(Threads) \in Nat
      BY <3>2, FS_CardinalityType, UsesAssumption, Zenon
    <3>. QED
      BY <3>2, <3>3
  <2>3. srw \in [excl : BOOLEAN, shared : 0..Cardinality(Threads)]
    BY <2>1, <2>2, Zenon DEF RwInv
  <2>4. sem \in 0..Tokens
    <3>1. In({"token"}) \subseteq Threads
      BY Zenon DEF In
    <3>2. Cardinality(In({"token"})) \in Nat
      BY <3>1, FS_Subset, FS_CardinalityType, UsesAssumption, Zenon
    <3>. QED
      BY <2>1, <3>2, UsesAssumption DEF SemInv
  <2>5. woken \subseteq asleep /\ asleep \subseteq Threads
    BY <2>1, Zenon DEF MutexInv, In
  <2>6. TypeOK
    BY <2>1, <2>3, <2>4, <2>5, Zenon DEF TypeOK, ThreadInv, MutexInv, RwInv, OnceInv
  <2>7. UnlockMatches
    BY <2>1, Zenon DEF RwInv, UnlockMatches
  <2>8. AbortIsReal
    BY <2>1, Zenon DEF TlsInv
  <2>. QED
    BY <2>6, <2>7, <2>8, Zenon DEF FieldsTrue
<1>. QED
  BY <1>1, ErrorMsgAlways, PTL

\* A thread reads back its own last error and no other thread's.
THEOREM MessagesAreOwn == ESpec => []MessageIsOwn
<1>1. ErrorMsgInv => MessageIsOwn
  BY Zenon DEF ErrorMsgInv, TlsInv
<1>. QED
  BY <1>1, ErrorMsgAlways, PTL

\* The thread layer keeps its promises under the error messages as well.
THEOREM ErrorMsgImplementsThreads == ESpec => ImplementsThreads
<1>1. EInit => Abstract!TInit
  BY OsInit, Zenon DEF EInit
<1>2. ErrorMsgInv /\ [ENext]_allvars => [Abstract!TNext]_(Abstract!tvars)
  BY ErrorMsgNext, Zenon DEF Kept
<1>. QED
  BY <1>1, <1>2, ErrorMsgAlways, PTL DEF ESpec, ImplementsThreads, Abstract!TSpec

=============================================================================
