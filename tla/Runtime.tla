------------------------------- MODULE Runtime -------------------------------
(***************************************************************************)
(* runtime.c on top of the data movers: threads that create futures, poll  *)
(* them by hand or wait for them with runtime_wait_multiple, the mutex and *)
(* condition variable of each thread's runtime, and the workers that call  *)
(* its waker. A call to future_poll is not atomic: op_start, the store of  *)
(* started and the two loads of op_check interleave with the workers.      *)
(*                                                                         *)
(* Each caller has a runtime of its own and polls its own futures.         *)
(***************************************************************************)
EXTENDS DataMover

CONSTANTS
  Owner,            \* the caller a future belongs to
  Spins,            \* spins_before_sleep, 1000 in the code
  WaitsOnComplete   \* do callers wait for futures that are already complete?

ASSUME RuntimeAssumption ==
  /\ IsFiniteSet(Callers)
  /\ Callers \cap UserWakers = {}
  /\ Callers \cap Workers = {}
  /\ Owner \in [Futs -> Callers]
  /\ Spins \in Nat \ {0}
  /\ WaitsOnComplete \in BOOLEAN

VARIABLES
  pc,        \* where a caller is
  batch,     \* the futures of its runtime_wait_multiple; {} outside
  todo,      \* those not yet visited in this pass
  cur,       \* the future being polled
  with,      \* the waker passed to future_poll, or NULL
  ndone,
  spin,      \* i of the spin loop
  lock,      \* holder of the runtime's mutex
  signalled  \* the condition variable was signalled while the caller slept

callers == <<pc, batch, todo, cur, with, ndone, spin>>
sync == <<lock, signalled>>
vars == <<dmvars, callers, sync>>

Goto(c, label) == pc' = [pc EXCEPT ![c] = label]

Init ==
  /\ DMInit
  /\ pc = [c \in Callers |-> "out"]
  /\ batch = [c \in Callers |-> {}]
  /\ todo = [c \in Callers |-> {}]
  /\ cur = [c \in Callers |-> NULL]
  /\ with = [c \in Callers |-> NULL]
  /\ ndone = [c \in Callers |-> 0]
  /\ spin = [c \in Callers |-> 0]
  /\ lock = [c \in Callers |-> NULL]
  /\ signalled = [c \in Callers |-> FALSE]

-----------------------------------------------------------------------------
Mine(c) == {f \in Futs : Owner[f] = c}
Waiting(c) == batch[c] # {}

\* The mover must not be used once its deletion has begun.
MayUse(c) == pc[c] = "out" /\ mover = "up"

create(c) ==
  /\ MayUse(c)
  /\ \E f \in Mine(c) : vdm_generic_operation(f)
  /\ UNCHANGED <<callers, sync>>

\* future_poll called by hand, without a notifier or with a waker of the
\* caller's own. (A complete future is left alone.)
poll_by_hand(c) ==
  /\ MayUse(c)
  /\ \E f \in Mine(c), n \in {NULL} \cup UserWakers :
       /\ state[f] \in {"IDLE", "RUNNING"}
       /\ cur' = [cur EXCEPT ![c] = f]
       /\ with' = [with EXCEPT ![c] = n]
  /\ Goto(c, "poll")
  /\ UNCHANGED <<batch, todo, ndone, spin, dmvars, sync>>

\* runtime_wait, runtime_wait_multiple are called.
runtime_wait_multiple(c) ==
  /\ MayUse(c)
  /\ \E futs \in SUBSET {f \in Mine(c) : state[f] # "none"} :
       /\ futs # {}
       /\ WaitsOnComplete \/ \A f \in futs : state[f] # "COMPLETE"
       /\ batch' = [batch EXCEPT ![c] = futs]
  /\ ndone' = [ndone EXCEPT ![c] = 0]
  /\ spin' = [spin EXCEPT ![c] = 0]
  /\ Goto(c, "sort")
  /\ UNCHANGED <<todo, cur, with, dmvars, sync>>

\* qsort calls future_compare_async when there are at least two futures, and
\* that the has_property of both: a call through NULL ends the program.
CallsNull(S) == Cardinality(S) > 1 /\ \E f \in S : property[f] = NULL

wait_sort(c) ==
  /\ pc[c] = "sort"
  /\ Goto(c, IF CallsNull(batch[c]) THEN "crashed" ELSE "pass")
  /\ todo' = [todo EXCEPT ![c] = batch[c]]
  /\ UNCHANGED <<batch, cur, with, ndone, spin, dmvars, sync>>

\* The futures that can come first in an array sorted so: qsort is not stable,
\* but the asynchronous ones precede the others.
Foremost(S) ==
  {f \in S : property[f] = "async" \/ \A g \in S : property[g] # "async"}

\* The loop over the futures. Complete ones are skipped, and not counted.
wait_visit(c) ==
  /\ pc[c] = "pass"
  /\ \E f \in Foremost(todo[c]) :
       /\ todo' = [todo EXCEPT ![c] = @ \ {f}]
       /\ \/ state[f] = "COMPLETE" /\ UNCHANGED <<pc, cur, with>>
          \/ /\ state[f] # "COMPLETE"
             /\ cur' = [cur EXCEPT ![c] = f]
             /\ with' = [with EXCEPT ![c] = c]
             /\ Goto(c, "poll")
  /\ UNCHANGED <<batch, ndone, spin, dmvars, sync>>

\* The end of a pass: return, spin or sleep.
wait_passed(c) ==
  /\ pc[c] = "pass"
  /\ todo[c] = {}
  /\ \/ /\ ndone[c] = Cardinality(batch[c])
        /\ Goto(c, "out")
        /\ batch' = [batch EXCEPT ![c] = {}]
        /\ ndone' = [ndone EXCEPT ![c] = 0]
        /\ spin' = [spin EXCEPT ![c] = 0]
     \/ /\ ndone[c] # Cardinality(batch[c])
        /\ \/ /\ spin[c] + 1 < Spins
              /\ spin' = [spin EXCEPT ![c] = @ + 1]
              /\ Goto(c, "sort")
           \/ /\ spin[c] + 1 = Spins
              /\ spin' = [spin EXCEPT ![c] = 0]
              /\ Goto(c, "sleep")
        /\ UNCHANGED <<batch, ndone>>
  /\ UNCHANGED <<todo, cur, with, dmvars, sync>>

-----------------------------------------------------------------------------
\* future_poll, vdm_operation_impl: op_start unless it was started.
poll_start(c) ==
  LET f == cur[c] IN
  /\ pc[c] = "poll"
  /\ \/ /\ state[f] = "IDLE" /\ f \in Async
        /\ \/ start_enqueue(f, with[c]) /\ Goto(c, "started")
           \/ start_full(f, with[c]) /\ Goto(c, "check")
     \/ /\ state[f] = "IDLE" /\ f \in SyncFuts
        /\ sync_operation_start(f)
        /\ Goto(c, "check")
     \/ /\ state[f] = "RUNNING"
        /\ Goto(c, "check")
        /\ UNCHANGED dmvars
  /\ UNCHANGED <<batch, todo, cur, with, ndone, spin, sync>>

poll_started(c) ==
  /\ pc[c] = "started"
  /\ start_started(cur[c])
  /\ Goto(c, "check")
  /\ UNCHANGED <<batch, todo, cur, with, ndone, spin, sync>>

\* The poll returns to the wait loop, or to the caller that polled by hand.
PollReturns(c) ==
  /\ Goto(c, IF Waiting(c) THEN "pass" ELSE "out")
  /\ cur' = [cur EXCEPT ![c] = NULL]
  /\ with' = [with EXCEPT ![c] = NULL]
  /\ UNCHANGED <<batch, todo, spin, sync>>

poll_complete(c) ==
  /\ pc[c] = "check"
  /\ check_complete(cur[c])
  /\ ndone' = [ndone EXCEPT ![c] = IF Waiting(c) THEN @ + 1 ELSE @]
  /\ PollReturns(c)

poll_incomplete(c) ==
  /\ pc[c] = "check"
  /\ ~tdata[cur[c]].complete
  /\ Goto(c, "check_started")
  /\ UNCHANGED <<batch, todo, cur, with, ndone, spin, dmvars, sync>>

poll_pending(c) ==
  /\ pc[c] = "check_started"
  /\ check_started(cur[c])
  /\ PollReturns(c)
  /\ UNCHANGED ndone
-----------------------------------------------------------------------------
\* runtime_sleep: take the mutex
sleep_lock(c) ==
  /\ pc[c] = "sleep"
  /\ lock[c] = NULL
  /\ lock' = [lock EXCEPT ![c] = c]
  /\ Goto(c, "timedwait")
  /\ UNCHANGED <<batch, todo, cur, with, ndone, spin, dmvars, signalled>>

\* os_cond_timedwait gives the mutex up and sleeps in one step.
sleep_wait(c) ==
  /\ pc[c] = "timedwait"
  /\ lock' = [lock EXCEPT ![c] = NULL]
  /\ signalled' = [signalled EXCEPT ![c] = FALSE]
  /\ Goto(c, "asleep")
  /\ UNCHANGED <<batch, todo, cur, with, ndone, spin, dmvars>>

\* The sleeper takes the mutex again and os_cond_timedwait returns.
AwakeWithLock(c) ==
  /\ pc[c] = "asleep"
  /\ lock[c] = NULL
  /\ lock' = [lock EXCEPT ![c] = c]
  /\ signalled' = [signalled EXCEPT ![c] = FALSE]
  /\ Goto(c, "awake")
  /\ UNCHANGED <<batch, todo, cur, with, ndone, spin, dmvars>>

sleep_signalled(c) == signalled[c] /\ AwakeWithLock(c)

\* Mutant of sleep_timeout: the sleeper waits for a signal however long.
sleep_timeout_never(c) == pc[c] = "asleep" /\ UNCHANGED vars

\* cond_wait_time has passed.
sleep_timeout(c) == ~signalled[c] /\ AwakeWithLock(c)

sleep_unlock(c) ==
  /\ pc[c] = "awake"
  /\ lock' = [lock EXCEPT ![c] = NULL]
  /\ Goto(c, "sort")
  /\ UNCHANGED <<batch, todo, cur, with, ndone, spin, dmvars, signalled>>

-----------------------------------------------------------------------------
WakerOf(w) == tdata[job[w]].waker

\* FUTURE_WAKER_WAKE on a waker that does not come from a runtime.
wake_user(w) ==
  /\ at[w] = "wake"
  /\ WakerOf(w) \in UserWakers
  /\ at' = [at EXCEPT ![w] = "complete"]
  /\ UNCHANGED <<futures, queue, job, mover, callers, sync>>

\* runtime_waker_wake: lock, signal, unlock. The mutex and the condition
\* variable are found through a structure on the waiting caller's stack.
wake_lock(w) ==
  /\ at[w] = "wake"
  /\ WakerOf(w) \in Callers
  /\ lock[WakerOf(w)] = NULL
  /\ lock' = [lock EXCEPT ![WakerOf(w)] = w]
  /\ at' = [at EXCEPT ![w] = "signal"]
  /\ UNCHANGED <<futures, queue, job, mover, callers, signalled>>

wake_signal(w) ==
  /\ at[w] = "signal"
  /\ signalled' = [signalled EXCEPT ![WakerOf(w)] = pc[WakerOf(w)] = "asleep"]
  /\ at' = [at EXCEPT ![w] = "unlock"]
  /\ UNCHANGED <<futures, queue, job, mover, callers, lock>>

wake_unlock(w) ==
  /\ at[w] = "unlock"
  /\ lock' = [lock EXCEPT ![WakerOf(w)] = NULL]
  /\ at' = [at EXCEPT ![w] = "complete"]
  /\ UNCHANGED <<futures, queue, job, mover, callers, signalled>>

-----------------------------------------------------------------------------
\* data_mover_threads_delete is called when no caller uses the mover. A future
\* that was polled by hand may still be on its way.
delete ==
  /\ \A c \in Callers : pc[c] = "out"
  /\ delete_begin
  /\ UNCHANGED <<callers, sync>>

delete_step ==
  /\ delete_stopped \/ delete_free
  /\ UNCHANGED <<callers, sync>>

Terminated == mover = "deleted" /\ UNCHANGED vars

\* The steps of a poll and of a wait that has begun.
CallStep(c) ==
  \/ wait_sort(c) \/ wait_visit(c) \/ wait_passed(c)
  \/ poll_start(c) \/ poll_started(c)
  \/ poll_complete(c) \/ poll_incomplete(c) \/ poll_pending(c)
  \/ sleep_lock(c) \/ sleep_wait(c)
  \/ sleep_signalled(c) \/ sleep_timeout(c) \/ sleep_unlock(c)

WorkerStep(w) ==
  \/ /\ \/ \E f \in Futs : worker_dequeue(w, f)
        \/ worker_operation(w) \/ worker_complete(w) \/ worker_exit(w)
     /\ UNCHANGED <<callers, sync>>
  \/ wake_user(w) \/ wake_lock(w) \/ wake_signal(w) \/ wake_unlock(w)

Next ==
  \/ \E c \in Callers : create(c) \/ poll_by_hand(c) \/ runtime_wait_multiple(c)
  \/ \E c \in Callers : CallStep(c)
  \/ \E w \in Workers : WorkerStep(w)
  \/ delete
  \/ delete_step
  \/ Terminated

Spec == Init /\ [][Next]_vars

\* Threads are scheduled, and a worker that wants the mutex gets it: the
\* runtime sleeps without it for a millisecond at a time.
Fairness ==
  /\ \A c \in Callers : WF_vars(CallStep(c))
  /\ \A w \in Workers : WF_vars(WorkerStep(w)) /\ SF_vars(wake_lock(w))
  /\ WF_vars(delete_step)

FairSpec == Spec /\ Fairness

-----------------------------------------------------------------------------
\* The type of every variable.
TypeOK ==
  /\ DMTypeOK
  /\ pc \in [Callers -> {"out", "sort", "pass", "poll", "started", "check",
                         "check_started", "sleep", "timedwait", "asleep",
                         "awake", "crashed"}]
  /\ batch \in [Callers -> SUBSET Futs]
  /\ todo \in [Callers -> SUBSET Futs]
  /\ cur \in [Callers -> Futs \cup {NULL}]
  /\ with \in [Callers -> Callers \cup UserWakers \cup {NULL}]
  /\ ndone \in [Callers -> 0..Cardinality(Futs)]
  /\ spin \in [Callers -> 0..Spins-1]
  /\ lock \in [Callers -> Callers \cup Workers \cup {NULL}]
  /\ signalled \in [Callers -> BOOLEAN]

\* runtime_waker_wake reaches into the stack frame of runtime_wait_multiple and
\* into the runtime, which its caller may delete afterwards: while a worker is
\* about to call or is in the waker, the operation still holds the waker and
\* the wait that supplied it has not returned. It is why do_operation sets
\* complete after the wake.
WakerFrameLive ==
  \A w \in Workers :
    at[w] \in {"wake", "signal", "unlock"} =>
      /\ WakerOf(w) # NULL
      /\ WakerOf(w) \in Callers => job[w] \in batch[WakerOf(w)]

\* The operation data in the membuf is never touched after membuf_free: not by
\* the ring, not by a worker and not by a poll that has begun, even one that
\* still has to set started when the worker is already done.
BlocksLive ==
  /\ TypeOK
  /\ \A f \in queue : block[f] = "live"
  /\ \A w \in Workers : job[w] # NULL => block[job[w]] = "live"
  /\ \A c \in Callers : cur[c] # NULL => block[cur[c]] = "live"

\* Where a future is in the life that Operation describes.
Phase(f) ==
  IF state[f] = "none" THEN "none"
  ELSE IF state[f] = "COMPLETE" THEN IF moved[f] = 0 THEN "failed" ELSE "complete"
  ELSE IF moved[f] > 0 THEN "performed"
  ELSE IF f \in queue \/ \E w \in Workers : job[w] = f THEN "submitted"
  ELSE "created"

Abstract == INSTANCE Operation WITH
  phase <- [f \in Futs |-> Phase(f)],
  gone <- mover = "deleted",
  Faulty <- {}

\* Polls, retries on a full ring, workers, wakers and deletion together give
\* every future the life that Operation describes.
ImplementsOperation ==
  /\ Abstract!OSpec
  /\ [](\A f \in Futs : moved[f] <= 1)

\* runtime_wait_multiple returns, whatever wake-ups are lost between the last
\* poll and the sleep.
WaitReturns == \A c \in Callers : Waiting(c) ~> ~Waiting(c)

\* data_mover_threads_delete returns and leaves no worker behind.
DeleteReturns == mover = "stopping" ~> mover = "deleted"

=============================================================================
