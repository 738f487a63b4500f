------------------------------ MODULE DataMover ------------------------------
(***************************************************************************)
(* Futures of the virtual data mover (include/libminiasync/vdm.h) executed *)
(* by the threads mover (data_mover_threads.c) or the synchronous mover    *)
(* (data_mover_sync.c): creation, op_start, op_check, op_delete, the       *)
(* worker threads and data_mover_threads_delete.                           *)
(*                                                                         *)
(* The thread that polls is modelled in Runtime, which extends this module *)
(* and decides when the op_ operators happen. The ring is what QueueBag    *)
(* promises: a bounded bag with atomic operations. An operation's data in  *)
(* the membuf is a block that is live until membuf_free.                   *)
(***************************************************************************)
EXTENDS Integers, FiniteSets

CONSTANTS
  Futs,        \* the futures, each created at most once
  SyncFuts,    \* those made for the synchronous mover
  Workers,     \* threads of the threads mover
  RingLen,     \* ringbuf_size
  Desired,     \* desired_notifier of data_mover_threads_new
  Callers,     \* threads that wait; also names the waker of their runtime
  UserWakers,  \* wakers that do not come from a runtime
  NULL

ASSUME FutsAssumption ==
  /\ IsFiniteSet(Futs) /\ NULL \notin Futs
  /\ SyncFuts \subseteq Futs
  /\ IsFiniteSet(Workers) /\ NULL \notin Workers
  /\ RingLen \in Nat
  /\ Desired \in {"NONE", "WAKER", "POLLER"}
  /\ NULL \notin Callers \cup UserWakers

VARIABLES
  state,      \* context.state of a future; "none": not created yet
  property,   \* has_property of a future: "async", "default" or the NULL pointer
  block,      \* its operation data: "none", "live" or "freed"
  tdata,      \* the contents of the block
  queue,      \* operations in the ring
  at,         \* where in data_mover_threads_loop a worker is
  job,        \* the operation a worker has dequeued
  moved,      \* how often the memory operation was performed
  mover       \* the life of the threads mover

futures == <<state, property, block, tdata, moved>>
workers == <<queue, at, job>>
dmvars == <<futures, workers, mover>>

Async == Futs \ SyncFuts

NewData == [complete |-> FALSE, started |-> FALSE, notifier |-> Desired, waker |-> NULL]

DMInit ==
  /\ state = [f \in Futs |-> "none"]
  /\ property = [f \in Futs |-> NULL]
  /\ block = [f \in Futs |-> "none"]
  /\ tdata = [f \in Futs |-> NewData]
  /\ queue = {}
  /\ at = [w \in Workers |-> "dequeue"]
  /\ job = [w \in Workers |-> NULL]
  /\ moved = [f \in Futs |-> 0]
  /\ mover = "up"

-----------------------------------------------------------------------------
\* vdm_memcpy, vdm_memmove, vdm_memset by way of vdm_generic_operation and
\* op_new. When membuf_alloc fails the future is born complete and without a
\* task; its has_property is then set only by a mover that has one.
vdm_generic_operation(f) ==
  /\ state[f] = "none"
  /\ \/ /\ block' = [block EXCEPT ![f] = "live"]
        /\ tdata' = [tdata EXCEPT ![f] = NewData]
        /\ state' = [state EXCEPT ![f] = "IDLE"]
        /\ property' = [property EXCEPT ![f] = IF f \in SyncFuts THEN "default" ELSE "async"]
     \/ /\ state' = [state EXCEPT ![f] = "COMPLETE"]
        /\ property' = [property EXCEPT ![f] = IF f \in SyncFuts THEN NULL ELSE "async"]
        /\ UNCHANGED <<block, tdata>>
  /\ UNCHANGED <<moved, workers, mover>>

\* What op_start stores of the notifier n. The waker that was stored by an
\* earlier call is overwritten; without a notifier the operation gives up
\* notifying for good.
StoredNotifier(d, n) ==
  IF n = NULL THEN [d EXCEPT !.notifier = "NONE"] ELSE [d EXCEPT !.waker = n]

\* data_mover_threads_operation_start, up to the return of ringbuf_tryenqueue.
\* A full ring is not an error: op_start returns 0 all the same.
start_enqueue(f, n) ==
  /\ Cardinality(queue) < RingLen
  /\ tdata' = [tdata EXCEPT ![f] = StoredNotifier(@, n)]
  /\ queue' = queue \cup {f}
  /\ UNCHANGED <<state, property, block, moved, at, job, mover>>

start_full(f, n) ==
  /\ Cardinality(queue) = RingLen
  /\ tdata' = [tdata EXCEPT ![f] = StoredNotifier(@, n)]
  /\ UNCHANGED <<state, property, block, moved, workers, mover>>

\* data_mover_threads_operation_start: started is set after the enqueue, when
\* a worker may already have finished the operation.
start_started(f) ==
  /\ tdata' = [tdata EXCEPT ![f].started = TRUE]
  /\ UNCHANGED <<state, property, block, moved, workers, mover>>

\* sync_operation_start performs the operation.
sync_operation_start(f) ==
  /\ moved' = [moved EXCEPT ![f] = @ + 1]
  /\ tdata' = [tdata EXCEPT ![f].complete = TRUE]
  /\ UNCHANGED <<state, property, block, workers, mover>>

\* op_check found complete set: op_delete frees the block and vdm_operation_impl
\* returns COMPLETE, which future_poll stores in the context. The contents of
\* a freed block mean nothing and are reset.
check_complete(f) ==
  /\ tdata[f].complete
  /\ block' = [block EXCEPT ![f] = "freed"]
  /\ tdata' = [tdata EXCEPT ![f] = NewData]
  /\ state' = [state EXCEPT ![f] = "COMPLETE"]
  /\ UNCHANGED <<property, moved, queue, at, job, mover>>

\* Mutant of check_started: the state does not depend on started.
check_started_idle(f) ==
  /\ state' = [state EXCEPT ![f] = "IDLE"]
  /\ UNCHANGED <<property, block, tdata, moved, workers, mover>>

\* op_check found complete clear: the state depends on a second load. The
\* synchronous mover has no started and returns IDLE.
check_started(f) ==
  /\ state' = [state EXCEPT ![f] =
                 IF f \in Async /\ tdata[f].started THEN "RUNNING" ELSE "IDLE"]
  /\ UNCHANGED <<property, block, tdata, moved, workers, mover>>

-----------------------------------------------------------------------------
\* data_mover_threads_loop: ringbuf_dequeue returns some operation.
worker_dequeue(w, f) ==
  /\ at[w] = "dequeue"
  /\ f \in queue
  /\ queue' = queue \ {f}
  /\ job' = [job EXCEPT ![w] = f]
  /\ at' = [at EXCEPT ![w] = "operation"]
  /\ UNCHANGED <<futures, mover>>

\* Where data_mover_threads_do_operation goes after the memory operation.
AfterOperation(d) == IF d.notifier = "WAKER" THEN "wake" ELSE "complete"

\* Mutant of worker_operation: complete is set before the waker is called.
worker_operation_early(w) ==
  /\ at[w] = "operation"
  /\ moved' = [moved EXCEPT ![job[w]] = @ + 1]
  /\ tdata' = [tdata EXCEPT ![job[w]].complete = TRUE]
  /\ at' = [at EXCEPT ![w] = AfterOperation(tdata[job[w]])]
  /\ UNCHANGED <<state, property, block, queue, job, mover>>

\* data_mover_threads_do_operation: the memory operation itself.
worker_operation(w) ==
  /\ at[w] = "operation"
  /\ moved' = [moved EXCEPT ![job[w]] = @ + 1]
  /\ at' = [at EXCEPT ![w] = AfterOperation(tdata[job[w]])]
  /\ UNCHANGED <<state, property, block, tdata, queue, job, mover>>

\* data_mover_threads_do_operation: complete is set last of all.
worker_complete(w) ==
  /\ at[w] = "complete"
  /\ tdata' = [tdata EXCEPT ![job[w]].complete = TRUE]
  /\ job' = [job EXCEPT ![w] = NULL]
  /\ at' = [at EXCEPT ![w] = "dequeue"]
  /\ UNCHANGED <<state, property, block, moved, queue, mover>>

\* Mutant of worker_exit: the loop does not end when there is no operation.
worker_exit_never(w) == at[w] = "dequeue" /\ mover = "stopped" /\ UNCHANGED dmvars

\* data_mover_threads_loop: ringbuf_dequeue returns NULL once the ring is
\* stopped.
worker_exit(w) ==
  /\ at[w] = "dequeue"
  /\ mover = "stopped"
  /\ at' = [at EXCEPT ![w] = "exited"]
  /\ UNCHANGED <<futures, queue, job, mover>>

-----------------------------------------------------------------------------
\* data_mover_threads_delete: ringbuf_stop is called.
delete_begin ==
  /\ mover = "up"
  /\ mover' = "stopping"
  /\ UNCHANGED <<futures, workers>>

\* ringbuf_stop has waited until nothing is left in the ring.
delete_stopped ==
  /\ mover = "stopping"
  /\ queue = {}
  /\ mover' = "stopped"
  /\ UNCHANGED <<futures, workers>>

\* Mutant of delete_free: the workers are not joined.
delete_free_unjoined ==
  /\ mover = "stopped"
  /\ mover' = "deleted"
  /\ block' = [f \in Futs |-> IF f \in Async /\ block[f] = "live" THEN "freed" ELSE block[f]]
  /\ UNCHANGED <<state, property, tdata, moved, workers>>

\* Every worker is joined, then the membuf and with it every block of the
\* mover is freed.
delete_free ==
  /\ mover = "stopped"
  /\ \A w \in Workers : at[w] = "exited"
  /\ mover' = "deleted"
  /\ block' = [f \in Futs |-> IF f \in Async /\ block[f] = "live" THEN "freed" ELSE block[f]]
  /\ UNCHANGED <<state, property, tdata, moved, workers>>

-----------------------------------------------------------------------------
\* The type of the movers' variables.
DMTypeOK ==
  /\ state \in [Futs -> {"none", "IDLE", "RUNNING", "COMPLETE"}]
  /\ property \in [Futs -> {"async", "default", NULL}]
  /\ block \in [Futs -> {"none", "live", "freed"}]
  /\ tdata \in [Futs -> [complete : BOOLEAN, started : BOOLEAN,
                         notifier : {"NONE", "WAKER", "POLLER"},
                         waker : Callers \cup UserWakers \cup {NULL}]]
  /\ queue \subseteq Async
  /\ at \in [Workers -> {"dequeue", "operation", "wake", "signal", "unlock",
                         "complete", "exited"}]
  /\ job \in [Workers -> Async \cup {NULL}]
  /\ moved \in [Futs -> Nat]
  /\ mover \in {"up", "stopping", "stopped", "deleted"}
=============================================================================
