------------------------------- MODULE Ringbuf -------------------------------
(***************************************************************************)
(* The multi-producer multi-consumer ring buffer of src/src/core/ringbuf.c *)
(* at the granularity of its atomic operations: every semaphore operation, *)
(* fetch-and-add, atomic load and compare-and-swap is one step, and steps  *)
(* of different threads interleave freely.                                 *)
(*                                                                         *)
(* The calls of one thread follow each other; pc says where in its call a  *)
(* thread is. Locals that went out of scope are reset to 0 and NULL.       *)
(* One further thread stops and deletes the ring. Its caller's obligation, *)
(* the one ringbuf_enqueue_atomic asserts, is explicit in the guards: when *)
(* ringbuf_stop is called no enqueue is running and none starts later.     *)
(***************************************************************************)
EXTENDS Integers, FiniteSets

CONSTANTS
  Producers,           \* threads that enqueue
  Consumers,           \* threads that dequeue
  Data,                \* the non-NULL pointers that are enqueued
  NULL,
  Len,                 \* ring length, a power of two: "& len_mask" is "% Len"
  PosSpace,            \* range of the position counters, 2^64 in the code
  MaxConsumerThreads   \* RINGBUF_MAX_CONSUMER_THREADS

ASSUME ThreadsAssumption ==
  /\ IsFiniteSet(Producers)
  /\ IsFiniteSet(Consumers)
  /\ Producers \cap Consumers = {}
ASSUME NullAssumption == NULL \notin Data
ASSUME LenAssumption == Len \in Nat \ {0}
ASSUME PosAssumption ==
  /\ PosSpace \in Nat
  /\ \E k \in 2..PosSpace : PosSpace = k * Len
ASSUME MaxAssumption == MaxConsumerThreads \in Nat

VARIABLES
  read_pos, write_pos, \* position counters, modulo PosSpace
  nfree, nused,        \* the two semaphores
  running,
  data,                \* the slots
  pc,                  \* where in its call a thread is
  pos,                 \* the slot a thread has claimed: local w or r
  val,                 \* the pointer a thread carries: argument or local data
  stop,                \* where in ringbuf_stop / ringbuf_delete the stopper is
  snap,                \* the stopper's read of read_pos
  posted               \* the stopper's loop counter i

ring == <<read_pos, write_pos, nfree, nused, running, data>>
stopper == <<stop, snap, posted>>
vars == <<ring, pc, pos, val, stopper>>

Threads == Producers \cup Consumers
Slots == 0..Len-1
Positions == 0..PosSpace-1

\* Between two calls. "full" and "empty": the last call was a tryenqueue that
\* returned -1, a trydequeue that found no token and returned NULL.
ProducerReady == {"idle", "full"}
ConsumerReady == {"idle", "empty"}
ProducerPc == ProducerReady \cup {"claim", "store", "postused"}
ConsumerPc == ConsumerReady
                \cup {"check", "claim", "load", "take", "postfree", "null"}
StopPc == {"idle", "read", "compare", "clear", "post", "stopped", "deleted"}

Goto(t, label) == pc' = [pc EXCEPT ![t] = label]

\* Mutant of Advance: the counters wrap one position early.
AdvanceWrapsEarly(p) == (p + 1) % (PosSpace - 1)

\* util_fetch_and_add64(&pos, 1) on a counter of limited width.
Advance(p) == (p + 1) % PosSpace

-----------------------------------------------------------------------------
\* ringbuf_new
Init ==
  /\ read_pos = 0
  /\ write_pos = 0
  /\ nfree = Len
  /\ nused = 0
  /\ running = TRUE
  /\ data = [s \in Slots |-> NULL]
  /\ pc = [t \in Threads |-> "idle"]
  /\ pos = [t \in Threads |-> 0]
  /\ val = [t \in Threads |-> NULL]
  /\ stop = "idle"
  /\ snap = 0
  /\ posted = 0

-----------------------------------------------------------------------------
\* The semaphore nfree is decremented and the lock-free insert begins.
TakeFree(p, d) ==
  /\ nfree' = nfree - 1
  /\ val' = [val EXCEPT ![p] = d]
  /\ Goto(p, "claim")
  /\ UNCHANGED <<read_pos, write_pos, nused, running, data, pos, stopper>>

\* The caller's obligation towards ringbuf_stop.
MayEnqueue(p) == pc[p] \in ProducerReady /\ stop = "idle"

\* ringbuf_enqueue: blocks while there is no free slot.
ringbuf_enqueue(p, d) ==
  /\ MayEnqueue(p)
  /\ nfree > 0
  /\ TakeFree(p, d)

\* ringbuf_tryenqueue: returns -1 when there is no free slot.
ringbuf_tryenqueue(p, d) ==
  /\ MayEnqueue(p)
  /\ \/ nfree > 0 /\ TakeFree(p, d)
     \/ nfree = 0 /\ Goto(p, "full") /\ UNCHANGED <<ring, pos, val, stopper>>

\* ringbuf_enqueue_atomic: w = fetch_and_add(write_pos, 1) & len_mask
enqueue_claim(p) ==
  /\ pc[p] = "claim"
  /\ pos' = [pos EXCEPT ![p] = write_pos % Len]
  /\ write_pos' = Advance(write_pos)
  /\ Goto(p, "store")
  /\ UNCHANGED <<read_pos, nfree, nused, running, data, val, stopper>>

\* ringbuf_enqueue_atomic: the loop on CAS(&data[w], NULL, data); an attempt
\* that fails changes nothing.
enqueue_store(p) ==
  /\ pc[p] = "store"
  /\ data[pos[p]] = NULL
  /\ data' = [data EXCEPT ![pos[p]] = val[p]]
  /\ val' = [val EXCEPT ![p] = NULL]
  /\ pos' = [pos EXCEPT ![p] = 0]
  /\ Goto(p, "postused")
  /\ UNCHANGED <<read_pos, write_pos, nfree, nused, running, stopper>>

\* Mutant of enqueue_post: nobody is told of the element.
enqueue_post_forgotten(p) ==
  /\ pc[p] = "postused"
  /\ Goto(p, "idle")
  /\ UNCHANGED <<ring, pos, val, stopper>>

\* ringbuf_enqueue, ringbuf_tryenqueue: post nused, return 0
enqueue_post(p) ==
  /\ pc[p] = "postused"
  /\ nused' = nused + 1
  /\ Goto(p, "idle")
  /\ UNCHANGED <<read_pos, write_pos, nfree, running, data, pos, val, stopper>>

-----------------------------------------------------------------------------
TakeUsed(c) ==
  /\ nused' = nused - 1
  /\ Goto(c, "check")
  /\ UNCHANGED <<read_pos, write_pos, nfree, running, data, pos, val, stopper>>

\* ringbuf_dequeue: blocks while there is no element.
ringbuf_dequeue(c) ==
  /\ pc[c] \in ConsumerReady
  /\ nused > 0
  /\ TakeUsed(c)

\* ringbuf_trydequeue: returns NULL when there is no element.
ringbuf_trydequeue(c) ==
  /\ pc[c] \in ConsumerReady
  /\ \/ nused > 0 /\ TakeUsed(c)
     \/ nused = 0 /\ Goto(c, "empty") /\ UNCHANGED <<ring, pos, val, stopper>>

\* ringbuf_dequeue, ringbuf_trydequeue: if (!rbuf->running) return NULL. A
\* caller that got this NULL does not call again, see data_mover_threads_loop.
dequeue_check(c) ==
  /\ pc[c] = "check"
  /\ Goto(c, IF running THEN "claim" ELSE "null")
  /\ UNCHANGED <<ring, pos, val, stopper>>

\* ringbuf_dequeue_atomic: r = fetch_and_add(read_pos, 1) & len_mask
dequeue_claim(c) ==
  /\ pc[c] = "claim"
  /\ pos' = [pos EXCEPT ![c] = read_pos % Len]
  /\ read_pos' = Advance(read_pos)
  /\ Goto(c, "load")
  /\ UNCHANGED <<write_pos, nfree, nused, running, data, val, stopper>>

\* ringbuf_dequeue_atomic: the inner loop, until a load returns non-NULL
dequeue_load(c) ==
  /\ pc[c] = "load"
  /\ data[pos[c]] # NULL
  /\ val' = [val EXCEPT ![c] = data[pos[c]]]
  /\ Goto(c, "take")
  /\ UNCHANGED <<ring, pos, stopper>>

\* Mutant of dequeue_take: a plain store of NULL instead of the CAS.
dequeue_take_store(c) ==
  /\ pc[c] = "take"
  /\ data' = [data EXCEPT ![pos[c]] = NULL]
  /\ pos' = [pos EXCEPT ![c] = 0]
  /\ Goto(c, "postfree")
  /\ UNCHANGED <<read_pos, write_pos, nfree, nused, running, val, stopper>>

\* ringbuf_dequeue_atomic: CAS(&data[r], data, NULL); on failure load again
dequeue_take(c) ==
  /\ pc[c] = "take"
  /\ \/ /\ data[pos[c]] = val[c]
        /\ data' = [data EXCEPT ![pos[c]] = NULL]
        /\ pos' = [pos EXCEPT ![c] = 0]
        /\ Goto(c, "postfree")
        /\ UNCHANGED val
     \/ /\ data[pos[c]] # val[c]
        /\ val' = [val EXCEPT ![c] = NULL]
        /\ Goto(c, "load")
        /\ UNCHANGED <<data, pos>>
  /\ UNCHANGED <<read_pos, write_pos, nfree, nused, running, stopper>>

\* ringbuf_dequeue, ringbuf_trydequeue: post nfree, return the element
dequeue_post(c) ==
  /\ pc[c] = "postfree"
  /\ nfree' = nfree + 1
  /\ val' = [val EXCEPT ![c] = NULL]
  /\ Goto(c, "idle")
  /\ UNCHANGED <<read_pos, write_pos, nused, running, data, pos, stopper>>

-----------------------------------------------------------------------------
\* ringbuf_stop is called, with no enqueue running.
ringbuf_stop ==
  /\ stop = "idle"
  /\ \A p \in Producers : pc[p] \in ProducerReady
  /\ stop' = "read"
  /\ UNCHANGED <<ring, pc, pos, val, snap, posted>>

\* ringbuf_stop: the two sides of read_pos != write_pos are separate reads.
\* write_pos is stable here, so the order in which they happen is irrelevant.
stop_read ==
  /\ stop = "read"
  /\ snap' = read_pos
  /\ stop' = "compare"
  /\ UNCHANGED <<ring, pc, pos, val, posted>>

\* Mutant of stop_compare: the ring is stopped without waiting for it to drain.
stop_compare_impatient ==
  /\ stop = "compare"
  /\ stop' = "clear"
  /\ snap' = 0
  /\ UNCHANGED <<ring, pc, pos, val, posted>>

stop_compare ==
  /\ stop = "compare"
  /\ stop' = IF snap = write_pos THEN "clear" ELSE "read"
  /\ snap' = 0
  /\ UNCHANGED <<ring, pc, pos, val, posted>>

\* ringbuf_stop: CAS(&running, 1, 0)
stop_clear ==
  /\ stop = "clear"
  /\ running' = FALSE
  /\ stop' = "post"
  /\ UNCHANGED <<read_pos, write_pos, nfree, nused, data, pc, pos, val, snap, posted>>

\* Mutant of stop_post: one consumer too few is unblocked.
stop_post_fewer ==
  /\ stop = "post"
  /\ \/ /\ posted < MaxConsumerThreads - 1
        /\ nused' = nused + 1
        /\ posted' = posted + 1
        /\ UNCHANGED stop
     \/ /\ posted = MaxConsumerThreads - 1
        /\ stop' = "stopped"
        /\ UNCHANGED <<nused, posted>>
  /\ UNCHANGED <<read_pos, write_pos, nfree, running, data, pc, pos, val, snap>>

\* ringbuf_stop: one iteration of the loop that posts nused, and its exit
stop_post ==
  /\ stop = "post"
  /\ \/ /\ posted < MaxConsumerThreads
        /\ nused' = nused + 1
        /\ posted' = posted + 1
        /\ UNCHANGED stop
     \/ /\ posted = MaxConsumerThreads
        /\ stop' = "stopped"
        /\ UNCHANGED <<nused, posted>>
  /\ UNCHANGED <<read_pos, write_pos, nfree, running, data, pc, pos, val, snap>>

\* ringbuf_delete, called once the consumers have been joined (the caller is
\* data_mover_threads_delete). The memory is gone; the model keeps its last
\* contents so that properties can speak about them.
ringbuf_delete ==
  /\ stop = "stopped"
  /\ \A c \in Consumers : pc[c] = "null"
  /\ stop' = "deleted"
  /\ UNCHANGED <<ring, pc, pos, val, snap, posted>>

\* The end of the ring's life.
Terminated ==
  /\ stop = "deleted"
  /\ UNCHANGED vars

-----------------------------------------------------------------------------
ProducerStep(p) ==
  \/ \E d \in Data : ringbuf_enqueue(p, d) \/ ringbuf_tryenqueue(p, d)
  \/ enqueue_claim(p)
  \/ enqueue_store(p)
  \/ enqueue_post(p)

\* The steps of a call that dequeues, without the calls of trydequeue that
\* find nothing.
DequeueStep(c) ==
  \/ ringbuf_dequeue(c)
  \/ dequeue_check(c)
  \/ dequeue_claim(c)
  \/ dequeue_load(c)
  \/ dequeue_take(c)
  \/ dequeue_post(c)

ConsumerStep(c) == DequeueStep(c) \/ ringbuf_trydequeue(c)

StopStep ==
  \/ stop_read
  \/ stop_compare
  \/ stop_clear
  \/ stop_post
  \/ ringbuf_delete

Next ==
  \/ \E p \in Producers : ProducerStep(p)
  \/ \E c \in Consumers : ConsumerStep(c)
  \/ ringbuf_stop
  \/ StopStep
  \/ Terminated

Spec == Init /\ [][Next]_vars

\* Threads are scheduled: a call that was begun goes on, the consumers keep
\* dequeuing and a stop that was begun goes on. Nobody has to enqueue or stop.
Fairness ==
  /\ \A p \in Producers :
       WF_vars(enqueue_claim(p) \/ enqueue_store(p) \/ enqueue_post(p))
  /\ \A c \in Consumers : WF_vars(DequeueStep(c))
  /\ WF_vars(StopStep)

FairSpec == Spec /\ Fairness

-----------------------------------------------------------------------------
\* The threads of S that are at one of the labels, and those of them that
\* have claimed slot s.
At(S, labels) == {t \in S : pc[t] \in labels}
AtSlot(S, labels, s) == {t \in At(S, labels) : pos[t] = s}

Elements == {s \in Slots : data[s] # NULL}

\* The type of every variable.
TypeOK ==
  /\ read_pos \in Positions
  /\ write_pos \in Positions
  /\ nfree \in Nat
  /\ nused \in Nat
  /\ running \in BOOLEAN
  /\ data \in [Slots -> Data \cup {NULL}]
  /\ pc \in [Threads -> ProducerPc \cup ConsumerPc]
  /\ \A p \in Producers : pc[p] \in ProducerPc
  /\ \A c \in Consumers : pc[c] \in ConsumerPc
  /\ pos \in [Threads -> Slots]
  /\ val \in [Threads -> Data \cup {NULL}]
  /\ stop \in StopPc
  /\ snap \in Positions
  /\ posted \in 0..MaxConsumerThreads

\* The busy loops of ringbuf_enqueue_atomic and ringbuf_dequeue_atomic always
\* have somebody to wait for: a producer that finds its slot occupied shares
\* it with a consumer that is about to empty it, and a consumer that finds its
\* slot empty shares it with a producer that is about to fill it, however the
\* threads lap each other.
SpinPartner ==
  /\ \A p \in At(Producers, {"store"}) :
       data[pos[p]] # NULL => AtSlot(Consumers, {"load", "take"}, pos[p]) # {}
  /\ \A c \in At(Consumers, {"load", "take"}) :
       data[pos[c]] = NULL => AtSlot(Producers, {"store"}, pos[c]) # {}

\* The assertions of the code and what they are there for: no enqueue is under
\* way once running is cleared (the ASSERT of ringbuf_enqueue_atomic), and a
\* deleted ring has read_pos = write_pos (the ASSERTeq of ringbuf_delete), no
\* element left in a slot and every free token back.
StopClean ==
  /\ ~running => \A p \in Producers : pc[p] \in ProducerReady
  /\ stop = "deleted" =>
       /\ read_pos = write_pos
       /\ Elements = {}
       /\ nfree = Len

\* ringbuf_stop: "if there are any threads stuck waiting on dequeue, unblocks
\* them". Once it is called it returns, and every consumer gets its NULL.
StopUnblocks ==
  stop # "idle" ~> \A c \in Consumers : pc[c] = "null"

\* An element that was enqueued does not stay in the ring for ever while the
\* consumers keep dequeuing, whoever laps whom.
ElementsLeave == \A s \in Slots : data[s] # NULL ~> data[s] = NULL

\* The ring goes on serving whoever meets whom in its slots: ringbuf_stop gets
\* everybody out, and before it no element is left behind.
RingServes == StopUnblocks /\ ElementsLeave

\* A consumer that was given a real token takes an element, whatever
\* ringbuf_stop does meanwhile.
Promised ==
  At(Consumers, {"claim", "load", "take"})
    \cup (IF running THEN At(Consumers, {"check"}) ELSE {})

\* What a producer carries is offered; a consumer has got its element once
\* the CAS that takes it has succeeded.
Offered == [p \in Producers |-> val[p]]
Got == [c \in Consumers |-> IF pc[c] = "postfree" THEN val[c] ELSE NULL]

Box == INSTANCE BoundedBuffer WITH
  cells <- data,
  offered <- Offered,
  promised <- Promised,
  got <- Got,
  closed <- ~running

\* The ring implements the box of BoundedBuffer: nothing is lost, invented,
\* duplicated or changed, and stopping abandons no element and no consumer
\* that was promised one.
ImplementsBox == Box!BSpec
=============================================================================
