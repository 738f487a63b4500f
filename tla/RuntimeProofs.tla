---------------------------- MODULE RuntimeProofs ----------------------------
(***************************************************************************)
(* Proofs about Runtime and the movers under it, for every number of       *)
(* futures, workers and callers, every ring length and every notifier.     *)
(***************************************************************************)
EXTENDS Runtime, FiniteSetTheorems, TLAPS

\* What the block of an operation may contain.
TData == [complete : BOOLEAN, started : BOOLEAN, notifier : {"NONE", "WAKER", "POLLER"},
          waker : Callers \cup UserWakers \cup {NULL}]

\* The operation is in the ring or in the hands of a worker.
Underway(f) == f \in queue \/ \E w \in Workers : job[w] = f

Polling == {"poll", "started", "check", "check_started"}
Checking == {"check", "check_started"}

\* data_mover_threads_loop: who has an operation, and that nobody else has it.
WorkerInv(w) ==
  /\ job[w] # NULL <=> at[w] \in {"operation", "wake", "signal", "unlock", "complete"}
  /\ job[w] \notin queue
  /\ at[w] \in {"wake", "signal", "unlock"} => tdata[job[w]].notifier = "WAKER"
  /\ at[w] = "exited" => mover \in {"stopped", "deleted"}
  /\ \A v \in Workers : job[v] = job[w] /\ job[w] # NULL => v = w

\* data_mover_threads_delete: nobody polls any more, then the ring is empty,
\* then the workers are gone.
MoverInv ==
  /\ mover # "up" => \A c \in Callers : pc[c] = "out"
  /\ mover \in {"stopped", "deleted"} => queue = {}
  /\ mover = "deleted" => \A w \in Workers : at[w] = "exited"

\* A caller polls its own futures, inside a wait only those it waits for, and
\* supplies its runtime's waker only there.
CallerInv(c) ==
  /\ cur[c] # NULL <=> pc[c] \in Polling
  /\ cur[c] # NULL => /\ Owner[cur[c]] = c
                      /\ state[cur[c]] \in {"IDLE", "RUNNING"}
                      /\ batch[c] # {} => cur[c] \in batch[c]
  /\ with[c] \in Callers => with[c] = c /\ batch[c] # {} /\ pc[c] \in Polling
  /\ todo[c] \subseteq batch[c]
  /\ \A f \in batch[c] : Owner[f] = c /\ state[f] # "none"
  /\ pc[c] = "out" => batch[c] = {}
  /\ pc[c] = "started" => cur[c] \in Async
  /\ pc[c] = "check" /\ cur[c] \in SyncFuts => tdata[cur[c]].complete
  /\ pc[c] = "check_started" => cur[c] \in Async

Completed(c) == {f \in batch[c] : state[f] = "COMPLETE"}

\* ndone never runs ahead of the futures that are complete.
CountInv(c) == ndone[c] <= Cardinality(Completed(c))

\* What the fields of an operation say about where it is. In particular an
\* operation that looks startable (IDLE, with nobody between op_start and the
\* return of op_check) has not been queued.
FutureInv(f) ==
  /\ state[f] = "none" => tdata[f] = NewData
  /\ state[f] = "COMPLETE" => tdata[f] = NewData
  /\ state[f] = "RUNNING" => tdata[f].started /\ f \in Async
  /\ state[f] \in {"IDLE", "RUNNING"} /\ (mover # "deleted" \/ f \in SyncFuts) => block[f] = "live"
  /\ Underway(f) => state[f] \in {"IDLE", "RUNNING"} /\ ~tdata[f].complete
  /\ state[f] = "IDLE" /\ (Underway(f) \/ tdata[f].complete) =>
       /\ cur[Owner[f]] = f
       /\ pc[Owner[f]] \in {"started"} \cup Checking
       /\ pc[Owner[f]] \in Checking => tdata[f].started \/ f \in SyncFuts
  /\ Underway(f) /\ tdata[f].notifier = "WAKER" => tdata[f].waker # NULL
  /\ tdata[f].waker \in Callers => f \in batch[tdata[f].waker]

\* The memory operation is performed once, between the worker's dequeue and
\* its store to complete.
MovedInv(f) ==
  /\ f \in queue => moved[f] = 0
  /\ \A w \in Workers : job[w] = f => moved[f] = IF at[w] = "operation" THEN 0 ELSE 1
  /\ tdata[f].complete => moved[f] = 1
  /\ state[f] # "COMPLETE" /\ ~Underway(f) /\ ~tdata[f].complete => moved[f] = 0
  /\ moved[f] <= 1

RuntimeInv ==
  /\ TypeOK
  /\ MoverInv
  /\ \A w \in Workers : WorkerInv(w)
  /\ \A c \in Callers : CallerInv(c) /\ CountInv(c)
  /\ \A f \in Futs : FutureInv(f) /\ MovedInv(f)

-----------------------------------------------------------------------------
\* A new program satisfies the invariant.
LEMMA RuntimeInit == Init => RuntimeInv
<1> SUFFICES ASSUME Init PROVE RuntimeInv
  BY Zenon
<1> USE FutsAssumption, RuntimeAssumption DEF Init, DMInit
<1>1. TypeOK
  <2>1. Cardinality(Futs) \in Nat
    BY FS_CardinalityType, Zenon
  <2>2. DMTypeOK
    BY Zenon DEF DMTypeOK, NewData, Async
  <2> QED
    BY <2>1, <2>2 DEF TypeOK
<1>2. MoverInv /\ \A w \in Workers : WorkerInv(w)
  BY Zenon DEF MoverInv, WorkerInv
<1>3. \A c \in Callers : CallerInv(c) /\ CountInv(c)
  <2>1. \A c \in Callers : CallerInv(c)
    BY Zenon DEF CallerInv, Polling
  <2>2. \A c \in Callers : Cardinality(Completed(c)) = 0
    BY FS_EmptySet, Zenon DEF Completed
  <2> QED
    BY <2>1, <2>2 DEF CountInv
<1>4. \A f \in Futs : ~Underway(f)
  BY Zenon DEF Underway
<1>5. \A f \in Futs : FutureInv(f) /\ MovedInv(f)
  BY <1>4 DEF FutureInv, MovedInv, NewData
<1> QED
  BY <1>1, <1>2, <1>3, <1>5, Zenon DEF RuntimeInv
-----------------------------------------------------------------------------
\* Where the pointers of the model lead.
LEMMA Pointers ==
  ASSUME RuntimeInv
  PROVE  /\ TypeOK /\ MoverInv
         /\ \A c \in Callers : CallerInv(c) /\ CountInv(c)
         /\ \A w \in Workers : WorkerInv(w)
         /\ \A f \in Futs : FutureInv(f) /\ MovedInv(f) /\ Owner[f] \in Callers
         /\ \A c \in Callers : pc[c] \in Polling => cur[c] \in Futs
         /\ \A c \in Callers : pc[c] # "out" => mover = "up"
         /\ \A w \in Workers : at[w] \notin {"dequeue", "exited"} => job[w] \in Async
<1>1. TypeOK /\ MoverInv
  BY Zenon DEF RuntimeInv
<1>2. \A c \in Callers : CallerInv(c) /\ CountInv(c)
  BY Zenon DEF RuntimeInv
<1>3. \A w \in Workers : WorkerInv(w)
  BY Zenon DEF RuntimeInv
<1>4. \A f \in Futs : FutureInv(f) /\ MovedInv(f) /\ Owner[f] \in Callers
  BY RuntimeAssumption, Zenon DEF RuntimeInv
<1>5. \A c \in Callers : pc[c] \in Polling => cur[c] \in Futs
  <2> SUFFICES ASSUME NEW c \in Callers, pc[c] \in Polling PROVE cur[c] \in Futs
    BY Zenon
  <2>1. cur[c] # NULL
    BY <1>2, Zenon DEF CallerInv
  <2> QED
    BY <1>1, <2>1, Zenon DEF TypeOK
<1>6. \A c \in Callers : pc[c] # "out" => mover = "up"
  BY <1>1, Zenon DEF MoverInv
<1>7. \A w \in Workers : at[w] \notin {"dequeue", "exited"} => job[w] \in Async
  BY <1>1, <1>3 DEF WorkerInv, TypeOK, DMTypeOK
<1> QED
  BY <1>1, <1>2, <1>3, <1>4, <1>5, <1>6, <1>7, Zenon

\* A step of caller c that touches neither the movers nor the other callers.
LEMMA CallerAlone ==
  ASSUME RuntimeInv, NEW c \in Callers, UNCHANGED dmvars, TypeOK', mover = "up",
         \A d \in Callers \ {c} :
           /\ pc'[d] = pc[d] /\ batch'[d] = batch[d] /\ todo'[d] = todo[d]
           /\ cur'[d] = cur[d] /\ with'[d] = with[d] /\ ndone'[d] = ndone[d],
         CallerInv(c)', CountInv(c)',
         \A f \in Futs :
           /\ Owner[f] = c /\ state[f] = "IDLE" /\ (Underway(f) \/ tdata[f].complete) =>
                /\ cur'[c] = f
                /\ pc'[c] \in {"started"} \cup Checking
                /\ pc'[c] \in Checking => tdata[f].started \/ f \in SyncFuts
           /\ tdata[f].waker = c => f \in batch'[c]
  PROVE  RuntimeInv'
<1> USE Pointers
<1>0. UNCHANGED <<state, property, block, tdata, moved, queue, at, job, mover>>
  BY Zenon DEF dmvars, futures, workers
<1>1. MoverInv'
  BY <1>0, Zenon DEF MoverInv
<1>2. \A w \in Workers : WorkerInv(w)'
  BY <1>0, Zenon DEF WorkerInv
<1>3. \A d \in Callers : CallerInv(d)'
  <2> SUFFICES ASSUME NEW d \in Callers, d # c PROVE CallerInv(d)'
    BY Zenon
  <2>1. /\ pc'[d] = pc[d] /\ batch'[d] = batch[d] /\ todo'[d] = todo[d]
        /\ cur'[d] = cur[d] /\ with'[d] = with[d] /\ CallerInv(d)
    BY Zenon
  <2> QED
    BY <1>0, <2>1 DEF CallerInv
<1>4. \A d \in Callers : CountInv(d)'
  <2> SUFFICES ASSUME NEW d \in Callers, d # c PROVE CountInv(d)'
    BY Zenon
  <2>1. Completed(d)' = Completed(d)
    BY <1>0, Zenon DEF Completed
  <2> QED
    BY <2>1, Zenon DEF CountInv
<1>5. \A f \in Futs : Underway(f)' <=> Underway(f)
  BY <1>0, Zenon DEF Underway
<1>6. \A f \in Futs : FutureInv(f)'
  <2> SUFFICES ASSUME NEW f \in Futs PROVE FutureInv(f)'
    BY Zenon
  <2>1. FutureInv(f) /\ Owner[f] \in Callers
    BY Zenon
  <2> QED
    BY <1>0, <1>5, <2>1 DEF FutureInv
<1>7. \A f \in Futs : MovedInv(f)'
  BY <1>0, <1>5 DEF MovedInv
<1> QED
  BY <1>1, <1>2, <1>3, <1>4, <1>6, <1>7, Zenon DEF RuntimeInv

\* How many of some futures have a property.
LEMMA Counts ==
  ASSUME NEW B \in SUBSET Futs, NEW S \in SUBSET B
  PROVE  /\ IsFiniteSet(S)
         /\ Cardinality(B) \in Nat /\ Cardinality(S) \in Nat /\ Cardinality(Futs) \in Nat
         /\ Cardinality(S) <= Cardinality(B)
         /\ Cardinality(S) <= Cardinality(Futs)
         /\ Cardinality(B) <= Cardinality(S) => B = S
<1>1. IsFiniteSet(B) /\ IsFiniteSet(S)
  BY FutsAssumption, FS_Subset, Zenon
<1>2. Cardinality(B) \in Nat /\ Cardinality(S) \in Nat /\ Cardinality(Futs) \in Nat
  BY <1>1, FutsAssumption, FS_CardinalityType, Zenon
<1>3. /\ Cardinality(S) <= Cardinality(B)
      /\ Cardinality(S) <= Cardinality(Futs)
      /\ Cardinality(B) = Cardinality(S) => B = S
  BY <1>1, FutsAssumption, FS_Subset, Zenon
<1> QED
  BY <1>1, <1>2, <1>3

\* The movers' variables keep their types when they keep their values.
LEMMA DMSame == TypeOK /\ UNCHANGED dmvars => DMTypeOK'
BY Zenon DEF TypeOK, DMTypeOK, dmvars, futures, workers

\* The steps of a caller outside future_poll and runtime_sleep.
LEMMA LoopSteps ==
  ASSUME RuntimeInv, NEW c \in Callers,
         \/ poll_by_hand(c) \/ runtime_wait_multiple(c)
         \/ wait_sort(c) \/ wait_visit(c) \/ wait_passed(c)
  PROVE  RuntimeInv'
<1> USE FutsAssumption, RuntimeAssumption DEF sync
<1>0. /\ TypeOK /\ CallerInv(c) /\ CountInv(c)
      /\ \A f \in Futs : FutureInv(f)
  BY Pointers, Zenon
<1>1. CASE poll_by_hand(c)
  <2>0. PICK f \in Futs, n \in {NULL} \cup UserWakers :
          /\ pc[c] = "out" /\ mover = "up" /\ Owner[f] = c
          /\ state[f] \in {"IDLE", "RUNNING"}
          /\ cur' = [cur EXCEPT ![c] = f]
          /\ with' = [with EXCEPT ![c] = n]
          /\ pc' = [pc EXCEPT ![c] = "poll"]
          /\ UNCHANGED <<batch, todo, ndone, spin, dmvars, lock, signalled>>
    BY <1>1, Zenon DEF poll_by_hand, MayUse, Mine, Goto
  <2>1. TypeOK'
    BY <1>0, <2>0, Zenon DEF TypeOK, DMTypeOK, dmvars, futures, workers
  <2>2. CallerInv(c)'
    BY <1>0, <2>0, Zenon DEF TypeOK, CallerInv, Polling, dmvars, futures, workers
  <2>3. CountInv(c)'
    BY <1>0, <2>0, Zenon DEF CountInv, Completed, dmvars, futures, workers
  <2>4. \A g \in Futs : Owner[g] = c => ~(state[g] = "IDLE" /\ (Underway(g) \/ tdata[g].complete))
    BY <1>0, <2>0 DEF CallerInv, FutureInv, Polling
  <2>5. \A g \in Futs : tdata[g].waker = c => g \in batch'[c]
    BY <1>0, <2>0 DEF FutureInv
  <2> QED
    BY <1>0, <2>0, <2>1, <2>2, <2>3, <2>4, <2>5, CallerAlone, Zenon DEF TypeOK
<1>2. CASE runtime_wait_multiple(c)
  <2>0. PICK futs \in SUBSET {f \in Mine(c) : state[f] # "none"} :
          /\ pc[c] = "out" /\ mover = "up" /\ futs # {}
          /\ batch' = [batch EXCEPT ![c] = futs]
          /\ ndone' = [ndone EXCEPT ![c] = 0]
          /\ spin' = [spin EXCEPT ![c] = 0]
          /\ pc' = [pc EXCEPT ![c] = "sort"]
          /\ UNCHANGED <<todo, cur, with, dmvars, lock, signalled>>
    BY <1>2, Zenon DEF runtime_wait_multiple, MayUse, Goto
  <2>1. 0 \in 0..Cardinality(Futs) /\ 0 \in 0..Spins-1 /\ futs \in SUBSET Futs
    BY FS_CardinalityType DEF Mine
  <2>2. TypeOK'
    BY <1>0, <2>0, <2>1, DMSame, Zenon DEF TypeOK
  <2>3. CallerInv(c)'
    BY <1>0, <2>0, Zenon DEF TypeOK, CallerInv, Polling, Mine, dmvars, futures, workers
  <2>4. CountInv(c)'
    <3>1. ndone'[c] = 0 /\ batch'[c] = futs
      BY <1>0, <2>0, Zenon DEF TypeOK
    <3> QED
      BY <2>1, <3>1, Counts DEF CountInv, Completed
  <2>5. \A g \in Futs : Owner[g] = c => ~(state[g] = "IDLE" /\ (Underway(g) \/ tdata[g].complete))
    BY <1>0, <2>0 DEF CallerInv, FutureInv, Polling
  <2>6. \A g \in Futs : tdata[g].waker = c => g \in batch'[c]
    BY <1>0, <2>0 DEF FutureInv, CallerInv
  <2> QED
    BY <1>0, <2>0, <2>2, <2>3, <2>4, <2>5, <2>6, CallerAlone, Zenon DEF TypeOK
<1>3. CASE wait_sort(c)
  <2>0. /\ pc[c] = "sort" /\ mover = "up"
        /\ pc' = [pc EXCEPT ![c] = IF CallsNull(batch[c]) THEN "crashed" ELSE "pass"]
        /\ todo' = [todo EXCEPT ![c] = batch[c]]
        /\ UNCHANGED <<batch, cur, with, ndone, spin, dmvars, lock, signalled>>
    BY <1>3, Pointers, Zenon DEF wait_sort, Goto
  <2>1. TypeOK'
    BY <1>0, <2>0, Zenon DEF TypeOK, DMTypeOK, dmvars, futures, workers
  <2>2. CallerInv(c)' /\ CountInv(c)'
    BY <1>0, <2>0, Zenon DEF TypeOK, CallerInv, CountInv, Completed, Polling, dmvars, futures, workers
  <2>3. \A g \in Futs : Owner[g] = c => ~(state[g] = "IDLE" /\ (Underway(g) \/ tdata[g].complete))
    BY <1>0, <2>0 DEF CallerInv, FutureInv, Polling
  <2>4. \A g \in Futs : tdata[g].waker = c => g \in batch'[c]
    BY <1>0, <2>0 DEF FutureInv
  <2> QED
    BY <1>0, <2>0, <2>1, <2>2, <2>3, <2>4, CallerAlone, Zenon DEF TypeOK
<1>4. CASE wait_visit(c)
  <2>0. PICK f \in Foremost(todo[c]) :
          /\ pc[c] = "pass" /\ mover = "up"
          /\ todo' = [todo EXCEPT ![c] = @ \ {f}]
          /\ \/ state[f] = "COMPLETE" /\ UNCHANGED <<pc, cur, with>>
             \/ /\ state[f] # "COMPLETE"
                /\ cur' = [cur EXCEPT ![c] = f]
                /\ with' = [with EXCEPT ![c] = c]
                /\ pc' = [pc EXCEPT ![c] = "poll"]
          /\ UNCHANGED <<batch, ndone, spin, dmvars, lock, signalled>>
    BY <1>4, Pointers, Zenon DEF wait_visit, Goto
  <2>1. /\ f \in batch[c] /\ f \in Futs /\ Owner[f] = c /\ state[f] # "none"
        /\ cur[c] = NULL
    BY <1>0, <2>0, Zenon DEF TypeOK, CallerInv, Foremost, Polling
  <2>2. TypeOK'
    <3>1. todo' \in [Callers -> SUBSET Futs]
      BY <1>0, <2>0, Zenon DEF TypeOK
    <3>2. CASE UNCHANGED <<pc, cur, with>>
      BY <1>0, <2>0, <3>1, <3>2, DMSame, Zenon DEF TypeOK
    <3>3. CASE /\ cur' = [cur EXCEPT ![c] = f]
               /\ with' = [with EXCEPT ![c] = c]
               /\ pc' = [pc EXCEPT ![c] = "poll"]
      BY <1>0, <2>0, <2>1, <3>1, <3>3, DMSame, Zenon DEF TypeOK
    <3> QED
      BY <2>0, <3>2, <3>3, Zenon
  <2>3. CallerInv(c)' /\ CountInv(c)'
    <3>0. UNCHANGED <<batch, ndone, state, tdata>> /\ todo'[c] = todo[c] \ {f}
      BY <1>0, <2>0, Zenon DEF TypeOK, dmvars, futures
    <3>1. CountInv(c)'
      BY <1>0, <3>0, Zenon DEF CountInv, Completed
    <3>2. CASE UNCHANGED <<pc, cur, with>>
      BY <1>0, <3>0, <3>1, <3>2, Zenon DEF CallerInv
    <3>3. CASE /\ state[f] # "COMPLETE"
               /\ cur' = [cur EXCEPT ![c] = f]
               /\ with' = [with EXCEPT ![c] = c]
               /\ pc' = [pc EXCEPT ![c] = "poll"]
      <4>1. /\ cur'[c] = f /\ with'[c] = c /\ pc'[c] = "poll"
            /\ state[f] \in {"IDLE", "RUNNING"}
        BY <1>0, <2>1, <3>3 DEF TypeOK, DMTypeOK
      <4> QED
        BY <1>0, <2>1, <3>0, <3>1, <4>1, Zenon DEF CallerInv, Polling
    <3> QED
      BY <2>0, <3>2, <3>3, Zenon
  <2>4. \A g \in Futs : Owner[g] = c => ~(state[g] = "IDLE" /\ (Underway(g) \/ tdata[g].complete))
    BY <1>0, <2>0 DEF CallerInv, FutureInv, Polling
  <2>5. \A g \in Futs : tdata[g].waker = c => g \in batch'[c]
    BY <1>0, <2>0 DEF FutureInv
  <2> QED
    BY <1>0, <2>0, <2>2, <2>3, <2>4, <2>5, CallerAlone, Zenon DEF TypeOK
<1>5. CASE wait_passed(c)
  <2>0. /\ pc[c] = "pass" /\ mover = "up" /\ todo[c] = {}
        /\ UNCHANGED <<todo, cur, with, dmvars, lock, signalled>>
    BY <1>5, Pointers, Zenon DEF wait_passed
  <2>1. \A g \in Futs : Owner[g] = c => ~(state[g] = "IDLE" /\ (Underway(g) \/ tdata[g].complete))
    BY <1>0, <2>0 DEF CallerInv, FutureInv, Polling
  <2>2. CASE /\ ndone[c] = Cardinality(batch[c])
             /\ pc' = [pc EXCEPT ![c] = "out"]
             /\ batch' = [batch EXCEPT ![c] = {}]
             /\ ndone' = [ndone EXCEPT ![c] = 0]
             /\ spin' = [spin EXCEPT ![c] = 0]
    <3>0. batch[c] \in SUBSET Futs /\ Completed(c) \in SUBSET batch[c]
      BY <1>0, Zenon DEF TypeOK, Completed
    <3>1. /\ batch[c] = Completed(c)
          /\ 0 \in 0..Cardinality(Futs) /\ 0 \in 0..Spins-1
      BY <1>0, <2>2, <3>0, Counts DEF CountInv
    <3>2. \A g \in batch[c] : g \in Futs /\ tdata[g].waker = NULL
      <4> SUFFICES ASSUME NEW g \in batch[c] PROVE g \in Futs /\ tdata[g] = NewData
        BY DEF NewData
      <4> QED
        BY <1>0, <3>0, <3>1, Zenon DEF Completed, FutureInv
    <3>3. \A g \in Futs : tdata[g].waker # c
      BY <1>0, <3>2 DEF FutureInv
    <3>4. TypeOK'
      BY <1>0, <2>0, <2>2, <3>1, DMSame, Zenon DEF TypeOK
    <3>5. /\ batch'[c] = {} /\ ndone'[c] = 0 /\ pc'[c] = "out"
          /\ UNCHANGED <<todo, cur, with, state, tdata>>
      BY <1>0, <2>0, <2>2, Zenon DEF TypeOK, dmvars, futures
    <3>6. CallerInv(c)'
      <4>1. with[c] \notin Callers
        BY <1>0, <2>0, Zenon DEF CallerInv, Polling
      <4> QED
        BY <1>0, <2>0, <3>5, <4>1, Zenon DEF CallerInv, Polling
    <3>7. CountInv(c)'
      <4>1. Completed(c)' = {}
        BY <3>5, Zenon DEF Completed
      <4> QED
        BY <3>5, <4>1, FS_EmptySet DEF CountInv
    <3> QED
      BY <1>0, <2>0, <2>1, <2>2, <3>3, <3>4, <3>6, <3>7, CallerAlone, Zenon DEF TypeOK
  <2>3. CASE /\ UNCHANGED <<batch, ndone>>
             /\ \/ /\ spin[c] + 1 < Spins
                   /\ spin' = [spin EXCEPT ![c] = @ + 1]
                   /\ pc' = [pc EXCEPT ![c] = "sort"]
                \/ /\ spin[c] + 1 = Spins
                   /\ spin' = [spin EXCEPT ![c] = 0]
                   /\ pc' = [pc EXCEPT ![c] = "sleep"]
    <3>1. spin' \in [Callers -> 0..Spins-1]
      <4>1. spin \in [Callers -> 0..Spins-1] /\ spin[c] \in 0..Spins-1
        BY <1>0, Zenon DEF TypeOK
      <4>2. 0 \in 0..Spins-1 /\ (spin[c] + 1 < Spins => spin[c] + 1 \in 0..Spins-1)
        BY <4>1
      <4> QED
        BY <2>3, <4>1, <4>2, Zenon
    <3>2. TypeOK'
      BY <1>0, <2>0, <2>3, <3>1, DMSame, Zenon DEF TypeOK
    <3>3. CallerInv(c)' /\ CountInv(c)'
      <4>1. /\ pc'[c] \in {"sort", "sleep"} 
            /\ UNCHANGED <<batch, ndone, todo, cur, with, state, tdata>>
        BY <1>0, <2>0, <2>3, Zenon DEF TypeOK, dmvars, futures
      <4> QED
        BY <1>0, <2>0, <4>1, Zenon DEF CallerInv, CountInv, Completed, Polling
    <3>4. \A g \in Futs : tdata[g].waker = c => g \in batch'[c]
      BY <1>0, <2>3 DEF FutureInv
    <3> QED
      BY <1>0, <2>0, <2>1, <2>3, <3>2, <3>3, <3>4, CallerAlone, Zenon DEF TypeOK
  <2> QED
    BY <1>5, <2>2, <2>3, Zenon DEF wait_passed, Goto
<1> QED
  BY <1>1, <1>2, <1>3, <1>4, <1>5, Zenon

\* The steps of runtime_sleep.
LEMMA SleepSteps ==
  ASSUME RuntimeInv, NEW c \in Callers,
         \/ sleep_lock(c) \/ sleep_wait(c)
         \/ sleep_signalled(c) \/ sleep_timeout(c) \/ sleep_unlock(c)
  PROVE  RuntimeInv'
<1>0. TypeOK /\ CallerInv(c) /\ CountInv(c) /\ \A f \in Futs : FutureInv(f)
  BY Pointers, Zenon
<1>1. /\ pc[c] \in {"sleep", "timedwait", "asleep", "awake"}
      /\ \E l \in {"timedwait", "asleep", "awake", "sort"} : pc' = [pc EXCEPT ![c] = l]
      /\ UNCHANGED <<batch, todo, cur, with, ndone, spin, dmvars>>
  BY Zenon DEF sleep_lock, sleep_wait, sleep_signalled, sleep_timeout, sleep_unlock, AwakeWithLock, Goto
<1>2. lock' = [lock EXCEPT ![c] = c] \/ lock' = [lock EXCEPT ![c] = NULL]
  BY Zenon DEF sleep_lock, sleep_wait, sleep_signalled, sleep_timeout, sleep_unlock, AwakeWithLock
<1>3. signalled' = signalled \/ signalled' = [signalled EXCEPT ![c] = FALSE]
  BY Zenon DEF sleep_lock, sleep_wait, sleep_signalled, sleep_timeout, sleep_unlock, AwakeWithLock
<1>4. TypeOK'
  <2>1. lock' \in [Callers -> Callers \cup Workers \cup {NULL}]
    BY <1>0, <1>2, Zenon DEF TypeOK
  <2>2. signalled' \in [Callers -> BOOLEAN]
    BY <1>0, <1>3, Zenon DEF TypeOK
  <2> QED
    BY <1>0, <1>1, <2>1, <2>2, DMSame, Zenon DEF TypeOK
<1>5. /\ pc'[c] \in {"timedwait", "asleep", "awake", "sort"}
      /\ UNCHANGED <<batch, todo, cur, with, ndone, state, tdata>>
      /\ mover = "up"
  BY <1>0, <1>1, Pointers, Zenon DEF TypeOK, dmvars, futures
<1>6. CallerInv(c)' /\ CountInv(c)'
  BY <1>0, <1>1, <1>5, Zenon DEF CallerInv, CountInv, Completed, Polling
<1>7. \A g \in Futs : Owner[g] = c => ~(state[g] = "IDLE" /\ (Underway(g) \/ tdata[g].complete))
  <2>1. cur[c] = NULL
    BY <1>0, <1>1, Zenon DEF CallerInv, Polling
  <2> QED
    BY <1>0, <2>1, FutsAssumption DEF FutureInv
<1>8. \A g \in Futs : tdata[g].waker = c => g \in batch'[c]
  BY <1>0, <1>5 DEF FutureInv
<1> QED
  BY <1>0, <1>1, <1>4, <1>5, <1>6, <1>7, <1>8, CallerAlone, Zenon DEF TypeOK

-----------------------------------------------------------------------------
\* A step of future_poll disturbs what is said about the future it polls and
\* about its caller, and nothing else: nobody else can be polling that future,
\* and an operation that a worker has is neither queued again nor told to
\* notify otherwise.
LEMMA PollAlone ==
  ASSUME RuntimeInv, NEW c \in Callers, NEW f \in Futs, pc[c] \in Polling, f = cur[c],
         TypeOK',
         UNCHANGED <<batch, todo, at, job, mover>>,
         \A d \in Callers \ {c} :
           pc'[d] = pc[d] /\ cur'[d] = cur[d] /\ with'[d] = with[d] /\ ndone'[d] = ndone[d],
         \A g \in Futs \ {f} :
           /\ state'[g] = state[g] /\ block'[g] = block[g] /\ tdata'[g] = tdata[g]
           /\ moved'[g] = moved[g] /\ (g \in queue' <=> g \in queue),
         f \in queue' => f \in queue \/ \A w \in Workers : job[w] # f,
         Underway(f) => tdata'[f].notifier = tdata[f].notifier,
         CallerInv(c)', CountInv(c)', FutureInv(f)', MovedInv(f)'
  PROVE  RuntimeInv'
<1> USE Pointers
<1>0. Owner[f] = c /\ mover = "up"
  BY Zenon DEF CallerInv, Polling
<1>1. MoverInv'
  BY <1>0, Zenon DEF MoverInv
<1>2. \A w \in Workers : WorkerInv(w)'
  <2> SUFFICES ASSUME NEW w \in Workers PROVE WorkerInv(w)'
    BY Zenon
  <2>1. WorkerInv(w) /\ job[w] \in Async \cup {NULL} /\ queue' \subseteq Async
    BY DEF TypeOK, DMTypeOK
  <2>2. NULL \notin Futs /\ Async \subseteq Futs
    BY FutsAssumption, ZenonT(30) DEF Async
  <2>3. job[w] \notin queue'
    BY <2>1, <2>2 DEF WorkerInv
  <2>4. at[w] \in {"wake", "signal", "unlock"} => tdata'[job[w]].notifier = "WAKER"
    BY <2>1, <2>2 DEF WorkerInv, Underway
  <2> QED
    BY <2>1, <2>3, <2>4, Zenon DEF WorkerInv
<1>3. \A d \in Callers \ {c} : \A g \in Futs : Owner[g] = d => g # f
  BY <1>0, Zenon
<1>4. \A d \in Callers : CallerInv(d)'
  <2> SUFFICES ASSUME NEW d \in Callers, d # c PROVE CallerInv(d)'
    BY Zenon
  <2>1. /\ pc'[d] = pc[d] /\ cur'[d] = cur[d] /\ with'[d] = with[d]
        /\ batch'[d] = batch[d] /\ todo'[d] = todo[d] /\ CallerInv(d)
        /\ batch[d] \subseteq Futs /\ cur[d] \in Futs \cup {NULL}
    BY Zenon DEF TypeOK
  <2>2. \A g \in Futs : Owner[g] = d => state'[g] = state[g] /\ tdata'[g] = tdata[g]
    BY <1>3, Zenon
  <2>3. \A g \in batch[d] : g \in Futs /\ Owner[g] = d /\ state'[g] # "none"
    <3> SUFFICES ASSUME NEW g \in batch[d] PROVE g \in Futs /\ Owner[g] = d /\ state'[g] # "none"
      BY Zenon
    <3>1. g \in Futs /\ Owner[g] = d /\ state[g] # "none"
      BY <2>1, Zenon DEF CallerInv
    <3> QED
      BY <2>2, <3>1, Zenon
  <2>4. cur[d] # NULL => /\ Owner[cur[d]] = d
                         /\ state'[cur[d]] = state[cur[d]] /\ tdata'[cur[d]] = tdata[cur[d]]
    BY <2>1, <2>2, Zenon DEF CallerInv
  <2>5. /\ pc'[d] = "check" /\ cur'[d] \in SyncFuts => tdata'[cur'[d]].complete
        /\ cur'[d] # NULL => state'[cur'[d]] \in {"IDLE", "RUNNING"}
    <3>1. cur'[d] # NULL => state'[cur'[d]] \in {"IDLE", "RUNNING"}
      BY <2>1, <2>4, Zenon DEF CallerInv
    <3>2. pc'[d] = "check" => cur[d] # NULL
      BY <2>1, Zenon DEF CallerInv, Polling
    <3>3. pc[d] = "check" /\ cur[d] \in SyncFuts => tdata[cur[d]].complete
      BY <2>1, Zenon DEF CallerInv
    <3> QED
      BY <2>1, <2>4, <3>1, <3>2, <3>3
  <2> HIDE Pointers
  <2> QED
    BY <2>1, <2>3, <2>4, <2>5, Zenon DEF CallerInv
<1>5. \A d \in Callers : CountInv(d)'
  <2> SUFFICES ASSUME NEW d \in Callers, d # c PROVE CountInv(d)'
    BY Zenon
  <2>1. batch'[d] = batch[d] /\ batch[d] \subseteq Futs /\ CallerInv(d) /\ CountInv(d)
    BY Zenon DEF TypeOK
  <2>2. \A g \in batch[d] : state'[g] = state[g]
    <3> SUFFICES ASSUME NEW g \in batch[d] PROVE state'[g] = state[g]
      BY Zenon
    <3>1. g \in Futs /\ Owner[g] = d
      BY <2>1, Zenon DEF CallerInv
    <3> QED
      BY <1>3, <3>1, Zenon
  <2>3. Completed(d)' = Completed(d)
    BY <2>1, <2>2 DEF Completed
  <2> QED
    BY <2>1, <2>3, Zenon DEF CountInv
<1>6. \A g \in Futs \ {f} : FutureInv(g)' /\ MovedInv(g)'
  <2> SUFFICES ASSUME NEW g \in Futs, g # f PROVE FutureInv(g)' /\ MovedInv(g)'
    BY Zenon
  <2>1. Underway(g)' <=> Underway(g)
    BY Zenon DEF Underway
  <2>2. /\ state'[g] = state[g] /\ block'[g] = block[g] /\ tdata'[g] = tdata[g]
        /\ moved'[g] = moved[g] /\ (g \in queue' <=> g \in queue)
        /\ FutureInv(g) /\ MovedInv(g) /\ Owner[g] \in Callers
    BY Zenon
  <2>3. Owner[g] = c => ~(state[g] = "IDLE" /\ (Underway(g) \/ tdata[g].complete))
    BY <2>2, Zenon DEF FutureInv
  <2>4. Owner[g] # c => cur'[Owner[g]] = cur[Owner[g]] /\ pc'[Owner[g]] = pc[Owner[g]]
    BY Zenon
  <2>5. FutureInv(g)'
    <3>1. /\ Underway(g)' = Underway(g) /\ mover' = mover /\ batch' = batch
          /\ state'[g] = state[g] /\ block'[g] = block[g] /\ tdata'[g] = tdata[g]
      BY <2>1, <2>2, Zenon DEF Underway
    <3>2. state'[g] = "IDLE" /\ (Underway(g)' \/ tdata'[g].complete) =>
            cur'[Owner[g]] = cur[Owner[g]] /\ pc'[Owner[g]] = pc[Owner[g]]
      BY <2>3, <2>4, <3>1, Zenon
    <3>3. state'[g] = "IDLE" /\ (Underway(g)' \/ tdata'[g].complete) =>
            /\ cur'[Owner[g]] = g
            /\ pc'[Owner[g]] \in {"started"} \cup Checking
            /\ pc'[Owner[g]] \in Checking => tdata'[g].started \/ g \in SyncFuts
      BY <2>2, <3>1, <3>2, Zenon DEF FutureInv
    <3>4. /\ state'[g] = "none" => tdata'[g] = NewData
          /\ state'[g] = "COMPLETE" => tdata'[g] = NewData
          /\ state'[g] = "RUNNING" => tdata'[g].started /\ g \in Async
          /\ state'[g] \in {"IDLE", "RUNNING"} /\ (mover' # "deleted" \/ g \in SyncFuts) => block'[g] = "live"
      BY <2>2, <3>1, Zenon DEF FutureInv
    <3>5. /\ Underway(g)' => state'[g] \in {"IDLE", "RUNNING"} /\ ~tdata'[g].complete
          /\ Underway(g)' /\ tdata'[g].notifier = "WAKER" => tdata'[g].waker # NULL
          /\ tdata'[g].waker \in Callers => g \in batch'[tdata'[g].waker]
      BY <2>2, <3>1, Zenon DEF FutureInv
    <3> QED
      BY <3>3, <3>4, <3>5, Zenon DEF FutureInv
  <2>6. MovedInv(g)'
    BY <2>1, <2>2, Zenon DEF MovedInv
  <2> QED
    BY <2>5, <2>6, Zenon
<1> QED
  BY <1>1, <1>2, <1>4, <1>5, <1>6, Zenon DEF RuntimeInv

\* What is known of the future that is being polled.
LEMMA Polled ==
  ASSUME RuntimeInv, NEW c \in Callers, pc[c] \in Polling
  PROVE  /\ cur[c] \in Futs /\ cur[c] # NULL /\ Owner[cur[c]] = c /\ mover = "up"
         /\ state[cur[c]] \in {"IDLE", "RUNNING"}
         /\ block[cur[c]] = "live"
         /\ batch[c] # {} => cur[c] \in batch[c]
         /\ tdata[cur[c]] \in TData /\ moved[cur[c]] \in Nat
         /\ with[c] \in Callers \cup UserWakers \cup {NULL}
         /\ with[c] \in Callers => with[c] = c /\ cur[c] \in batch[c]
         /\ Underway(cur[c]) => cur[c] \in Async
         /\ FutureInv(cur[c]) /\ MovedInv(cur[c]) /\ CallerInv(c) /\ CountInv(c) /\ TypeOK
<1>1. /\ TypeOK /\ CallerInv(c) /\ CountInv(c) /\ mover = "up" /\ cur[c] \in Futs
      /\ FutureInv(cur[c]) /\ MovedInv(cur[c])
  BY Pointers, Zenon DEF Polling
<1>2. /\ cur[c] # NULL /\ Owner[cur[c]] = c /\ state[cur[c]] \in {"IDLE", "RUNNING"}
      /\ batch[c] # {} => cur[c] \in batch[c]
      /\ with[c] \in Callers => with[c] = c /\ cur[c] \in batch[c]
  BY <1>1, Zenon DEF CallerInv
<1>3. block[cur[c]] = "live"
  BY <1>1, <1>2, Zenon DEF FutureInv
<1>4. /\ tdata[cur[c]] \in TData /\ moved[cur[c]] \in Nat
      /\ with[c] \in Callers \cup UserWakers \cup {NULL}
      /\ Underway(cur[c]) => cur[c] \in Async
  BY <1>1, <1>2, Zenon DEF TypeOK, DMTypeOK, TData, Underway
<1> QED
  BY <1>1, <1>2, <1>3, <1>4, Zenon

\* op_start's stores leave complete and started alone, and an operation that
\* is to wake has a waker.
LEMMA Stored ==
  ASSUME NEW d \in TData, NEW n \in Callers \cup UserWakers \cup {NULL}
  PROVE  /\ StoredNotifier(d, n) \in TData
         /\ StoredNotifier(d, n).complete = d.complete
         /\ StoredNotifier(d, n).started = d.started
         /\ StoredNotifier(d, n).notifier = "WAKER" => StoredNotifier(d, n).waker # NULL
         /\ StoredNotifier(d, n).waker \in {d.waker, n}
BY FutsAssumption, Zenon DEF StoredNotifier, TData

\* A future that future_poll finds idle was neither queued nor performed.
LEMMA Startable ==
  ASSUME RuntimeInv, NEW c \in Callers, pc[c] = "poll", state[cur[c]] = "IDLE"
  PROVE  /\ ~Underway(cur[c]) /\ ~tdata[cur[c]].complete /\ moved[cur[c]] = 0
         /\ cur[c] \notin queue /\ \A w \in Workers : job[w] # cur[c]
<1>1. Owner[cur[c]] = c /\ FutureInv(cur[c]) /\ MovedInv(cur[c])
  BY Polled, Zenon DEF Polling
<1>2. ~Underway(cur[c]) /\ ~tdata[cur[c]].complete
  BY <1>1, Zenon DEF FutureInv, Checking
<1> QED
  BY <1>1, <1>2, Zenon DEF MovedInv, Underway

\* The steps of op_start.
LEMMA StartSteps ==
  ASSUME RuntimeInv, NEW c \in Callers, poll_start(c)
  PROVE  RuntimeInv'
<1>0. /\ pc[c] = "poll" /\ pc[c] \in Polling
      /\ UNCHANGED <<batch, todo, cur, with, ndone, spin, lock, signalled>>
  BY Zenon DEF poll_start, sync, Polling
<1>f. PICK f \in Futs : f = cur[c]
  BY <1>0, Polled, Zenon
<1>n. PICK n \in Callers \cup UserWakers \cup {NULL} : n = with[c]
  BY <1>0, Polled, Zenon
<1>1. /\ f \in Futs /\ f # NULL /\ Owner[f] = c /\ mover = "up"
      /\ state[f] \in {"IDLE", "RUNNING"} /\ block[f] = "live"
      /\ batch[c] # {} => f \in batch[c]
      /\ tdata[f] \in TData /\ moved[f] \in Nat
      /\ n \in Callers \cup UserWakers \cup {NULL}
      /\ n \in Callers => n = c /\ f \in batch[c]
      /\ Underway(f) => f \in Async
      /\ FutureInv(f) /\ MovedInv(f) /\ CallerInv(c) /\ CountInv(c) /\ TypeOK
  BY <1>0, <1>f, <1>n, Polled, Zenon
<1>2. /\ StoredNotifier(tdata[f], n) \in TData
      /\ StoredNotifier(tdata[f], n).complete = tdata[f].complete
      /\ StoredNotifier(tdata[f], n).started = tdata[f].started
      /\ StoredNotifier(tdata[f], n).notifier = "WAKER" =>
           StoredNotifier(tdata[f], n).waker # NULL
      /\ StoredNotifier(tdata[f], n).waker \in {tdata[f].waker, n}
  BY <1>1, Stored, Zenon
<1>3. tdata \in [Futs -> TData] /\ moved \in [Futs -> Nat]
  BY <1>1, Zenon DEF TypeOK, DMTypeOK, TData
<1>4. CASE /\ state[f] = "IDLE" /\ f \in Async /\ start_enqueue(f, n) /\ Goto(c, "started")
  <2>0. /\ tdata' = [tdata EXCEPT ![f] = StoredNotifier(tdata[f], n)]
        /\ queue' = queue \cup {f}
        /\ UNCHANGED <<state, property, block, moved, at, job, mover>>
        /\ pc' = [pc EXCEPT ![c] = "started"]
    BY <1>4, Zenon DEF start_enqueue, Goto
  <2>1. /\ tdata' \in [Futs -> TData] /\ tdata'[f] = StoredNotifier(tdata[f], n)
        /\ pc'[c] = "started"
    BY <1>1, <1>2, <1>3, <2>0, Zenon DEF TypeOK
  <2>2. TypeOK'
    <3>1. DMTypeOK'
      BY <1>1, <1>4, <2>0, <2>1 DEF TypeOK, DMTypeOK, TData
    <3> QED
      BY <1>0, <1>1, <2>0, <3>1, ZenonT(30) DEF TypeOK
  <2>3. /\ ~Underway(f) /\ ~tdata[f].complete /\ moved[f] = 0
        /\ f \notin queue /\ \A w \in Workers : job[w] # f
    BY <1>0, <1>4, <1>f, Startable, Zenon
  <2>4. CallerInv(c)' /\ CountInv(c)'
    BY <1>0, <1>f, <1>1, <1>4, <2>0, <2>1, ZenonT(30) DEF CallerInv, CountInv, Completed, Polling
  <2>5. MovedInv(f)'
    BY <2>0, <2>1, <2>3, <1>2 DEF MovedInv, Underway
  <2>6. FutureInv(f)'
    BY <1>0, <1>f, <1>1, <1>2, <1>4, <2>0, <2>1, <2>3, Zenon DEF FutureInv, Underway, Checking
  <2> QED
    BY <1>0, <1>1, <1>3, <2>0, <2>2, <2>3, <2>4, <2>5, <2>6, <1>f, PollAlone, Zenon DEF TypeOK
<1>5. CASE /\ state[f] = "IDLE" /\ f \in Async /\ start_full(f, n) /\ Goto(c, "check")
  <2>0. /\ tdata' = [tdata EXCEPT ![f] = StoredNotifier(tdata[f], n)]
        /\ UNCHANGED <<state, property, block, moved, queue, at, job, mover>>
        /\ pc' = [pc EXCEPT ![c] = "check"]
    BY <1>5, Zenon DEF start_full, Goto, workers
  <2>1. /\ tdata' \in [Futs -> TData] /\ tdata'[f] = StoredNotifier(tdata[f], n)
        /\ pc'[c] = "check"
    BY <1>1, <1>2, <1>3, <2>0, Zenon DEF TypeOK
  <2>2. TypeOK'
    <3>1. DMTypeOK'
      BY <1>1, <1>5, <2>0, <2>1, Zenon DEF TypeOK, DMTypeOK, TData
    <3> QED
      BY <1>0, <1>1, <2>0, <3>1, Zenon DEF TypeOK
  <2>3. /\ ~Underway(f) /\ ~tdata[f].complete /\ moved[f] = 0
        /\ f \notin queue /\ \A w \in Workers : job[w] # f
    BY <1>0, <1>5, <1>f, Startable, Zenon
  <2>4. CallerInv(c)' /\ CountInv(c)'
    BY <1>0, <1>f, <1>1, <1>5, <2>0, <2>1, Zenon DEF CallerInv, CountInv, Completed, Polling, Async
  <2>5. MovedInv(f)'
    BY <2>0, <2>1, <2>3, <1>2 DEF MovedInv, Underway
  <2>6. FutureInv(f)'
    BY <1>0, <1>f, <1>1, <1>2, <1>5, <2>0, <2>1, <2>3, Zenon DEF FutureInv, Underway
  <2> QED
    BY <1>0, <1>1, <1>3, <2>0, <2>2, <2>3, <2>4, <2>5, <2>6, <1>f, PollAlone, Zenon DEF TypeOK
<1>6. CASE /\ state[f] = "IDLE" /\ f \in SyncFuts /\ sync_operation_start(f) /\ Goto(c, "check")
  <2>0. /\ tdata' = [tdata EXCEPT ![f].complete = TRUE]
        /\ moved' = [moved EXCEPT ![f] = @ + 1]
        /\ UNCHANGED <<state, property, block, queue, at, job, mover>>
        /\ pc' = [pc EXCEPT ![c] = "check"]
    BY <1>6, Zenon DEF sync_operation_start, Goto, workers
  <2>1. /\ ~Underway(f) /\ ~tdata[f].complete /\ moved[f] = 0
        /\ f \notin queue /\ \A w \in Workers : job[w] # f
    BY <1>0, <1>6, <1>f, Startable, Zenon
  <2>2. /\ tdata' \in [Futs -> TData] /\ tdata'[f] = [tdata[f] EXCEPT !.complete = TRUE]
        /\ tdata'[f].complete /\ tdata'[f].waker = tdata[f].waker
        /\ pc'[c] = "check"
    BY <1>1, <1>3, <2>0, Zenon DEF TypeOK, TData
  <2>3. moved' \in [Futs -> Nat] /\ moved'[f] = 1
    BY <1>3, <2>0, <2>1
  <2>4. TypeOK'
    <3>1. DMTypeOK'
      BY <1>1, <2>0, <2>2, <2>3, Zenon DEF TypeOK, DMTypeOK, TData
    <3> QED
      BY <1>0, <1>1, <2>0, <3>1, Zenon DEF TypeOK
  <2>5. CallerInv(c)' /\ CountInv(c)'
    BY <1>0, <1>f, <1>1, <1>6, <2>0, <2>2, Zenon DEF CallerInv, CountInv, Completed, Polling, Async
  <2>6. MovedInv(f)'
    BY <2>0, <2>1, <2>2, <2>3 DEF MovedInv, Underway
  <2>7. FutureInv(f)'
    BY <1>0, <1>f, <1>1, <1>6, <2>0, <2>1, <2>2, Zenon DEF FutureInv, Underway, Checking
  <2> QED
    BY <1>0, <1>1, <1>3, <2>0, <2>1, <2>4, <2>5, <2>6, <2>7, <1>f, PollAlone, Zenon DEF TypeOK
<1>7. CASE state[f] = "RUNNING" /\ Goto(c, "check") /\ UNCHANGED dmvars
  <2>0. /\ UNCHANGED <<state, property, block, tdata, moved, queue, at, job, mover>>
        /\ pc' = [pc EXCEPT ![c] = "check"]
    BY <1>7, Zenon DEF Goto, dmvars, futures, workers
  <2>1. TypeOK' /\ pc'[c] = "check"
    BY <1>0, <1>1, <1>7, <2>0, DMSame, Zenon DEF TypeOK
  <2>2. f \in Async
    BY <1>1, <1>7, Zenon DEF FutureInv
  <2>3. CallerInv(c)' /\ CountInv(c)'
    BY <1>0, <1>f, <1>1, <2>0, <2>1, <2>2, Zenon DEF CallerInv, CountInv, Completed, Polling, Async
  <2>4. MovedInv(f)' /\ FutureInv(f)'
    BY <1>0, <1>f, <1>1, <1>7, <2>0, <2>1, Zenon DEF FutureInv, MovedInv, Underway
  <2> QED
    BY <1>0, <1>1, <2>0, <2>1, <2>3, <2>4, <1>f, PollAlone, Zenon DEF TypeOK
<1> QED
  BY <1>f, <1>n, <1>4, <1>5, <1>6, <1>7, Zenon DEF poll_start

\* The store of started after the enqueue, when the operation may be complete.
LEMMA StartedSteps ==
  ASSUME RuntimeInv, NEW c \in Callers, poll_started(c)
  PROVE  RuntimeInv'
<1>0. /\ pc[c] = "started" /\ pc[c] \in Polling
      /\ UNCHANGED <<batch, todo, cur, with, ndone, spin, lock, signalled>>
  BY Zenon DEF poll_started, sync, Polling
<1>f. PICK f \in Futs : f = cur[c]
  BY <1>0, Polled, Zenon
<1>1. /\ Owner[f] = c /\ mover = "up" /\ block[f] = "live" /\ tdata[f] \in TData
      /\ FutureInv(f) /\ MovedInv(f) /\ CallerInv(c) /\ CountInv(c) /\ TypeOK
      /\ state[f] \in {"IDLE", "RUNNING"}
  BY <1>0, <1>f, Polled, Zenon
<1>2. /\ tdata' = [tdata EXCEPT ![f].started = TRUE]
      /\ UNCHANGED <<state, property, block, moved, queue, at, job, mover>>
      /\ pc' = [pc EXCEPT ![c] = "check"]
  BY <1>f, Zenon DEF poll_started, start_started, Goto, workers
<1>3. f \in Async /\ tdata \in [Futs -> TData]
  BY <1>0, <1>f, <1>1, Zenon DEF CallerInv, TypeOK, DMTypeOK, TData
<1>4. /\ tdata' \in [Futs -> TData] /\ pc'[c] = "check" /\ tdata'[f].started
      /\ tdata'[f].complete = tdata[f].complete /\ tdata'[f].waker = tdata[f].waker
      /\ tdata'[f].notifier = tdata[f].notifier
  BY <1>1, <1>2, <1>3, Zenon DEF TypeOK, TData
<1>5. TypeOK'
  <2>1. DMTypeOK'
    BY <1>1, <1>2, <1>4, Zenon DEF TypeOK, DMTypeOK, TData
  <2> QED
    BY <1>0, <1>1, <1>2, <2>1, Zenon DEF TypeOK
<1>6. CallerInv(c)' /\ CountInv(c)'
  BY <1>0, <1>f, <1>1, <1>2, <1>3, <1>4, Zenon DEF CallerInv, CountInv, Completed, Polling, Async
<1>7. MovedInv(f)'
  BY <1>1, <1>2, <1>4, ZenonT(30) DEF MovedInv, Underway
<1>8. FutureInv(f)'
  BY <1>0, <1>f, <1>1, <1>2, <1>4, Zenon DEF FutureInv, Underway, Checking
<1> QED
  BY <1>0, <1>1, <1>2, <1>3, <1>4, <1>5, <1>6, <1>7, <1>8, <1>f, PollAlone, Zenon DEF TypeOK

\* op_check finds the operation complete and op_delete frees it.
LEMMA CompleteSteps ==
  ASSUME RuntimeInv, NEW c \in Callers, poll_complete(c)
  PROVE  RuntimeInv'
<1>0. /\ pc[c] = "check" /\ pc[c] \in Polling
      /\ UNCHANGED <<batch, todo, spin, lock, signalled>>
  BY Zenon DEF poll_complete, PollReturns, sync, Polling
<1>f. PICK f \in Futs : f = cur[c]
  BY <1>0, Polled, Zenon
<1>1. /\ Owner[f] = c /\ mover = "up" /\ block[f] = "live" /\ tdata[f] \in TData
      /\ FutureInv(f) /\ MovedInv(f) /\ CallerInv(c) /\ CountInv(c) /\ TypeOK
      /\ state[f] \in {"IDLE", "RUNNING"} /\ (batch[c] # {} => f \in batch[c])
  BY <1>0, <1>f, Polled, Zenon
<1>2. /\ tdata[f].complete
      /\ block' = [block EXCEPT ![f] = "freed"]
      /\ tdata' = [tdata EXCEPT ![f] = NewData]
      /\ state' = [state EXCEPT ![f] = "COMPLETE"]
      /\ UNCHANGED <<property, moved, queue, at, job, mover>>
      /\ ndone' = [ndone EXCEPT ![c] = IF batch[c] # {} THEN @ + 1 ELSE @]
      /\ pc' = [pc EXCEPT ![c] = IF batch[c] # {} THEN "pass" ELSE "out"]
      /\ cur' = [cur EXCEPT ![c] = NULL]
      /\ with' = [with EXCEPT ![c] = NULL]
  BY <1>f, Zenon DEF poll_complete, check_complete, PollReturns, Waiting, Goto
<1>3. ~Underway(f) /\ moved[f] = 1
  BY <1>1, <1>2, Zenon DEF FutureInv, MovedInv
<1>4. NewData \in TData /\ tdata \in [Futs -> TData]
  BY <1>1, FutsAssumption, Zenon DEF NewData, TData, TypeOK, DMTypeOK
<1>5. /\ tdata' \in [Futs -> TData] /\ tdata'[f] = NewData /\ state'[f] = "COMPLETE"
      /\ cur'[c] = NULL /\ with'[c] = NULL
      /\ pc'[c] = IF batch[c] # {} THEN "pass" ELSE "out"
      /\ \A g \in Futs \ {f} : state'[g] = state[g]
  BY <1>1, <1>2, <1>4, Zenon DEF TypeOK, DMTypeOK
<1>6. CountInv(c)' /\ ndone'[c] \in 0..Cardinality(Futs)
  <2>1. /\ batch[c] \in SUBSET Futs /\ Completed(c) \in SUBSET batch[c]
        /\ Completed(c)' \in SUBSET batch[c] /\ ndone[c] \in Nat
        /\ ndone[c] \in 0..Cardinality(Futs)
        /\ ndone'[c] = IF batch[c] # {} THEN ndone[c] + 1 ELSE ndone[c]
    <3>1. /\ ndone[c] \in 0..Cardinality(Futs) /\ Cardinality(Futs) \in Nat
          /\ ndone'[c] = IF batch[c] # {} THEN ndone[c] + 1 ELSE ndone[c]
      BY <1>1, <1>2, FutsAssumption, FS_CardinalityType, Zenon DEF TypeOK
    <3>2. batch[c] \in SUBSET Futs /\ Completed(c) \in SUBSET batch[c]
      BY <1>1, Zenon DEF TypeOK, Completed
    <3>3. Completed(c)' \in SUBSET batch[c]
      BY <1>0, Zenon DEF Completed
    <3> QED
      BY <3>1, <3>2, <3>3
  <2>2. CASE batch[c] = {}
    <3>1. Completed(c)' = Completed(c)
      BY <1>0, <2>2, Zenon DEF Completed
    <3> QED
      BY <1>1, <2>1, <2>2, <3>1, Zenon DEF CountInv
  <2>3. CASE batch[c] # {}
    <3>1. f \notin Completed(c) /\ Completed(c)' = Completed(c) \cup {f}
      BY <1>0, <1>1, <1>5, <2>1, <2>3, Zenon DEF Completed
    <3>2. Cardinality(Completed(c)') = Cardinality(Completed(c)) + 1
      BY <2>1, <3>1, Counts, FS_AddElement, Zenon
    <3>3. /\ Cardinality(Completed(c)') <= Cardinality(Futs)
          /\ Cardinality(Futs) \in Nat /\ Cardinality(Completed(c)) \in Nat
      BY <2>1, Counts, Zenon
    <3> QED
      BY <1>1, <2>1, <2>3, <3>2, <3>3 DEF CountInv
  <2> QED
    BY <2>2, <2>3, Zenon
<1>7. TypeOK'
  <2>1. DMTypeOK'
    BY <1>1, <1>2, <1>5, Zenon DEF TypeOK, DMTypeOK, TData
  <2>2. ndone' \in [Callers -> 0..Cardinality(Futs)]
    <3>1. ndone \in [Callers -> 0..Cardinality(Futs)]
      BY <1>1, Zenon DEF TypeOK
    <3> QED
      BY <1>2, <1>6, <3>1, Zenon
  <2>3. pc' \in [Callers -> {"out", "sort", "pass", "poll", "started", "check",
                             "check_started", "sleep", "timedwait", "asleep",
                             "awake", "crashed"}]
    BY <1>1, <1>2, Zenon DEF TypeOK
  <2> QED
    BY <1>0, <1>1, <1>2, <2>1, <2>2, <2>3, Zenon DEF TypeOK
<1>8. CallerInv(c)'
  <2>1. \A g \in batch[c] : Owner[g] = c /\ state'[g] # "none"
    <3> SUFFICES ASSUME NEW g \in batch[c] PROVE Owner[g] = c /\ state'[g] # "none"
      BY Zenon
    <3>1. g \in Futs /\ Owner[g] = c /\ state[g] # "none"
      BY <1>1, ZenonT(30) DEF CallerInv, TypeOK
    <3> QED
      BY <1>5, <3>1, Zenon
  <2> QED
    BY <1>0, <1>1, <1>5, <2>1, FutsAssumption, Zenon DEF CallerInv, Polling
<1>9. MovedInv(f)' /\ FutureInv(f)'
  <2>1. ~Underway(f)' /\ moved'[f] = 1
    BY <1>2, <1>3, Zenon DEF Underway
  <2>2. ~tdata'[f].complete /\ tdata'[f].waker \notin Callers
    <3>1. NewData.complete = FALSE /\ NewData.waker = NULL
      BY DEF NewData
    <3> QED
      BY <1>5, <3>1, FutsAssumption, Zenon
  <2>3. FutureInv(f)'
    <3>1. state'[f] \notin {"IDLE", "RUNNING"} /\ state'[f] # "IDLE" /\ state'[f] # "RUNNING"
      BY <1>5
    <3> QED
      BY <1>5, <2>1, <2>2, <3>1, Zenon DEF FutureInv
  <2>4. MovedInv(f)'
    <3>1. f \notin queue' /\ \A w \in Workers : job'[w] # f
      BY <2>1, Zenon DEF Underway
    <3>2. 1 <= 1
      OBVIOUS
    <3> QED
      BY <1>5, <2>1, <2>2, <3>1, <3>2, Zenon DEF MovedInv
  <2> QED
    BY <2>3, <2>4, Zenon
<1> QED
  BY <1>0, <1>1, <1>2, <1>3, <1>4, <1>6, <1>7, <1>8, <1>9, <1>f, PollAlone, Zenon
     DEF TypeOK, DMTypeOK

\* op_check finds complete clear, and then loads started.
LEMMA PendingSteps ==
  ASSUME RuntimeInv, NEW c \in Callers, poll_incomplete(c) \/ poll_pending(c)
  PROVE  RuntimeInv'
<1>0. /\ pc[c] \in Checking /\ pc[c] \in Polling
      /\ UNCHANGED <<batch, todo, ndone, spin, lock, signalled>>
  BY Zenon DEF poll_incomplete, poll_pending, PollReturns, sync, Polling, Checking
<1>f. PICK f \in Futs : f = cur[c]
  BY <1>0, Polled, Zenon
<1>1. /\ Owner[f] = c /\ mover = "up" /\ block[f] = "live" /\ tdata[f] \in TData
      /\ FutureInv(f) /\ MovedInv(f) /\ CallerInv(c) /\ CountInv(c) /\ TypeOK
      /\ state[f] \in {"IDLE", "RUNNING"} /\ f # NULL
  BY <1>0, <1>f, Polled, Zenon
<1>2. CASE poll_incomplete(c)
  <2>0. /\ pc[c] = "check" /\ ~tdata[f].complete
        /\ UNCHANGED <<state, property, block, tdata, moved, queue, at, job, mover>>
        /\ UNCHANGED <<cur, with, dmvars>>
        /\ pc' = [pc EXCEPT ![c] = "check_started"]
    BY <1>f, <1>2, Zenon DEF poll_incomplete, Goto, dmvars, futures, workers
  <2>1. TypeOK' /\ pc'[c] = "check_started"
    BY <1>0, <1>1, <2>0, DMSame, Zenon DEF TypeOK
  <2>2. f \in Async
    BY <1>f, <1>1, <2>0, Zenon DEF CallerInv, Async
  <2>3. CallerInv(c)' /\ CountInv(c)'
    BY <1>0, <1>f, <1>1, <2>0, <2>1, <2>2, Zenon DEF CallerInv, CountInv, Completed, Polling
  <2>4. MovedInv(f)'
    BY <1>1, <2>0, Zenon DEF MovedInv, Underway
  <2>5. FutureInv(f)'
    BY <1>f, <1>0, <1>1, <2>0, <2>1, Zenon DEF FutureInv, Underway, Checking
  <2> QED
    BY <1>0, <1>1, <2>0, <2>1, <2>3, <2>4, <2>5, <1>f, PollAlone, Zenon DEF TypeOK
<1>3. CASE poll_pending(c)
  <2>0. /\ pc[c] = "check_started"
        /\ state' = [state EXCEPT ![f] =
                       IF f \in Async /\ tdata[f].started THEN "RUNNING" ELSE "IDLE"]
        /\ UNCHANGED <<property, block, tdata, moved, queue, at, job, mover>>
        /\ pc' = [pc EXCEPT ![c] = IF batch[c] # {} THEN "pass" ELSE "out"]
        /\ cur' = [cur EXCEPT ![c] = NULL]
        /\ with' = [with EXCEPT ![c] = NULL]
    BY <1>f, <1>3, Zenon DEF poll_pending, check_started, PollReturns, Waiting, Goto, workers
  <2>1. f \in Async
    BY <1>f, <1>1, <2>0, Zenon DEF CallerInv
  <2>2. /\ state'[f] = IF tdata[f].started THEN "RUNNING" ELSE "IDLE"
        /\ cur'[c] = NULL /\ with'[c] = NULL
        /\ pc'[c] = IF batch[c] # {} THEN "pass" ELSE "out"
        /\ \A g \in Futs \ {f} : state'[g] = state[g]
    BY <1>1, <2>0, <2>1, Zenon DEF TypeOK, DMTypeOK
  <2>3. TypeOK'
    <3>1. DMTypeOK'
      BY <1>1, <2>0, Zenon DEF TypeOK, DMTypeOK
    <3>2. pc' \in [Callers -> {"out", "sort", "pass", "poll", "started", "check",
                               "check_started", "sleep", "timedwait", "asleep",
                               "awake", "crashed"}]
      BY <1>1, <2>0, Zenon DEF TypeOK
    <3> QED
      BY <1>0, <1>1, <2>0, <3>1, <3>2, Zenon DEF TypeOK
  <2>4. \A g \in batch[c] : Owner[g] = c /\ state'[g] # "none" 
    <3> SUFFICES ASSUME NEW g \in batch[c] PROVE Owner[g] = c /\ state'[g] # "none"
      BY Zenon
    <3>1. g \in Futs /\ Owner[g] = c /\ state[g] # "none"
      BY <1>1, Zenon DEF CallerInv, TypeOK
    <3> QED
      BY <2>2, <3>1, Zenon
  <2>5. CallerInv(c)'
    BY <1>0, <1>1, <2>2, <2>4, FutsAssumption, Zenon DEF CallerInv, Polling
  <2>6. CountInv(c)'
    <3>1. batch[c] \in SUBSET Futs /\ state[f] # "COMPLETE" /\ state'[f] # "COMPLETE"
      BY <1>1, <2>2, Zenon DEF TypeOK
    <3>2. Completed(c)' = Completed(c)
      BY <1>0, <2>2, <3>1, Zenon DEF Completed
    <3> QED
      BY <1>0, <1>1, <3>2, Zenon DEF CountInv
  <2>7. ~tdata[f].started => ~Underway(f) /\ ~tdata[f].complete
    BY <1>0, <1>f, <1>1, <2>1, Zenon DEF FutureInv, Async
  <2>8. MovedInv(f)' /\ FutureInv(f)'
    <3>1. Underway(f)' <=> Underway(f)
      BY <2>0, Zenon DEF Underway
    <3>2. MovedInv(f)'
      BY <1>1, <2>0, <2>2, <3>1, Zenon DEF MovedInv
    <3>3. CASE tdata[f].started
      <4>1. state'[f] = "RUNNING" /\ UNCHANGED <<block, tdata, mover, batch>>
        BY <1>0, <2>0, <2>2, <3>3, Zenon
      <4>2. FutureInv(f)'
        BY <1>1, <2>1, <3>1, <3>3, <4>1, Zenon DEF FutureInv
      <4> QED
        BY <3>2, <4>2, Zenon
    <3>4. CASE ~tdata[f].started
      BY <1>0, <1>1, <2>0, <2>1, <2>2, <2>7, <3>1, <3>2, <3>4, Zenon DEF FutureInv
    <3> QED
      BY <3>3, <3>4, Zenon
  <2> QED
    BY <1>0, <1>1, <2>0, <2>3, <2>5, <2>6, <2>8, <1>f, PollAlone, Zenon DEF TypeOK, DMTypeOK
<1> QED
  BY <1>2, <1>3, Zenon

-----------------------------------------------------------------------------
\* A new operation.
LEMMA CreateSteps ==
  ASSUME RuntimeInv, NEW c \in Callers, create(c)
  PROVE  RuntimeInv'
<1>0. PICK f \in Futs :
        /\ Owner[f] = c /\ pc[c] = "out" /\ mover = "up" /\ state[f] = "none"
        /\ \/ /\ block' = [block EXCEPT ![f] = "live"]
              /\ tdata' = [tdata EXCEPT ![f] = NewData]
              /\ state' = [state EXCEPT ![f] = "IDLE"]
              /\ property' = [property EXCEPT ![f] = IF f \in SyncFuts THEN "default" ELSE "async"]
           \/ /\ state' = [state EXCEPT ![f] = "COMPLETE"]
              /\ property' = [property EXCEPT ![f] = IF f \in SyncFuts THEN NULL ELSE "async"]
              /\ UNCHANGED <<block, tdata>>
        /\ UNCHANGED <<moved, queue, at, job, mover>>
        /\ UNCHANGED <<pc, batch, todo, cur, with, ndone, spin, lock, signalled>>
  BY Zenon DEF create, MayUse, Mine, vdm_generic_operation, workers, callers, sync
<1>1. tdata[f] = NewData /\ FutureInv(f) /\ MovedInv(f) /\ TypeOK
  BY <1>0, Pointers, Zenon DEF FutureInv
<1>t. /\ state \in [Futs -> {"none", "IDLE", "RUNNING", "COMPLETE"}]
      /\ property \in [Futs -> {"async", "default", NULL}]
      /\ block \in [Futs -> {"none", "live", "freed"}]
      /\ tdata \in [Futs -> TData]
  BY <1>1, Zenon DEF TypeOK, DMTypeOK, TData
<1>2. tdata' = tdata
  <2>1. [tdata EXCEPT ![f] = NewData] = tdata
    BY <1>1, <1>t, Zenon
  <2> QED
    BY <1>0, <2>1, Zenon
<1>3. /\ state'[f] \in {"IDLE", "COMPLETE"}
      /\ state'[f] = "IDLE" => block'[f] = "live"
      /\ \A g \in Futs \ {f} : state'[g] = state[g] /\ block'[g] = block[g]
      /\ state' \in [Futs -> {"none", "IDLE", "RUNNING", "COMPLETE"}]
      /\ property' \in [Futs -> {"async", "default", NULL}]
      /\ block' \in [Futs -> {"none", "live", "freed"}]
  <2>1. CASE /\ block' = [block EXCEPT ![f] = "live"]
             /\ state' = [state EXCEPT ![f] = "IDLE"]
             /\ property' = [property EXCEPT ![f] = IF f \in SyncFuts THEN "default" ELSE "async"]
    BY <1>t, <2>1, Zenon
  <2>2. CASE /\ state' = [state EXCEPT ![f] = "COMPLETE"]
             /\ property' = [property EXCEPT ![f] = IF f \in SyncFuts THEN NULL ELSE "async"]
             /\ UNCHANGED block
    BY <1>t, <2>2, Zenon
  <2> QED
    BY <1>0, <2>1, <2>2, Zenon
<1>4. TypeOK'
  BY <1>0, <1>1, <1>2, <1>3, Zenon DEF TypeOK, DMTypeOK
<1>5. MoverInv' /\ \A w \in Workers : WorkerInv(w)'
  <2>1. MoverInv'
    BY <1>0, <1>2, Pointers, Zenon DEF MoverInv
  <2>2. ASSUME NEW w \in Workers PROVE WorkerInv(w)'
    <3>1. WorkerInv(w)
      BY Pointers, Zenon
    <3> QED
      BY <1>0, <1>2, <3>1, Zenon DEF WorkerInv
  <2> QED
    BY <2>1, <2>2, Zenon
<1>6. \A d \in Callers : CallerInv(d)' /\ CountInv(d)'
  <2> SUFFICES ASSUME NEW d \in Callers PROVE CallerInv(d)' /\ CountInv(d)'
    BY Zenon
  <2>0. CallerInv(d) /\ CountInv(d)
    BY Pointers, Zenon
  <2>1. CallerInv(d) /\ CountInv(d) /\ batch[d] \subseteq Futs /\ cur[d] \in Futs \cup {NULL}
    BY <1>1, <2>0, Zenon DEF TypeOK
  <2>2. \A g \in batch[d] : state'[g] = state[g]
    <3> SUFFICES ASSUME NEW g \in batch[d] PROVE g \in Futs /\ g # f
      BY <1>3, Zenon
    <3> QED
      BY <1>0, <2>1, Zenon DEF CallerInv
  <2>3. cur[d] # NULL => state'[cur[d]] = state[cur[d]]
    <3> SUFFICES ASSUME cur[d] # NULL PROVE cur[d] \in Futs /\ cur[d] # f
      BY <1>3, Zenon
    <3> QED
      BY <1>0, <2>1, Zenon DEF CallerInv
  <2>4. Completed(d)' = Completed(d)
    BY <1>0, <2>2, Zenon DEF Completed
  <2>5. CallerInv(d)'
    BY <1>0, <1>2, <2>1, <2>2, <2>3, ZenonT(30) DEF CallerInv
  <2> QED
    BY <1>0, <2>1, <2>4, <2>5, Zenon DEF CountInv
<1>7. \A g \in Futs : Underway(g)' <=> Underway(g)
  BY <1>0, Zenon DEF Underway
<1>8. \A g \in Futs : FutureInv(g)' /\ MovedInv(g)'
  <2> SUFFICES ASSUME NEW g \in Futs PROVE FutureInv(g)' /\ MovedInv(g)'
    BY Zenon
  <2>1. FutureInv(g) /\ MovedInv(g) /\ (Underway(g)' <=> Underway(g))
    BY <1>7, Pointers, Zenon
  <2>2. CASE g = f
    <3>1. ~Underway(f) /\ ~tdata[f].complete /\ tdata[f].waker = NULL /\ moved[f] = 0
      <4>1. ~tdata[f].complete /\ tdata[f].waker = NULL
        BY <1>1 DEF NewData
      <4>2. ~Underway(f)
        BY <1>0, <1>1, Zenon DEF FutureInv
      <4> QED
        BY <1>0, <1>1, <4>1, <4>2, ZenonT(30) DEF MovedInv
    <3>2. NULL \notin Callers
      BY FutsAssumption, Zenon
    <3>3. FutureInv(f)'
      BY <1>0, <1>1, <1>2, <1>3, <2>1, <2>2, <3>1, <3>2, Zenon DEF FutureInv
    <3>4. MovedInv(f)'
      BY <1>0, <1>1, <1>2, <1>3, <2>1, <2>2, <3>1, Zenon DEF MovedInv, Underway
    <3> QED
      BY <2>2, <3>3, <3>4, Zenon
  <2>3. CASE g # f
    <3>1. state'[g] = state[g] /\ block'[g] = block[g]
      BY <1>3, <2>3, Zenon
    <3>2. FutureInv(g)'
      BY <1>0, <1>2, <2>1, <3>1, Zenon DEF FutureInv
    <3> QED
      BY <1>0, <1>2, <2>1, <3>1, <3>2, Zenon DEF MovedInv
  <2> QED
    BY <2>2, <2>3, Zenon
<1> QED
  BY <1>4, <1>5, <1>6, <1>8, Zenon DEF RuntimeInv

\* data_mover_threads_delete, step by step.
LEMMA DeleteSteps ==
  ASSUME RuntimeInv, delete \/ delete_step
  PROVE  RuntimeInv'
<1> USE Pointers
<1>0. UNCHANGED <<state, property, tdata, moved, queue, at, job>>
  BY Zenon DEF delete, delete_step, delete_begin, delete_stopped, delete_free, futures, workers
<1>1. UNCHANGED <<pc, batch, todo, cur, with, ndone, spin, lock, signalled>>
  BY Zenon DEF delete, delete_step, callers, sync
<1>2. /\ mover # "deleted" /\ mover' \in {"stopping", "stopped", "deleted"}
      /\ mover' = "deleted" =>
           /\ mover = "stopped" /\ \A w \in Workers : at[w] = "exited"
           /\ block' = [f \in Futs |-> IF f \in Async /\ block[f] = "live"
                                       THEN "freed" ELSE block[f]]
      /\ mover' # "deleted" => block' = block
      /\ mover' = "stopped" => queue = {} /\ mover = "stopping"
      /\ mover' = "stopping" => mover = "up" /\ \A c \in Callers : pc[c] = "out"
  BY Zenon DEF delete, delete_step, delete_begin, delete_stopped, delete_free, futures, workers
<1>3. block' \in [Futs -> {"none", "live", "freed"}]
  BY <1>2, Zenon DEF TypeOK, DMTypeOK
<1>4. TypeOK'
  BY <1>0, <1>1, <1>2, <1>3, Zenon DEF TypeOK, DMTypeOK
<1>5. MoverInv'
  BY <1>0, <1>1, <1>2, Zenon DEF MoverInv
<1>6. \A w \in Workers : WorkerInv(w)'
  BY <1>0, <1>2, Zenon DEF WorkerInv
<1>7. \A c \in Callers : CallerInv(c)' /\ CountInv(c)'
  <2> SUFFICES ASSUME NEW c \in Callers PROVE CallerInv(c)' /\ CountInv(c)'
    BY Zenon
  <2>1. CallerInv(c) /\ CountInv(c)
    BY Zenon
  <2> HIDE Pointers
  <2>2. CallerInv(c)'
    BY <1>0, <1>1, <2>1, Zenon DEF CallerInv
  <2> QED
    BY <1>0, <1>1, <2>1, <2>2, Zenon DEF CountInv, Completed
<1>8. \A f \in Futs : (Underway(f)' <=> Underway(f)) /\ (f \in SyncFuts => block'[f] = block[f])
  BY <1>0, <1>2, Zenon DEF Underway, Async
<1>9. \A f \in Futs : FutureInv(f)' /\ MovedInv(f)'
  <2> SUFFICES ASSUME NEW f \in Futs PROVE FutureInv(f)' /\ MovedInv(f)'
    BY Zenon
  <2>1. FutureInv(f) /\ MovedInv(f) /\ (Underway(f)' <=> Underway(f))
    BY <1>8, Zenon
  <2>2. /\ f \in SyncFuts => block'[f] = block[f]
        /\ mover' # "deleted" => block' = block
    BY <1>2, <1>8, Zenon
  <2> HIDE Pointers
  <2>3. FutureInv(f)'
    BY <1>0, <1>1, <1>2, <2>1, <2>2, Zenon DEF FutureInv
  <2> QED
    BY <1>0, <1>1, <2>1, <2>3, Zenon DEF MovedInv
<1> QED
  BY <1>4, <1>5, <1>6, <1>7, <1>9, Zenon DEF RuntimeInv

-----------------------------------------------------------------------------
\* What a worker does to an operation that is under way, setting complete
\* included, disturbs nothing that is said about callers and futures.
LEMMA WorkerAlone ==
  ASSUME RuntimeInv,
         UNCHANGED <<state, block, mover, pc, batch, todo, cur, with, ndone>>,
         \A g \in Futs :
           /\ Underway(g)' => Underway(g)
           /\ tdata'[g] = tdata[g] \/ (Underway(g) /\ ~Underway(g)')
           /\ tdata'[g].started = tdata[g].started /\ tdata'[g].waker = tdata[g].waker
           /\ tdata'[g].notifier = tdata[g].notifier
           /\ tdata[g].complete => tdata'[g].complete
  PROVE  /\ \A c \in Callers : CallerInv(c)' /\ CountInv(c)'
         /\ \A g \in Futs : FutureInv(g)'
<1>1. ASSUME NEW c \in Callers PROVE CallerInv(c)' /\ CountInv(c)'
  <2>1. CallerInv(c) /\ CountInv(c) /\ cur[c] \in Futs \cup {NULL}
    BY Pointers, Zenon DEF TypeOK
  <2>2. pc[c] = "check" => cur[c] \in Futs
    BY Pointers, Zenon DEF Polling
  <2>3. CallerInv(c)'
    BY <2>1, <2>2, Zenon DEF CallerInv
  <2> QED
    BY <2>1, <2>3, Zenon DEF CountInv, Completed
<1>2. ASSUME NEW g \in Futs PROVE FutureInv(g)'
  <2>1. FutureInv(g)
    BY Pointers, Zenon
  <2>2. CASE tdata'[g] = tdata[g]
    BY <2>1, <2>2, Zenon DEF FutureInv
  <2>3. CASE Underway(g) /\ ~Underway(g)'
    BY <2>1, <2>3, Zenon DEF FutureInv
  <2> QED
    BY <2>2, <2>3, Zenon
<1> QED
  BY <1>1, <1>2, Zenon

\* The worker that calls a waker.
LEMMA WakeSteps ==
  ASSUME RuntimeInv, NEW w \in Workers,
         wake_user(w) \/ wake_lock(w) \/ wake_signal(w) \/ wake_unlock(w)
  PROVE  RuntimeInv'
<1>0. /\ at[w] \in {"wake", "signal", "unlock"}
      /\ \E l \in {"signal", "unlock", "complete"} : at' = [at EXCEPT ![w] = l]
      /\ UNCHANGED <<state, property, block, tdata, moved, queue, job, mover>>
      /\ UNCHANGED <<pc, batch, todo, cur, with, ndone, spin>>
  BY Zenon DEF wake_user, wake_lock, wake_signal, wake_unlock, futures, callers
<1>1. TypeOK /\ MoverInv /\ WorkerInv(w) /\ job[w] \in Async /\ at'[w] # "operation"
      /\ at'[w] \in {"signal", "unlock", "complete"}
      /\ \A v \in Workers \ {w} : at'[v] = at[v]
  BY <1>0, Pointers, Zenon DEF TypeOK, DMTypeOK
<1>2. TypeOK'
  <2>1. lock' \in [Callers -> Callers \cup Workers \cup {NULL}]
    BY <1>1, Zenon DEF wake_user, wake_lock, wake_signal, wake_unlock, sync, TypeOK
  <2>2. signalled' \in [Callers -> BOOLEAN]
    <3>1. (pc[WakerOf(w)] = "asleep") \in BOOLEAN /\ signalled \in [Callers -> BOOLEAN]
      BY <1>1, Zenon DEF TypeOK
    <3>2. signalled' = signalled \/ signalled' = [signalled EXCEPT ![WakerOf(w)] = pc[WakerOf(w)] = "asleep"]
      BY Zenon DEF wake_user, wake_lock, wake_signal, wake_unlock, sync
    <3> QED
      BY <3>1, <3>2, Zenon
  <2>3. DMTypeOK'
    <3>1. at \in [Workers -> {"dequeue", "operation", "wake", "signal", "unlock",
                              "complete", "exited"}]
      BY <1>1, Zenon DEF TypeOK, DMTypeOK
    <3>2. at' \in [Workers -> {"dequeue", "operation", "wake", "signal", "unlock",
                               "complete", "exited"}]
      BY <1>0, <3>1, Zenon
    <3> QED
      BY <1>0, <1>1, <3>2, Zenon DEF TypeOK, DMTypeOK
  <2> QED
    BY <1>0, <1>1, <2>1, <2>2, <2>3, Zenon DEF TypeOK
<1>3. MoverInv'
  BY <1>0, <1>1, Zenon DEF MoverInv
<1>4. \A v \in Workers : WorkerInv(v)'
  <2> SUFFICES ASSUME NEW v \in Workers PROVE WorkerInv(v)'
    BY Zenon
  <2>1. WorkerInv(v)
    BY Pointers, Zenon
  <2>2. CASE v = w
    BY <1>0, <1>1, <2>1, <2>2, Zenon DEF WorkerInv
  <2>3. CASE v # w
    <3>1. at'[v] = at[v]
      BY <1>1, <2>3, Zenon
    <3> QED
      BY <1>0, <2>1, <3>1, Zenon DEF WorkerInv
  <2> QED
    BY <2>2, <2>3, Zenon
<1>5. \A g \in Futs : Underway(g)' <=> Underway(g)
  BY <1>0, Zenon DEF Underway
<1>6. \A g \in Futs : MovedInv(g)'
  <2> SUFFICES ASSUME NEW g \in Futs PROVE MovedInv(g)'
    BY Zenon
  <2>1. MovedInv(g) /\ (Underway(g)' <=> Underway(g))
    BY <1>5, Pointers, Zenon
  <2>2. \A v \in Workers : job[v] = g => moved[g] = IF at'[v] = "operation" THEN 0 ELSE 1
    BY <1>0, <1>1, <2>1, Zenon DEF MovedInv
  <2> QED
    BY <1>0, <2>1, <2>2, Zenon DEF MovedInv
<1>7. /\ \A c \in Callers : CallerInv(c)' /\ CountInv(c)'
      /\ \A g \in Futs : FutureInv(g)'
  <2>1. /\ UNCHANGED <<state, block, mover, pc, batch, todo, cur, with, ndone>>
        /\ tdata' = tdata
    BY <1>0, Zenon
  <2> QED
    BY <1>5, <2>1, WorkerAlone, Zenon
<1> QED
  BY <1>2, <1>3, <1>4, <1>6, <1>7, Zenon DEF RuntimeInv

\* The steps of data_mover_threads_loop and data_mover_threads_do_operation.
LEMMA DequeueSteps ==
  ASSUME RuntimeInv, NEW w \in Workers, NEW f \in Futs, worker_dequeue(w, f),
         UNCHANGED <<callers, sync>>
  PROVE  RuntimeInv'
<1>0. /\ at[w] = "dequeue" /\ f \in queue
      /\ queue' = queue \ {f}
      /\ job' = [job EXCEPT ![w] = f]
      /\ at' = [at EXCEPT ![w] = "operation"]
      /\ UNCHANGED <<state, property, block, tdata, moved, mover>>
      /\ UNCHANGED <<pc, batch, todo, cur, with, ndone, spin, lock, signalled>>
  BY Zenon DEF worker_dequeue, futures, callers, sync
<1>1. /\ TypeOK /\ MoverInv /\ WorkerInv(w) /\ job[w] = NULL
      /\ f \in Async /\ f # NULL /\ MovedInv(f)
  <2>1. TypeOK /\ MoverInv /\ WorkerInv(w) /\ MovedInv(f)
    BY Pointers, Zenon
  <2> QED
    BY <1>0, <2>1, FutsAssumption, Zenon DEF WorkerInv, TypeOK, DMTypeOK, Async
<1>2. /\ at'[w] = "operation" /\ job'[w] = f
      /\ \A v \in Workers \ {w} : at'[v] = at[v] /\ job'[v] = job[v]
  BY <1>0, <1>1, Zenon DEF TypeOK, DMTypeOK
<1>3. TypeOK'
  <2>1. DMTypeOK'
    BY <1>0, <1>1, Zenon DEF TypeOK, DMTypeOK
  <2> QED
    BY <1>0, <1>1, <2>1, Zenon DEF TypeOK
<1>4. MoverInv'
  <2>1. mover # "deleted"
    BY <1>0, <1>1, Zenon DEF MoverInv
  <2> QED
    BY <1>0, <1>1, <2>1, Zenon DEF MoverInv
<1>5. \A v \in Workers : job[v] # f
  <2> SUFFICES ASSUME NEW v \in Workers PROVE job[v] # f
    BY Zenon
  <2>1. WorkerInv(v)
    BY Pointers, Zenon
  <2> QED
    BY <1>0, <2>1, Zenon DEF WorkerInv
<1>6. \A v \in Workers : WorkerInv(v)'
  <2> SUFFICES ASSUME NEW v \in Workers PROVE WorkerInv(v)'
    BY Zenon
  <2>1. WorkerInv(v)
    BY Pointers, Zenon
  <2>2. CASE v = w
    <3>1. f \notin queue'
      BY <1>0, Zenon
    <3>2. \A u \in Workers : job'[u] = f => u = w
      BY <1>2, <1>5, ZenonT(30)
    <3> QED
      BY <1>1, <1>2, <2>2, <3>1, <3>2, Zenon DEF WorkerInv
  <2>3. CASE v # w
    <3>1. at'[v] = at[v] /\ job'[v] = job[v]
      BY <1>2, <2>3, Zenon
    <3> QED
      BY <1>0, <1>2, <1>5, <2>1, <2>3, <3>1 DEF WorkerInv
  <2> QED
    BY <2>2, <2>3, Zenon
<1>7. \A g \in Futs : Underway(g)' <=> Underway(g)
  <2> SUFFICES ASSUME NEW g \in Futs PROVE Underway(g)' <=> Underway(g)
    BY Zenon
  <2>1. CASE g = f
    BY <1>0, <1>2, <2>1, Zenon DEF Underway
  <2>2. CASE g # f
    <3>1. \A v \in Workers : job'[v] = g <=> job[v] = g
      BY <1>1, <1>2, <2>2, FutsAssumption, Zenon
    <3> QED
      BY <1>0, <2>2, <3>1, Zenon DEF Underway
  <2> QED
    BY <2>1, <2>2, Zenon
<1>8. \A g \in Futs : MovedInv(g)'
  <2> SUFFICES ASSUME NEW g \in Futs PROVE MovedInv(g)'
    BY Zenon
  <2>1. MovedInv(g) /\ (Underway(g)' <=> Underway(g))
    BY <1>7, Pointers, Zenon
  <2>2. \A v \in Workers : job'[v] = g => moved[g] = IF at'[v] = "operation" THEN 0 ELSE 1
    BY <1>0, <1>1, <1>2, <2>1 DEF MovedInv
  <2> QED
    BY <1>0, <2>1, <2>2, Zenon DEF MovedInv
<1>9. /\ \A c \in Callers : CallerInv(c)' /\ CountInv(c)'
      /\ \A g \in Futs : FutureInv(g)'
  BY <1>0, <1>7, WorkerAlone, Zenon
<1> QED
  BY <1>3, <1>4, <1>6, <1>8, <1>9, Zenon DEF RuntimeInv

\* A worker performs the operation it has dequeued, or leaves its loop.
LEMMA OperationSteps ==
  ASSUME RuntimeInv, NEW w \in Workers, worker_operation(w) \/ worker_exit(w),
         UNCHANGED <<callers, sync>>
  PROVE  RuntimeInv'
<1>0. /\ UNCHANGED <<state, property, block, tdata, queue, job, mover>>
      /\ UNCHANGED <<pc, batch, todo, cur, with, ndone, spin, lock, signalled>>
  BY Zenon DEF worker_operation, worker_exit, futures, callers, sync
<1>1. TypeOK /\ MoverInv /\ WorkerInv(w)
  BY Pointers, Zenon
<1>2. CASE worker_operation(w)
  <2>f. PICK f \in Async : f = job[w]
    BY <1>2, Pointers, Zenon DEF worker_operation
  <2>0. /\ at[w] = "operation" /\ moved' = [moved EXCEPT ![f] = @ + 1]
        /\ at' = [at EXCEPT ![w] = IF tdata[f].notifier = "WAKER" THEN "wake" ELSE "complete"]
        /\ f \in Futs
    BY <1>2, <2>f, Zenon DEF worker_operation, AfterOperation, Async
  <2>1. moved[f] = 0
    BY <2>0, <2>f, Pointers, Zenon DEF MovedInv
  <2>2. /\ at'[w] = IF tdata[f].notifier = "WAKER" THEN "wake" ELSE "complete"
        /\ \A v \in Workers \ {w} : at'[v] = at[v]
        /\ moved'[f] = 1
        /\ \A g \in Futs \ {f} : moved'[g] = moved[g]
        /\ moved' \in [Futs -> Nat]
    <3>1. moved \in [Futs -> Nat]
      BY <1>1, Zenon DEF TypeOK, DMTypeOK
    <3>2. moved' = [moved EXCEPT ![f] = 1]
      BY <2>0, <2>1, <3>1
    <3>3. /\ at'[w] = IF tdata[f].notifier = "WAKER" THEN "wake" ELSE "complete"
          /\ \A v \in Workers \ {w} : at'[v] = at[v]
      BY <1>1, <2>0, Zenon DEF TypeOK, DMTypeOK
    <3> QED
      BY <2>0, <3>1, <3>2, <3>3
  <2>3. TypeOK'
    <3>1. at' \in [Workers -> {"dequeue", "operation", "wake", "signal", "unlock",
                               "complete", "exited"}]
      BY <1>1, <2>0, Zenon DEF TypeOK, DMTypeOK
    <3>3. DMTypeOK'
      BY <1>0, <1>1, <2>2, <3>1, Zenon DEF TypeOK, DMTypeOK
    <3> QED
      BY <1>0, <1>1, <3>3, Zenon DEF TypeOK
  <2>4. MoverInv'
    BY <1>0, <1>1, <2>0, Zenon DEF MoverInv
  <2>5. \A v \in Workers : WorkerInv(v)'
    <3> SUFFICES ASSUME NEW v \in Workers PROVE WorkerInv(v)'
      BY Zenon
    <3>1. WorkerInv(v)
      BY Pointers, Zenon
    <3>2. CASE v = w
      BY <1>0, <2>f, <2>0, <2>2, <3>1, <3>2 DEF WorkerInv
    <3>3. CASE v # w
      <4>1. at'[v] = at[v]
        BY <2>2, <3>3, Zenon
      <4> QED
        BY <1>0, <3>1, <4>1, Zenon DEF WorkerInv
    <3> QED
      BY <3>2, <3>3, Zenon
  <2>6. \A g \in Futs : Underway(g)' <=> Underway(g)
    BY <1>0, Zenon DEF Underway
  <2>7. \A g \in Futs : MovedInv(g)'
    <3> SUFFICES ASSUME NEW g \in Futs PROVE MovedInv(g)'
      BY Zenon
    <3>1. MovedInv(g) /\ (Underway(g)' <=> Underway(g))
      BY <2>6, Pointers, ZenonT(30)
    <3>2. CASE g = f
      <4>1. Underway(f) /\ f \notin queue /\ \A v \in Workers : job[v] = f => v = w
        BY <1>1, <2>f, <2>0, FutsAssumption, Zenon DEF Underway, WorkerInv
      <4> QED
        BY <1>0, <2>2, <3>1, <3>2, <4>1 DEF MovedInv
    <3>3. CASE g # f
      <4>1. moved'[g] = moved[g] /\ \A v \in Workers : job[v] = g => at'[v] = at[v]
        BY <2>f, <2>2, <3>3, Zenon
      <4> QED
        BY <1>0, <3>1, <4>1, Zenon DEF MovedInv
    <3> QED
      BY <3>2, <3>3, Zenon
  <2>8. /\ \A c \in Callers : CallerInv(c)' /\ CountInv(c)'
        /\ \A g \in Futs : FutureInv(g)'
    BY <1>0, <2>6, WorkerAlone, Zenon
  <2> QED
    BY <2>3, <2>4, <2>5, <2>7, <2>8, Zenon DEF RuntimeInv
<1>3. CASE worker_exit(w)
  <2>0. /\ at[w] = "dequeue" /\ mover = "stopped" /\ moved' = moved
        /\ at' = [at EXCEPT ![w] = "exited"]
    BY <1>3, Zenon DEF worker_exit, futures
  <2>1. job[w] = NULL /\ at'[w] = "exited" /\ \A v \in Workers \ {w} : at'[v] = at[v]
    BY <1>1, <2>0, Zenon DEF WorkerInv, TypeOK, DMTypeOK
  <2>2. TypeOK'
    <3>1. DMTypeOK'
      BY <1>0, <1>1, <2>0, Zenon DEF TypeOK, DMTypeOK
    <3> QED
      BY <1>0, <1>1, <3>1, Zenon DEF TypeOK
  <2>3. MoverInv'
    BY <1>0, <1>1, <2>0, Zenon DEF MoverInv
  <2>4. \A v \in Workers : WorkerInv(v)'
    <3> SUFFICES ASSUME NEW v \in Workers PROVE WorkerInv(v)'
      BY Zenon
    <3>1. WorkerInv(v)
      BY Pointers, Zenon
    <3>2. CASE v = w
      BY <1>0, <2>0, <2>1, <3>1, <3>2, Zenon DEF WorkerInv
    <3>3. CASE v # w
      <4>1. at'[v] = at[v]
        BY <2>1, <3>3, Zenon
      <4> QED
        BY <1>0, <3>1, <4>1, Zenon DEF WorkerInv
    <3> QED
      BY <3>2, <3>3, Zenon
  <2>5. \A g \in Futs : Underway(g)' <=> Underway(g)
    BY <1>0, Zenon DEF Underway
  <2>6. \A g \in Futs : MovedInv(g)'
    <3> SUFFICES ASSUME NEW g \in Futs PROVE MovedInv(g)'
      BY Zenon
    <3>1. MovedInv(g) /\ (Underway(g)' <=> Underway(g))
      BY <2>5, Pointers, Zenon
    <3>2. \A v \in Workers : job[v] = g => at'[v] = at[v]
      BY <2>1, FutsAssumption, Zenon
    <3> QED
      BY <1>0, <2>0, <3>1, <3>2, Zenon DEF MovedInv
  <2>7. /\ \A c \in Callers : CallerInv(c)' /\ CountInv(c)'
        /\ \A g \in Futs : FutureInv(g)'
    BY <1>0, <2>5, WorkerAlone, Zenon
  <2> QED
    BY <2>2, <2>3, <2>4, <2>6, <2>7, Zenon DEF RuntimeInv
<1> QED
  BY <1>2, <1>3, Zenon

\* The store that ends an operation: the worker has let go of it, and nobody
\* else has it.
LEMMA StoreSteps ==
  ASSUME RuntimeInv, NEW w \in Workers, worker_complete(w), UNCHANGED <<callers, sync>>
  PROVE  RuntimeInv'
<1>f. PICK f \in Async : f = job[w]
  BY Pointers, Zenon DEF worker_complete
<1>0. /\ at[w] = "complete"
      /\ tdata' = [tdata EXCEPT ![f].complete = TRUE]
      /\ job' = [job EXCEPT ![w] = NULL]
      /\ at' = [at EXCEPT ![w] = "dequeue"]
      /\ UNCHANGED <<state, property, block, moved, queue, mover>>
      /\ UNCHANGED <<pc, batch, todo, cur, with, ndone, spin, lock, signalled>>
  BY <1>f, Zenon DEF worker_complete, callers, sync
<1>1. TypeOK /\ MoverInv /\ WorkerInv(w) /\ MovedInv(f) /\ f \in Futs /\ f # NULL
  BY Pointers, FutsAssumption, Zenon DEF Async
<1>2. /\ at'[w] = "dequeue" /\ job'[w] = NULL
      /\ \A v \in Workers \ {w} : at'[v] = at[v] /\ job'[v] = job[v]
  BY <1>0, <1>1, Zenon DEF TypeOK, DMTypeOK
<1>3. /\ tdata' \in [Futs -> TData] /\ tdata'[f].complete
      /\ tdata'[f].started = tdata[f].started /\ tdata'[f].waker = tdata[f].waker
      /\ tdata'[f].notifier = tdata[f].notifier
      /\ \A g \in Futs \ {f} : tdata'[g] = tdata[g]
  <2>1. tdata \in [Futs -> TData]
    BY <1>1, Zenon DEF TypeOK, DMTypeOK, TData
  <2> QED
    BY <1>0, <1>1, <2>1, Zenon DEF TData
<1>4. TypeOK'
  <2>1. DMTypeOK'
    BY <1>0, <1>1, <1>3, Zenon DEF TypeOK, DMTypeOK, TData
  <2> QED
    BY <1>0, <1>1, <2>1, Zenon DEF TypeOK
<1>5. MoverInv'
  BY <1>0, <1>1, Zenon DEF MoverInv
<1>6. \A v \in Workers : WorkerInv(v)'
  <2> SUFFICES ASSUME NEW v \in Workers PROVE WorkerInv(v)'
    BY Zenon
  <2>1. WorkerInv(v) /\ queue \subseteq Futs /\ job[v] \in Futs \cup {NULL}
    BY Pointers, Zenon DEF TypeOK, DMTypeOK, Async
  <2>2. CASE v = w
    BY <1>0, <1>1, <1>2, <2>1, <2>2, FutsAssumption DEF WorkerInv
  <2>3. CASE v # w
    <3>1. at'[v] = at[v] /\ job'[v] = job[v]
      BY <1>2, <2>3, Zenon
    <3>2. job[v] # f
      BY <1>f, <1>1, <2>3, Zenon DEF WorkerInv
    <3>3. at[v] \in {"wake", "signal", "unlock"} => tdata'[job[v]].notifier = "WAKER"
      BY <1>3, <2>1, <3>2, Zenon DEF WorkerInv
    <3> QED
      BY <1>0, <1>2, <2>1, <2>3, <3>1, <3>3 DEF WorkerInv
  <2> QED
    BY <2>2, <2>3, Zenon
<1>7. /\ Underway(f) /\ ~Underway(f)' /\ f \notin queue
      /\ \A g \in Futs \ {f} : Underway(g)' <=> Underway(g)
  <2>1. f \notin queue /\ \A v \in Workers : job[v] = f <=> v = w
    BY <1>f, <1>1, Zenon DEF WorkerInv
  <2>2. \A g \in Futs \ {f} : \A v \in Workers : job'[v] = g <=> job[v] = g
    BY <1>f, <1>2, FutsAssumption, Zenon
  <2>3. \A v \in Workers : job'[v] # f
    BY <1>1, <1>2, <2>1, Zenon
  <2> QED
    BY <1>0, <1>1, <2>1, <2>2, <2>3, Zenon DEF Underway
<1>8. \A g \in Futs : MovedInv(g)'
  <2> SUFFICES ASSUME NEW g \in Futs PROVE MovedInv(g)'
    BY Zenon
  <2>1. MovedInv(g)
    BY Pointers, Zenon
  <2>2. CASE g = f
    <3>1. moved[f] = 1 /\ \A v \in Workers : job'[v] # f
      BY <1>f, <1>0, <1>1, <1>7, Zenon DEF MovedInv, Underway
    <3> QED
      BY <1>0, <1>3, <1>7, <2>2, <3>1 DEF MovedInv
  <2>3. CASE g # f
    <3>1. \A v \in Workers : job'[v] = g => job[v] = g /\ at'[v] = at[v]
      BY <1>2, FutsAssumption, Zenon
    <3>2. tdata'[g] = tdata[g] /\ (Underway(g)' <=> Underway(g))
      BY <1>3, <1>7, <2>3, Zenon
    <3> QED
      BY <1>0, <2>1, <3>1, <3>2, Zenon DEF MovedInv
  <2> QED
    BY <2>2, <2>3, Zenon
<1>9. /\ \A c \in Callers : CallerInv(c)' /\ CountInv(c)'
      /\ \A g \in Futs : FutureInv(g)'
  <2>1. \A g \in Futs :
          /\ Underway(g)' => Underway(g)
          /\ tdata'[g] = tdata[g] \/ (Underway(g) /\ ~Underway(g)')
          /\ tdata'[g].started = tdata[g].started /\ tdata'[g].waker = tdata[g].waker
          /\ tdata'[g].notifier = tdata[g].notifier
          /\ tdata[g].complete => tdata'[g].complete
    <3> TAKE g \in Futs
    <3>1. CASE g = f
      BY <1>3, <1>7, <3>1, Zenon
    <3>2. CASE g # f
      BY <1>3, <1>7, <3>2, Zenon
    <3> QED
      BY <3>1, <3>2, Zenon
  <2> QED
    BY <1>0, <2>1, WorkerAlone, Zenon
<1> QED
  BY <1>4, <1>5, <1>6, <1>8, <1>9, Zenon DEF RuntimeInv

-----------------------------------------------------------------------------
\* Every step of the system preserves the invariant.
LEMMA RuntimeStep == RuntimeInv /\ [Next]_vars => RuntimeInv'
<1> SUFFICES ASSUME RuntimeInv, [Next]_vars PROVE RuntimeInv'
  BY Zenon
<1>1. ASSUME NEW c \in Callers, create(c) \/ poll_by_hand(c) \/ runtime_wait_multiple(c)
      PROVE  RuntimeInv'
  BY <1>1, CreateSteps, LoopSteps, Zenon
<1>2. ASSUME NEW c \in Callers, CallStep(c) PROVE RuntimeInv'
  BY <1>2, LoopSteps, SleepSteps, StartSteps, StartedSteps, CompleteSteps, PendingSteps, Zenon
     DEF CallStep
<1>3. ASSUME NEW w \in Workers, WorkerStep(w) PROVE RuntimeInv'
  BY <1>3, DequeueSteps, OperationSteps, StoreSteps, WakeSteps, Zenon DEF WorkerStep
<1>4. CASE UNCHANGED vars
  <2>1. /\ UNCHANGED <<state, property, block, tdata, moved, queue, at, job, mover>>
        /\ UNCHANGED <<pc, batch, todo, cur, with, ndone, spin, lock, signalled>>
    BY <1>4, Zenon DEF vars, dmvars, futures, workers, callers, sync
  <2>2. DMTypeOK' /\ TypeOK'
    BY <1>4, <2>1, Pointers, DMSame, Zenon DEF vars, TypeOK
  <2>3. MoverInv' /\ \A w \in Workers : WorkerInv(w)'
    BY <2>1, Pointers, Zenon DEF MoverInv, WorkerInv
  <2>4. \A f \in Futs : Underway(f)' <=> Underway(f)
    BY <2>1, Zenon DEF Underway
  <2>5. \A f \in Futs : MovedInv(f)'
    BY <2>1, <2>4, Pointers, Zenon DEF MovedInv
  <2>6. /\ \A c \in Callers : CallerInv(c)' /\ CountInv(c)'
        /\ \A f \in Futs : FutureInv(f)'
    BY <2>1, <2>4, WorkerAlone, Zenon
  <2> QED
    BY <2>2, <2>3, <2>5, <2>6, Zenon DEF RuntimeInv
<1> QED
  BY <1>1, <1>2, <1>3, <1>4, DeleteSteps, Zenon DEF Next, Terminated

\* The inductive invariant holds in every reachable state.
LEMMA RuntimeAlways == Spec => []RuntimeInv
<1> QED
  BY RuntimeInit, RuntimeStep, PTL DEF Spec

\* The movers and the runtime keep their types and never touch an operation's
\* data after membuf_free: BlocksLive for every number of threads and futures.
THEOREM OperationDataIsLive == Spec => []BlocksLive
<1>1. RuntimeInv => BlocksLive
  <2> SUFFICES ASSUME RuntimeInv PROVE BlocksLive
    BY Zenon
  <2>1. \A f \in Futs : Underway(f) => block[f] = "live"
    <3> SUFFICES ASSUME NEW f \in Futs, Underway(f) PROVE block[f] = "live"
      BY Zenon
    <3>1. FutureInv(f)
      BY Pointers, Zenon
    <3>2. mover # "deleted"
      <4> SUFFICES ASSUME mover = "deleted" PROVE FALSE
        BY Zenon
      <4>1. queue = {} /\ \A w \in Workers : at[w] = "exited"
        BY Pointers, Zenon DEF MoverInv
      <4>2. \A w \in Workers : job[w] = NULL
        BY <4>1, Pointers, Zenon DEF WorkerInv
      <4> QED
        BY <4>1, <4>2, FutsAssumption, Zenon DEF Underway
    <3> QED
      BY <3>1, <3>2, Zenon DEF FutureInv
  <2>2. TypeOK /\ queue \subseteq Futs /\ job \in [Workers -> Futs \cup {NULL}]
    BY Pointers, Zenon DEF TypeOK, DMTypeOK, Async
  <2>3. \A c \in Callers : cur[c] # NULL => block[cur[c]] = "live"
    <3> SUFFICES ASSUME NEW c \in Callers, cur[c] # NULL PROVE block[cur[c]] = "live"
      BY Zenon
    <3>1. pc[c] \in Polling
      BY Pointers, Zenon DEF CallerInv
    <3> QED
      BY <3>1, Polled, Zenon
  <2> QED
    BY <2>1, <2>2, <2>3, Zenon DEF BlocksLive, Underway
<1> QED
  BY <1>1, RuntimeAlways, PTL

\* While a worker is about to call, or is in, a waker, the operation holds one
\* and the runtime_wait_multiple it belongs to has not returned.
THEOREM WakerFrameIsLive == Spec => []WakerFrameLive
<1>1. RuntimeInv => WakerFrameLive
  <2> SUFFICES ASSUME RuntimeInv, NEW w \in Workers, at[w] \in {"wake", "signal", "unlock"}
               PROVE  /\ WakerOf(w) # NULL
                      /\ WakerOf(w) \in Callers => job[w] \in batch[WakerOf(w)]
    BY Zenon DEF WakerFrameLive
  <2>1. job[w] \in Futs /\ WorkerInv(w) /\ Underway(job[w])
    BY Pointers, Zenon DEF Async, Underway
  <2>2. FutureInv(job[w]) /\ tdata[job[w]].notifier = "WAKER"
    BY <2>1, Pointers, Zenon DEF WorkerInv
  <2> QED
    BY <2>1, <2>2, Zenon DEF FutureInv, WakerOf
<1> QED
  BY <1>1, RuntimeAlways, PTL

-----------------------------------------------------------------------------
\* A step that changes no phase is a stuttering step of Operation.
LEMMA PhasesSame ==
  ASSUME \A f \in Futs : Phase(f)' = Phase(f), mover' = "deleted" <=> mover = "deleted"
  PROVE  UNCHANGED Abstract!ovars
BY Zenon DEF Abstract!ovars

\* The steps that Operation has, one future at a time.
LEMMA OnePhase ==
  ASSUME mover # "deleted", mover' = mover, NEW f \in Futs,
         \A g \in Futs \ {f} : Phase(g)' = Phase(g),
         \/ Phase(f) = "none" /\ Phase(f)' = "created"
         \/ Phase(f) = "none" /\ Phase(f)' = "failed"
         \/ Phase(f) = "created" /\ Phase(f)' = "submitted"
         \/ Phase(f) = "submitted" /\ Phase(f)' = "performed"
         \/ Phase(f) = "created" /\ Phase(f)' = "performed"
         \/ Phase(f) = "performed" /\ Phase(f)' = "complete"
  PROVE  Abstract!ONext
<1>1. [g \in Futs |-> Phase(g)]' = [[g \in Futs |-> Phase(g)] EXCEPT ![f] = Phase(f)']
  BY Zenon
<1> QED
  BY <1>1, Zenon DEF Abstract!ONext, Abstract!Become

\* Phase depends on three things only.
LEMMA PhaseFrame ==
  ASSUME NEW f \in Futs,
         state'[f] = "none" <=> state[f] = "none",
         state'[f] = "COMPLETE" <=> state[f] = "COMPLETE",
         moved'[f] = moved[f],
         moved[f] > 0 \/ (Underway(f)' <=> Underway(f))
  PROVE  Phase(f)' = Phase(f)
BY Zenon DEF Phase, Underway

\* What a future that has not been performed or is not complete is called.
LEMMA PhaseIs ==
  ASSUME NEW f \in Futs
  PROVE  /\ state[f] = "none" => Phase(f) = "none"
         /\ state[f] \in {"IDLE", "RUNNING"} /\ moved[f] = 1 => Phase(f) = "performed"
         /\ state[f] \in {"IDLE", "RUNNING"} /\ moved[f] = 0 =>
              Phase(f) = IF Underway(f) THEN "submitted" ELSE "created"
         /\ state'[f] \in {"IDLE", "RUNNING"} /\ moved'[f] = 1 => Phase(f)' = "performed"
         /\ state'[f] \in {"IDLE", "RUNNING"} /\ moved'[f] = 0 =>
              Phase(f)' = IF Underway(f)' THEN "submitted" ELSE "created"
         /\ state'[f] = "COMPLETE" /\ moved'[f] = 0 => Phase(f)' = "failed"
         /\ state'[f] = "COMPLETE" /\ moved'[f] = 1 => Phase(f)' = "complete"
BY DEF Phase, Underway

\* No future has been created.
LEMMA RefineInit == Init => Abstract!OInit
BY DEF Init, DMInit, Abstract!OInit, Phase

\* Steps of callers.
LEMMA RefineCaller ==
  ASSUME RuntimeInv, NEW c \in Callers,
         create(c) \/ poll_start(c) \/ poll_complete(c) \/ poll_pending(c)
  PROVE  [Abstract!ONext]_(Abstract!ovars)
<1>1. CASE create(c)
  <2>0. PICK f \in Futs :
          /\ mover = "up" /\ state[f] = "none"
          /\ state' = [state EXCEPT ![f] = "IDLE"] \/ state' = [state EXCEPT ![f] = "COMPLETE"]
          /\ UNCHANGED <<moved, queue, job, mover>>
    BY <1>1, Zenon DEF create, MayUse, Mine, vdm_generic_operation, workers
  <2>1. /\ state'[f] \in {"IDLE", "COMPLETE"} /\ moved[f] = 0
        /\ ~Underway(f) /\ ~Underway(f)'
        /\ \A g \in Futs \ {f} : state'[g] = state[g]
    <3>1. TypeOK /\ FutureInv(f) /\ MovedInv(f)
      BY Pointers, ZenonT(30)
    <3>2. ~Underway(f) /\ moved[f] = 0
      BY <2>0, <3>1 DEF FutureInv, MovedInv, NewData
    <3>3. state \in [Futs -> {"none", "IDLE", "RUNNING", "COMPLETE"}]
      BY <3>1, Zenon DEF TypeOK, DMTypeOK
    <3> QED
      BY <2>0, <3>2, <3>3, Zenon DEF Underway
  <2>2. \A g \in Futs \ {f} : Phase(g)' = Phase(g)
    BY <2>0, <2>1, PhaseFrame, Zenon DEF Underway
  <2>3. Phase(f) = "none" /\ Phase(f)' \in {"created", "failed"}
    BY <2>0, <2>1, PhaseIs, Zenon
  <2> QED
    BY <2>0, <2>2, <2>3, OnePhase, Zenon
<1>2. CASE poll_complete(c)
  <2>f. PICK f \in Futs : f = cur[c]
    BY <1>2, Polled, Zenon DEF poll_complete, Polling
  <2>0. /\ mover = "up" /\ state[f] \in {"IDLE", "RUNNING"} /\ MovedInv(f) /\ TypeOK
        /\ tdata[f].complete
        /\ state' = [state EXCEPT ![f] = "COMPLETE"]
        /\ UNCHANGED <<moved, queue, job, mover>>
    BY <1>2, <2>f, Polled, Zenon DEF poll_complete, check_complete, Polling
  <2>1. moved[f] = 1 /\ state'[f] = "COMPLETE" /\ \A g \in Futs \ {f} : state'[g] = state[g]
    BY <2>0, Zenon DEF MovedInv, TypeOK, DMTypeOK
  <2>2. \A g \in Futs \ {f} : Phase(g)' = Phase(g)
    BY <2>0, <2>1, PhaseFrame, Zenon DEF Underway
  <2>3. Phase(f) = "performed" /\ Phase(f)' = "complete"
    BY <2>0, <2>1, PhaseIs, Zenon
  <2> QED
    BY <2>0, <2>2, <2>3, OnePhase, Zenon
<1>3. CASE poll_pending(c)
  <2>f. PICK f \in Futs : f = cur[c]
    BY <1>3, Polled, Zenon DEF poll_pending, Polling
  <2>0. /\ state[f] \in {"IDLE", "RUNNING"} /\ TypeOK
        /\ state' = [state EXCEPT ![f] =
                       IF f \in Async /\ tdata[f].started THEN "RUNNING" ELSE "IDLE"]
        /\ UNCHANGED <<moved, queue, job, mover>>
    BY <1>3, <2>f, Polled, Zenon DEF poll_pending, check_started, Polling, workers
  <2>1. state'[f] \in {"IDLE", "RUNNING"} /\ \A g \in Futs \ {f} : state'[g] = state[g]
    BY <2>0, Zenon DEF TypeOK, DMTypeOK
  <2>2. \A g \in Futs : Phase(g)' = Phase(g)
    BY <2>0, <2>1, PhaseFrame, Zenon DEF Underway
  <2> QED
    BY <2>0, <2>2, PhasesSame, Zenon
<1>4. CASE poll_start(c)
  <2>f. PICK f \in Futs : f = cur[c]
    BY <1>4, Polled, Zenon DEF poll_start, Polling
  <2>0. /\ mover = "up" /\ state[f] \in {"IDLE", "RUNNING"} /\ pc[c] = "poll" /\ TypeOK
        /\ UNCHANGED <<state, job, mover>>
    BY <1>4, <2>f, Polled, Zenon
       DEF poll_start, start_enqueue, start_full, sync_operation_start, Polling,
           dmvars, futures, workers
  <2>1. CASE state[f] = "IDLE" /\ queue' = queue \cup {f} /\ moved' = moved
    <3>1. ~Underway(f) /\ moved[f] = 0
      BY <2>f, <2>0, <2>1, Startable, Zenon
    <3>2. \A g \in Futs \ {f} : Phase(g)' = Phase(g)
      BY <2>0, <2>1, PhaseFrame, Zenon DEF Underway
    <3>3. Underway(f)'
      BY <2>1, Zenon DEF Underway
    <3>4. Phase(f) = "created" /\ Phase(f)' = "submitted"
      BY <2>0, <2>1, <3>1, <3>3, PhaseIs, Zenon
    <3> QED
      BY <2>0, <3>2, <3>4, OnePhase, Zenon
  <2>2. CASE UNCHANGED <<queue, moved>>
    <3>1. \A g \in Futs : Phase(g)' = Phase(g)
      BY <2>0, <2>2, PhaseFrame, Zenon DEF Underway
    <3> QED
      BY <2>0, <3>1, PhasesSame, Zenon
  <2>3. CASE state[f] = "IDLE" /\ queue' = queue /\ moved' = [moved EXCEPT ![f] = @ + 1]
    <3>1. ~Underway(f) /\ moved[f] = 0
      BY <2>f, <2>0, <2>3, Startable, Zenon
    <3>2. moved'[f] = 1 /\ \A g \in Futs \ {f} : moved'[g] = moved[g]
      <4>1. moved \in [Futs -> Nat]
        BY <2>0, Zenon DEF TypeOK, DMTypeOK
      <4> QED
        BY <2>3, <3>1, <4>1
    <3>3. \A g \in Futs \ {f} : Phase(g)' = Phase(g)
      BY <2>0, <2>3, <3>2, PhaseFrame, Zenon DEF Underway
    <3>4. Phase(f) = "created" /\ Phase(f)' = "performed"
      BY <2>0, <3>1, <3>2, PhaseIs, Zenon
    <3> QED
      BY <2>0, <3>3, <3>4, OnePhase, Zenon
  <2> QED
    BY <1>4, <2>f, <2>1, <2>2, <2>3, Zenon
       DEF poll_start, start_enqueue, start_full, sync_operation_start, dmvars, futures, workers
<1> QED
  BY <1>1, <1>2, <1>3, <1>4, Zenon

\* Steps of workers.
LEMMA RefineWorker ==
  ASSUME RuntimeInv, NEW w \in Workers, WorkerStep(w)
  PROVE  [Abstract!ONext]_(Abstract!ovars)
<1>0. UNCHANGED <<state, mover>> /\ TypeOK /\ WorkerInv(w)
  BY Pointers, Zenon
     DEF WorkerStep, worker_dequeue, worker_operation, worker_complete, worker_exit,
         wake_user, wake_lock, wake_signal, wake_unlock, futures
<1>1. CASE worker_operation(w)
  <2>f. PICK f \in Async : f = job[w]
    BY <1>1, Pointers, Zenon DEF worker_operation
  <2>0. /\ f \in Futs /\ at[w] = "operation" /\ Underway(f)
        /\ moved' = [moved EXCEPT ![f] = @ + 1] /\ UNCHANGED <<queue, job>>
    BY <1>1, <2>f, Zenon DEF worker_operation, Underway, Async
  <2>1. moved[f] = 0 /\ state[f] \in {"IDLE", "RUNNING"} /\ mover # "deleted"
    <3>1. FutureInv(f) /\ MovedInv(f) /\ MoverInv
      BY <2>0, Pointers, Zenon
    <3> QED
      BY <2>f, <2>0, <3>1, Zenon DEF FutureInv, MovedInv, MoverInv
  <2>2. moved'[f] = 1 /\ \A g \in Futs \ {f} : moved'[g] = moved[g]
    <3>1. moved \in [Futs -> Nat]
      BY <1>0, Zenon DEF TypeOK, DMTypeOK
    <3> QED
      BY <2>0, <2>1, <3>1
  <2>3. \A g \in Futs \ {f} : Phase(g)' = Phase(g)
    BY <1>0, <2>0, <2>2, PhaseFrame, Zenon DEF Underway
  <2>4. Phase(f) = "submitted" /\ Phase(f)' = "performed"
    BY <1>0, <2>0, <2>1, <2>2, PhaseIs, Zenon
  <2> QED
    BY <1>0, <2>0, <2>1, <2>3, <2>4, OnePhase, Zenon
<1>2. ASSUME NEW f \in Futs, worker_dequeue(w, f) PROVE UNCHANGED Abstract!ovars
  <2>0. /\ f \in queue /\ queue' = queue \ {f} /\ job' = [job EXCEPT ![w] = f]
        /\ moved' = moved /\ job[w] = NULL /\ f # NULL /\ job \in [Workers -> Async \cup {NULL}]
    BY <1>0, <1>2, FutsAssumption, Zenon DEF worker_dequeue, futures, WorkerInv, TypeOK, DMTypeOK
  <2>1. \A g \in Futs : Underway(g)' <=> Underway(g)
    <3> TAKE g \in Futs
    <3>1. CASE g = f
      BY <2>0, <3>1, Zenon DEF Underway
    <3>2. CASE g # f
      <4>1. \A v \in Workers : job'[v] = g <=> job[v] = g
        BY <2>0, <3>2, FutsAssumption, Zenon
      <4> QED
        BY <2>0, <3>2, <4>1, Zenon DEF Underway
    <3> QED
      BY <3>1, <3>2, Zenon
  <2>2. \A g \in Futs : Phase(g)' = Phase(g)
    BY <1>0, <2>0, <2>1, PhaseFrame, Zenon
  <2> QED
    BY <1>0, <2>2, PhasesSame, Zenon
<1>3. CASE worker_complete(w)
  <2>f. PICK f \in Async : f = job[w]
    BY <1>3, Pointers, Zenon DEF worker_complete
  <2>0. /\ at[w] = "complete" /\ job' = [job EXCEPT ![w] = NULL] /\ UNCHANGED <<moved, queue>>
        /\ job \in [Workers -> Async \cup {NULL}] /\ f \in Futs
    BY <1>0, <1>3, Zenon DEF worker_complete, TypeOK, DMTypeOK, Async
  <2>1. moved[f] > 0
    BY <2>f, <2>0, Pointers DEF MovedInv
  <2>2. \A g \in Futs \ {f} : Underway(g)' <=> Underway(g)
    <3> TAKE g \in Futs \ {f}
    <3>1. \A v \in Workers : job'[v] = g <=> job[v] = g
      BY <2>f, <2>0, FutsAssumption, Zenon
    <3> QED
      BY <2>0, <3>1, Zenon DEF Underway
  <2>3. \A g \in Futs : Phase(g)' = Phase(g)
    BY <1>0, <2>0, <2>1, <2>2, PhaseFrame, Zenon
  <2> QED
    BY <1>0, <2>3, PhasesSame, Zenon
<1>4. CASE UNCHANGED <<moved, queue, job>>
  <2>1. \A g \in Futs : Phase(g)' = Phase(g)
    BY <1>0, <1>4, PhaseFrame, Zenon DEF Underway
  <2> QED
    BY <1>0, <2>1, PhasesSame, Zenon
<1> QED
  BY <1>1, <1>2, <1>3, <1>4, Zenon
     DEF WorkerStep, worker_exit, wake_user, wake_lock, wake_signal, wake_unlock, futures

\* Every step of the system is a step of Operation or leaves it alone.
LEMMA RefineStep == RuntimeInv /\ [Next]_vars => [Abstract!ONext]_(Abstract!ovars)
<1> SUFFICES ASSUME RuntimeInv, [Next]_vars PROVE [Abstract!ONext]_(Abstract!ovars)
  BY Zenon
<1>0. CASE UNCHANGED <<state, moved, queue, job>> /\ (mover' = "deleted" <=> mover = "deleted")
  <2>1. \A g \in Futs : Phase(g)' = Phase(g)
    BY <1>0, PhaseFrame, Zenon DEF Underway
  <2> QED
    BY <1>0, <2>1, PhasesSame, Zenon
<1>1. ASSUME NEW c \in Callers, CallStep(c) \/ create(c) \/ poll_by_hand(c) \/ runtime_wait_multiple(c)
      PROVE  [Abstract!ONext]_(Abstract!ovars)
  <2>1. CASE create(c) \/ poll_start(c) \/ poll_complete(c) \/ poll_pending(c)
    BY <2>1, RefineCaller, Zenon
  <2>2. CASE \/ poll_by_hand(c) \/ runtime_wait_multiple(c)
             \/ wait_sort(c) \/ wait_visit(c) \/ wait_passed(c)
             \/ poll_incomplete(c)
             \/ sleep_lock(c) \/ sleep_wait(c)
             \/ sleep_signalled(c) \/ sleep_timeout(c) \/ sleep_unlock(c)
    <3>1. UNCHANGED dmvars
      BY <2>2, Zenon
         DEF poll_by_hand, runtime_wait_multiple, wait_sort, wait_visit, wait_passed,
             poll_incomplete, sleep_lock, sleep_wait, sleep_signalled, sleep_timeout,
             sleep_unlock, AwakeWithLock
    <3> QED
      BY <1>0, <3>1, Zenon DEF dmvars, futures, workers
  <2>3. CASE poll_started(c)
    BY <1>0, <2>3, Zenon DEF poll_started, start_started, workers
  <2> QED
    BY <1>1, <2>1, <2>2, <2>3, Zenon DEF CallStep
<1>2. CASE delete \/ delete_step
  <2>1. CASE mover' # "deleted"
    BY <1>0, <1>2, <2>1, Zenon
       DEF delete, delete_step, delete_begin, delete_stopped, delete_free, futures, workers
  <2>2. CASE mover' = "deleted"
    <3>0. /\ mover = "stopped" /\ \A w \in Workers : at[w] = "exited"
          /\ UNCHANGED <<state, moved, queue, job>>
      BY <1>2, <2>2, Zenon
         DEF delete, delete_step, delete_begin, delete_stopped, delete_free, workers
    <3>1. queue = {} /\ \A w \in Workers : job[w] = NULL
      BY <3>0, Pointers, Zenon DEF MoverInv, WorkerInv
    <3>2. \A g \in Futs : ~Underway(g) /\ Phase(g)' = Phase(g)
      BY <3>0, <3>1, PhaseFrame, FutsAssumption, Zenon DEF Underway
    <3>3. \A g \in Futs : Phase(g) # "submitted"
      BY <3>2, Zenon DEF Phase, Underway
    <3>4. [g \in Futs |-> Phase(g)]' = [g \in Futs |-> Phase(g)]
      BY <3>2, Zenon
    <3> QED
      BY <2>2, <3>0, <3>3, <3>4, Zenon DEF Abstract!ONext
  <2> QED
    BY <2>1, <2>2, Zenon
<1>3. CASE UNCHANGED vars
  BY <1>0, <1>3, Zenon DEF vars, dmvars, futures, workers
<1> QED
  BY <1>1, <1>2, <1>3, RefineWorker, Zenon DEF Next, Terminated

\* The system implements Operation: every operation is submitted and performed
\* at most once, never reported complete before it was performed and never
\* performed after its mover is gone; for any number of threads and futures.
THEOREM RuntimeImplementsOperation == Spec => ImplementsOperation
<1>1. RuntimeInv => \A f \in Futs : moved[f] <= 1
  BY Pointers, Zenon DEF MovedInv
<1> QED
  BY <1>1, RuntimeAlways, RefineInit, RefineStep, PTL
     DEF Spec, ImplementsOperation, Abstract!OSpec
=============================================================================
