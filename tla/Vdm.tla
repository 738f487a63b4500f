--------------------------------- MODULE Vdm ---------------------------------
(***************************************************************************)
(* What the operations of the virtual data mover do to memory and report:  *)
(* vdm.h with the synchronous mover (data_mover_sync.c), the threads mover *)
(* (data_mover_threads.c) and the DML mover (extras/dml/data_mover_dml.c). *)
(* Runtime has the interleavings of the threads mover in full; here its    *)
(* ring and workers are one step that performs an operation.               *)
(*                                                                         *)
(* One thread creates futures of a mover and polls them while the mover's  *)
(* engine (the workers, or the accelerator behind the DML library) works.  *)
(* The DML library is external: a submitted job is processed some time,    *)
(* with success or not; a job it refused is never performed.               *)
(***************************************************************************)
EXTENDS Integers, FiniteSets

CONSTANTS
  Futs,         \* the futures; also names the destination of each
  Sizes,        \* sizes of a memset
  PatternLen,   \* bytes in the pattern of a fill job, 8 in the code
  NULL

ASSUME VdmAssumption ==
  IsFiniteSet(Futs) /\ NULL \notin Futs /\ Sizes \subseteq Nat /\ PatternLen \in Nat \ {0}

VARIABLES
  kind,     \* the mover in use: "none", "sync", "threads" or "dml"
  owned,    \* what the mover has allocated
  op,       \* operation of a future, NULL until it is created
  state,    \* context.state
  block,    \* data.data of the future: "none", "live", "freed"
  job,      \* contents of the block: the operation or the DML job to perform
  engine,   \* "idle", "processing", "ok", "corrupted" or "refused"
  done,     \* what was done to memory
  output,   \* output of the future
  poll,     \* the future being polled and where
  exited    \* the program has ended

futures == <<op, state, block, job, engine, done, output>>
vars == <<kind, owned, futures, poll, exited>>

MEM_DURABLE == 1
NO_CACHE_HINT == 2
Masks == 0..3
Has(mask, flag) == (mask \div flag) % 2 = 1

Init ==
  /\ kind = "none" /\ owned = {}
  /\ op = [f \in Futs |-> NULL]
  /\ state = [f \in Futs |-> "none"]
  /\ block = [f \in Futs |-> "none"]
  /\ job = [f \in Futs |-> NULL]
  /\ engine = [f \in Futs |-> "idle"]
  /\ done = [f \in Futs |-> NULL]
  /\ output = [f \in Futs |-> NULL]
  /\ poll = [fut |-> NULL, at |-> "out"]
  /\ exited = FALSE

-----------------------------------------------------------------------------
\* Creation and deletion of movers. What fails on the way is undone.
Idle == poll.at = "out" /\ ~exited

data_mover_sync_new ==
  \/ kind' = "sync" /\ owned' = {"mover", "membuf"}
  \/ kind' = "none" /\ owned' = {}

\* Mutant of data_mover_threads_new: the ring is not deleted when there is no
\* membuf.
data_mover_threads_new_leaks ==
  \/ kind' = "threads" /\ owned' = {"mover", "ringbuf", "membuf", "threads"}
  \/ kind' = "none" /\ owned' \in {{}, {"ringbuf"}}

data_mover_threads_new ==
  \/ kind' = "threads" /\ owned' = {"mover", "ringbuf", "membuf", "threads"}
  \/ kind' = "none" /\ owned' = {}

\* The result of membuf_new is not looked at.
data_mover_dml_new ==
  \/ kind' = "dml" /\ owned' \in {{"mover", "membuf"}, {"mover"}}
  \/ kind' = "none" /\ owned' = {}

new ==
  /\ Idle /\ kind = "none" /\ \A f \in Futs : op[f] = NULL
  /\ data_mover_sync_new \/ data_mover_threads_new \/ data_mover_dml_new
  /\ UNCHANGED <<futures, poll, exited>>

\* The user deletes a mover when none of its operations is on the way.
delete ==
  /\ Idle /\ kind # "none"
  /\ \A f \in Futs : engine[f] # "processing"
  /\ kind' = "none" /\ owned' = {}
  /\ block' = [f \in Futs |-> IF block[f] = "live" THEN "freed" ELSE block[f]]
  /\ UNCHANGED <<op, state, job, engine, done, output, poll, exited>>

-----------------------------------------------------------------------------
\* vdm_memcpy, vdm_memmove, vdm_memset and vdm_flush.
Requests(f) ==
  [type : {"MEMCPY", "MEMMOVE", "FLUSH"}, dest : {f}, n : {1}, flags : Masks]
    \cup [type : {"MEMSET"}, dest : {f}, n : Sizes, flags : Masks]

\* vdm_generic_operation when op_new gave the operation its memory.
Created(f) ==
  /\ block' = [block EXCEPT ![f] = "live"]
  /\ state' = [state EXCEPT ![f] = "IDLE"]
  /\ UNCHANGED exited

\* vdm_generic_operation when it did not. data_mover_dml_operation_new frees
\* the memory of a job that the library could not initialise.
NotCreated(f) ==
  /\ block' \in {block} \cup (IF kind = "dml" THEN {[block EXCEPT ![f] = "freed"]} ELSE {})
  /\ state' = [state EXCEPT ![f] = "COMPLETE"]
  /\ UNCHANGED exited

vdm_generic_operation(f) ==
  /\ Idle /\ kind # "none" /\ op[f] = NULL
  /\ op' \in {[op EXCEPT ![f] = o] : o \in Requests(f)}
  /\ \/ /\ "membuf" \in owned /\ Created(f)
        /\ output' = [output EXCEPT ![f] =
             [type |-> op'[f].type, result |-> "SUCCESS", dest |-> NULL]]
     \/ /\ "membuf" \in owned /\ NotCreated(f)
        /\ output' = [output EXCEPT ![f] =
             [type |-> op'[f].type, result |-> "OUT_OF_MEMORY", dest |-> NULL]]
     \/ "membuf" \notin owned /\ exited' = TRUE /\ UNCHANGED <<block, state, output>>
  /\ UNCHANGED <<kind, owned, job, engine, done, poll>>

-----------------------------------------------------------------------------
\* What the memory functions of the synchronous and threads movers do; flags
\* mean nothing to them.
Performed(o) ==
  [type |-> o.type, dest |-> o.dest, n |-> o.n,
   fill |-> IF o.type = "MEMSET" THEN [i \in 1..o.n |-> "c"] ELSE <<>>, honours |-> {}]

\* Mutant of data_mover_dml_translate_flags: the switch is on all flags, so a
\* flag is only recognised when it comes alone.
data_mover_dml_translate_flags_alone(flags) ==
  (IF flags = MEM_DURABLE THEN {"DST1_DURABLE", "bit 0"} ELSE {})
    \cup (IF flags = NO_CACHE_HINT THEN {} ELSE {"PREFETCH_CACHE"})

\* DSA_F_DESTINATION_READBACK is the comparison 1 < 14, which is bit 0.
data_mover_dml_translate_flags(flags) ==
  (IF Has(flags, MEM_DURABLE) THEN {"DST1_DURABLE", "bit 0"} ELSE {})
    \cup (IF Has(flags, NO_CACHE_HINT) THEN {} ELSE {"PREFETCH_CACHE"})

\* The pattern is filled up to the size only; the rest is what it was.
Pattern(n) == [i \in 0..PatternLen-1 |-> IF i < n THEN "c" ELSE "junk"]

\* Mutant of JobInit: a memmove is marked like a memcpy.
JobInit_copies(o) ==
  [operation |-> CASE o.type \in {"MEMCPY", "MEMMOVE"} -> "MEM_MOVE"
                   [] o.type = "MEMSET" -> "FILL"
                   [] o.type = "FLUSH" -> "CACHE_FLUSH",
   destination |-> o.dest, length |-> o.n, pattern |-> Pattern(o.n),
   flags |-> data_mover_dml_translate_flags(o.flags) \cup
             (IF o.type \in {"MEMCPY", "MEMMOVE"} THEN {"COPY_ONLY"} ELSE {})]

\* data_mover_dml_memcpy_job_init and its siblings for memmove, memset, flush.
JobInit(o) ==
  [operation |-> CASE o.type \in {"MEMCPY", "MEMMOVE"} -> "MEM_MOVE"
                   [] o.type = "MEMSET" -> "FILL"
                   [] o.type = "FLUSH" -> "CACHE_FLUSH",
   destination |-> o.dest, length |-> o.n, pattern |-> Pattern(o.n),
   flags |-> data_mover_dml_translate_flags(o.flags) \cup
             (IF o.type = "MEMCPY" THEN {"COPY_ONLY"} ELSE {})]

\* The type of operation that data_mover_dml_operation_delete finds in a job.
JobType(j) ==
  CASE j.operation = "MEM_MOVE" -> IF "COPY_ONLY" \in j.flags THEN "MEMCPY" ELSE "MEMMOVE"
    [] j.operation = "FILL" -> "MEMSET"
    [] j.operation = "CACHE_FLUSH" -> "FLUSH"

\* External: what the accelerator does to memory for a job.
dml_execute(j) ==
  [type |-> JobType(j), dest |-> j.destination, n |-> j.length,
   fill |-> IF j.operation = "FILL"
            THEN [i \in 1..j.length |-> j.pattern[(i - 1) % PatternLen]] ELSE <<>>,
   honours |-> (IF "DST1_DURABLE" \in j.flags THEN {MEM_DURABLE} ELSE {})
                 \cup (IF "PREFETCH_CACHE" \in j.flags THEN {} ELSE {NO_CACHE_HINT})]

\* What an operation may do to memory, and NULL is none of it.
Effects ==
  [type : {"MEMCPY", "MEMMOVE", "MEMSET", "FLUSH"}, dest : Futs, n : Sizes \cup {1},
   fill : {<<>>} \cup UNION {[1..n -> {"c"}] : n \in Sizes},
   honours : SUBSET {MEM_DURABLE, NO_CACHE_HINT}]

ASSUME NullAssumption ==
  NULL \notin Effects /\ \A f \in Futs : NULL \notin Requests(f)

\* sync_operation_start performs the operation; a flush ends the program.
sync_operation_start(f) ==
  \/ /\ op[f].type = "FLUSH"
     /\ exited' = TRUE
     /\ UNCHANGED <<job, engine, done, poll>>
  \/ /\ op[f].type # "FLUSH"
     /\ done' = [done EXCEPT ![f] = Performed(op[f])]
     /\ engine' = [engine EXCEPT ![f] = "ok"]
     /\ poll' = [fut |-> f, at |-> "check"]
     /\ UNCHANGED <<job, exited>>

\* data_mover_threads_operation_start: the operation is copied to the block
\* and queued, unless the ring is full.
data_mover_threads_operation_start(f) ==
  /\ job' = [job EXCEPT ![f] = op[f]]
  /\ engine' \in {engine, [engine EXCEPT ![f] = "processing"]}
  /\ poll' = [fut |-> f, at |-> "check"]
  /\ UNCHANGED <<done, exited>>

\* data_mover_dml_operation_start: the job is filled in and submitted. That the
\* library refuses it goes unnoticed.
data_mover_dml_operation_start(f) ==
  /\ job' = [job EXCEPT ![f] = JobInit(op[f])]
  /\ engine' \in {[engine EXCEPT ![f] = e] : e \in {"processing", "refused"}}
  /\ poll' = [fut |-> f, at |-> "check"]
  /\ UNCHANGED <<done, exited>>

\* vdm_operation_impl up to op_check.
poll_start(f) ==
  /\ Idle /\ kind # "none" /\ state[f] \in {"IDLE", "RUNNING"} /\ block[f] = "live"
  /\ \/ state[f] = "IDLE" /\ kind = "sync" /\ sync_operation_start(f)
     \/ state[f] = "IDLE" /\ kind = "threads" /\ data_mover_threads_operation_start(f)
     \/ state[f] = "IDLE" /\ kind = "dml" /\ data_mover_dml_operation_start(f)
     \/ /\ state[f] = "RUNNING"
        /\ poll' = [fut |-> f, at |-> "check"]
        /\ UNCHANGED <<job, engine, done, exited>>
  /\ UNCHANGED <<kind, owned, op, state, block, output>>

-----------------------------------------------------------------------------
\* A worker performs a queued operation.
data_mover_threads_do_operation(f) ==
  /\ kind = "threads" /\ engine[f] = "processing" /\ ~exited
  /\ \/ job[f].type = "FLUSH" /\ exited' = TRUE /\ UNCHANGED <<done, engine>>
     \/ /\ job[f].type # "FLUSH"
        /\ done' = [done EXCEPT ![f] = Performed(job[f])]
        /\ engine' = [engine EXCEPT ![f] = "ok"]
        /\ UNCHANGED exited
  /\ UNCHANGED <<kind, owned, op, state, block, job, output, poll>>

\* External: the DML library works on a job.
dml_process(f) ==
  /\ kind = "dml" /\ engine[f] = "processing" /\ ~exited
  /\ \/ /\ done' = [done EXCEPT ![f] = dml_execute(job[f])]
        /\ engine' = [engine EXCEPT ![f] = "ok"]
     \/ /\ engine' = [engine EXCEPT ![f] = "corrupted"]
        /\ UNCHANGED done
  /\ UNCHANGED <<kind, owned, op, state, block, job, output, poll, exited>>

\* Mutant of op_check: a job that is being processed may count as complete.
op_check_early(f) ==
  CASE engine[f] \in {"ok", "corrupted"} -> {"COMPLETE"}
    [] engine[f] \in {"processing", "refused"} -> {"RUNNING", "COMPLETE"}
    [] engine[f] = "idle" -> {"IDLE"}

\* Mutant of op_check: a corrupted job is not complete.
op_check_stuck(f) ==
  CASE engine[f] = "ok" -> {"COMPLETE"}
    [] engine[f] \in {"processing", "corrupted"} -> {"RUNNING"}
    [] engine[f] = "refused" -> {"RUNNING", "COMPLETE"}
    [] engine[f] = "idle" -> {"IDLE"}

\* op_check of the three movers. A refused job may look as if it was being
\* processed for ever.
op_check(f) ==
  CASE engine[f] \in {"ok", "corrupted"} -> {"COMPLETE"}
    [] engine[f] = "processing" -> {"RUNNING"}
    [] engine[f] = "refused" -> {"RUNNING", "COMPLETE"}
    [] engine[f] = "idle" -> {"IDLE"}

\* vdm_operation_impl: op_check, and the return of future_poll unless the
\* operation is complete.
poll_check ==
  /\ poll.at = "check" /\ ~exited
  /\ \E s \in op_check(poll.fut) :
       IF s = "COMPLETE"
       THEN poll' = [poll EXCEPT !.at = "delete"] /\ UNCHANGED state
       ELSE poll' = [fut |-> NULL, at |-> "out"] /\ state' = [state EXCEPT ![poll.fut] = s]
  /\ UNCHANGED <<kind, owned, op, block, job, engine, done, output, exited>>

\* sync_operation_delete, data_mover_threads_operation_delete: the output is
\* taken from the operation.
Output(f) == [type |-> op[f].type, result |-> "SUCCESS", dest |-> op[f].dest]

\* data_mover_dml_operation_delete: the output is taken from the job.
DmlOutput(f) ==
  [type |-> JobType(job[f]),
   result |-> IF engine[f] = "ok" THEN "SUCCESS" ELSE "JOB_CORRUPTED",
   dest |-> IF job[f].operation = "CACHE_FLUSH" THEN NULL ELSE job[f].destination]

\* vdm_operation_impl: op_delete, then future_poll stores the state.
poll_delete ==
  /\ poll.at = "delete" /\ ~exited
  /\ output' = [output EXCEPT ![poll.fut] =
                  IF kind = "dml" THEN DmlOutput(poll.fut) ELSE Output(poll.fut)]
  /\ block' = [block EXCEPT ![poll.fut] = "freed"]
  /\ state' = [state EXCEPT ![poll.fut] = "COMPLETE"]
  /\ poll' = [fut |-> NULL, at |-> "out"]
  /\ UNCHANGED <<kind, owned, op, job, engine, done, exited>>

\* (capabilities && capability) == capability
vdm_is_supported(capabilities, capability) ==
  (IF capabilities # 0 /\ capability # 0 THEN 1 ELSE 0) = capability

Capabilities == IF kind = "dml" THEN MEM_DURABLE + NO_CACHE_HINT ELSE 0

EngineStep(f) == data_mover_threads_do_operation(f) \/ dml_process(f)
Finished == (exited \/ (kind = "none" /\ \E f \in Futs : op[f] # NULL)) /\ UNCHANGED vars

Next ==
  \/ new \/ delete
  \/ \E f \in Futs : vdm_generic_operation(f) \/ poll_start(f) \/ EngineStep(f)
  \/ poll_check \/ poll_delete
  \/ Finished

Spec == Init /\ [][Next]_vars

\* The engine works, and the user polls until the future is complete.
FairSpec ==
  /\ Spec
  /\ \A f \in Futs : WF_vars(EngineStep(f)) /\ SF_vars(poll_start(f))
  /\ WF_vars(poll_check) /\ WF_vars(poll_delete)

-----------------------------------------------------------------------------
\* The type of every variable.
TypeOK ==
  /\ kind \in {"none", "sync", "threads", "dml"}
  /\ owned \subseteq {"mover", "membuf", "ringbuf", "threads"}
  /\ \A f \in Futs : op[f] \in Requests(f) \cup {NULL}
  /\ state \in [Futs -> {"none", "IDLE", "RUNNING", "COMPLETE"}]
  /\ block \in [Futs -> {"none", "live", "freed"}]
  /\ engine \in [Futs -> {"idle", "processing", "ok", "corrupted", "refused"}]
  /\ \A f \in Futs : output[f] # NULL =>
       /\ output[f].type \in {"MEMCPY", "MEMMOVE", "MEMSET", "FLUSH"}
       /\ output[f].result \in {"SUCCESS", "OUT_OF_MEMORY", "JOB_CORRUPTED"}
       /\ output[f].dest \in Futs \cup {NULL}
  /\ poll \in [fut : Futs \cup {NULL}, at : {"out", "check", "delete"}]
  /\ exited \in BOOLEAN

\* The output of a complete future is the truth, whichever mover worked on it:
\* success means that exactly the operation asked for was done, every byte of
\* a memset included, and that it is named in the output; an error means that
\* nothing was done. The DML mover has only the job left to tell from.
OutputTrue ==
  \A f \in Futs : state[f] = "COMPLETE" =>
    /\ output[f].type = op[f].type
    /\ IF output[f].result = "SUCCESS"
       THEN /\ done[f] # NULL
            /\ done[f] = [Performed(op[f]) EXCEPT !.honours = done[f].honours]
            /\ output[f].dest = IF op[f].type = "FLUSH" THEN NULL ELSE op[f].dest
       ELSE done[f] = NULL

\* Memory is given back on every path: a future holds its block exactly while
\* it is pending, a mover that could not be created or was deleted holds
\* nothing.
Released ==
  /\ TypeOK
  /\ \A f \in Futs : block[f] = "live" => state[f] \in {"IDLE", "RUNNING"}
  /\ kind = "none" => owned = {} /\ \A f \in Futs : block[f] # "live"

\* A flag that vdm_is_supported affirms for the mover, alone or with others,
\* takes effect in the operations it is passed to.
SupportedHonoured ==
  \A f \in Futs : \A mask \in Masks \ {0} :
    /\ done[f] # NULL /\ kind # "none"
    /\ vdm_is_supported(Capabilities, mask)
    => \A flag \in {MEM_DURABLE, NO_CACHE_HINT} :
         Has(mask, flag) /\ Has(op[f].flags, flag) => flag \in done[f].honours

Phase(f) ==
  IF op[f] = NULL \/ state[f] = "none" THEN "none"
  ELSE IF state[f] = "COMPLETE" THEN IF done[f] = NULL THEN "failed" ELSE "complete"
  ELSE IF done[f] # NULL THEN "performed"
  ELSE IF engine[f] = "corrupted" THEN "failed"
  ELSE IF engine[f] = "processing" THEN "submitted"
  ELSE "created"

Abstract == INSTANCE Operation WITH
  phase <- [f \in Futs |-> Phase(f)],
  gone <- kind = "none" /\ \E f \in Futs : op[f] # NULL,
  Faulty <- Futs

\* The three movers give every operation the life that Operation describes.
ImplementsOperation == Abstract!OSpec

\* An operation that the engine accepted completes, unless the program ends or
\* the mover is deleted first.
AcceptedCompletes ==
  \A f \in Futs : engine[f] = "processing" ~>
    (state[f] = "COMPLETE" \/ exited \/ kind = "none")
=============================================================================
