---------------------------- MODULE FutureProofs ----------------------------
(***************************************************************************)
(* Proofs about futures: FutureChain, for chains of every length and every *)
(* layout, and Vdm, the futures of the data movers, for every set of them, *)
(* every size of a memset and every length of the pattern of a fill job.   *)
(***************************************************************************)
EXTENDS FutureChain, Vdm, TLAPS

(***************************************************************************)
(* The loops over the entries of a chain.                                  *)
(***************************************************************************)
\* An entry that waits for its init is as FUTURE_CHAIN_ENTRY_LAZY_INIT left it.
PendingRaw == \A k \in pending : inits[k] = 0 /\ leaf[k] = "garbage"

\* The loops only look at an entry once all entries in front of it are
\* processed; ENTRY_PROCESSED is set in order.
Ordered ==
  /\ pc \in {"poll_next", "poll", "map", "ask_next", "ask"} => 1..cur-1 \subseteq processed
  /\ \A k \in processed : 1..k-1 \subseteq processed
  /\ \A k \in Entries : leaf[k] = "RUNNING" => 1..k-1 \subseteq processed
  /\ chain_state = "COMPLETE" => processed = Entries

\* Only an entry that is initialised is polled, asked or mapped.
Initialised == pc \in {"poll", "ask", "map"} => cur \notin pending

\* The entry behind one that has handed its output on holds it, and has no
\* init left that could run over it.
HandedOn ==
  \A k \in processed \cap Mapped : input[k + 1] = "mapped" /\ k + 1 \notin pending

ChainInv == FTypeOK /\ PendingRaw /\ Ordered /\ Initialised /\ HandedOn

\* A new chain satisfies the invariant.
LEMMA ChainInit == FInit => ChainInv
<1> SUFFICES ASSUME FInit PROVE ChainInv
  BY Zenon
<1> USE ChainAssumption DEF FInit, Entries, Lazy, Done, Mapped
<1>1. FTypeOK
  BY DEF FTypeOK, Layouts
<1>2. PendingRaw
  BY Zenon DEF PendingRaw, Layouts
<1>3. Ordered /\ Initialised /\ HandedOn
  BY Zenon DEF Ordered, Initialised, HandedOn
<1> QED
  BY <1>1, <1>2, <1>3, Zenon DEF ChainInv

\* The init of an entry that waits for it: it is the entry's first, and no map
\* has written there.
LEMMA RunInitKeeps ==
  ASSUME ChainInv, NEW k \in pending, RunInit(k),
         pc' \in {"poll", "ask", "map"}, UNCHANGED <<chain, chain_state, ready, processed, cur>>
  PROVE  /\ FTypeOK' /\ PendingRaw' /\ HandedOn'
         /\ k \notin pending' /\ pending' \subseteq pending
         /\ \A j \in Entries : leaf'[j] = "RUNNING" => leaf[j] = "RUNNING"
<1>1. PICK l \in {"IDLE", "COMPLETE"} :
        /\ pending' = pending \ {k}
        /\ inits' = [inits EXCEPT ![k] = @ + 1]
        /\ leaf' = [leaf EXCEPT ![k] = l]
        /\ input' = [input EXCEPT ![k] = "default"]
  BY Zenon DEF RunInit
<1>2. FTypeOK /\ k \in Entries /\ inits[k] = 0
  BY Zenon DEF ChainInv, PendingRaw, FTypeOK, Layouts, Lazy
<1>3. FTypeOK'
  <2>1. inits' \in [Entries -> 0..1]
    <3>1. inits \in [Entries -> 0..1] /\ k \in Entries /\ inits[k] = 0
      BY <1>2, Zenon DEF FTypeOK
    <3> QED
      BY <1>1, <3>1
  <2>2. leaf' \in [Entries -> {"garbage", "IDLE", "RUNNING", "COMPLETE"}]
    BY <1>1, <1>2, Zenon DEF FTypeOK
  <2>3. input' \in [1..N+1 -> {"garbage", "default", "mapped"}]
    BY <1>1, <1>2, Zenon DEF FTypeOK
  <2> QED
    BY <1>1, <1>2, <2>1, <2>2, <2>3, Zenon DEF FTypeOK, Lazy
<1>4. PendingRaw'
  <2> SUFFICES ASSUME NEW j \in pending, j # k
               PROVE  inits'[j] = 0 /\ leaf'[j] = "garbage"
    BY <1>1, Zenon DEF PendingRaw
  <2>1. j \in Entries /\ inits[j] = 0 /\ leaf[j] = "garbage"
    BY <1>2, Zenon DEF ChainInv, PendingRaw, FTypeOK, Layouts, Lazy
  <2> QED
    BY <1>1, <1>2, <2>1, Zenon DEF FTypeOK
<1>5. HandedOn'
  <2> SUFFICES ASSUME NEW j \in processed \cap Mapped
               PROVE  input'[j + 1] = "mapped" /\ j + 1 \notin pending'
    BY Zenon DEF HandedOn, Mapped
  <2>1. input[j + 1] = "mapped" /\ j + 1 \notin pending
    BY Zenon DEF ChainInv, HandedOn
  <2>2. j + 1 \in 1..N+1 /\ j + 1 # k
    <3>1. j \in 1..N
      BY <1>2, Zenon DEF FTypeOK, Entries
    <3> QED
      BY <2>1, <3>1, ChainAssumption
  <2> QED
    BY <1>1, <1>2, <2>1, <2>2, Zenon DEF FTypeOK
<1> QED
  BY <1>1, <1>2, <1>3, <1>4, <1>5, Zenon DEF FTypeOK

\* The entries in front of the next one.
LEMMA Before ==
  ASSUME NEW c \in Entries
  PROVE  /\ c < N => c + 1 \in Entries /\ 1..(c + 1) - 1 = (1..c-1) \cup {c}
         /\ ~(c < N) => Entries = (1..c-1) \cup {c}
  BY ChainAssumption DEF Entries

\* A chain has a first entry, with none before it.
LEMMA First == 1 \in Entries /\ 1..1-1 = {}
  BY ChainAssumption DEF Entries

\* The loop of async_chain_impl goes on, or ends, when the entry it is at has
\* been processed.
LEMMA PollNextKeeps ==
  ASSUME ChainInv, pc \in {"poll", "map"}, PollNext,
         processed' = processed \cup {cur},
         \A j \in Entries : leaf'[j] = "RUNNING" => leaf[j] = "RUNNING"
  PROVE  /\ Ordered' /\ Initialised'
         /\ chain_state' \in {"IDLE", "RUNNING", "COMPLETE"} /\ processed' \subseteq Entries
         /\ pc' \in {"out", "poll_next"} /\ cur' \in Entries
<1>0. FTypeOK /\ Ordered /\ cur \in Entries /\ 1..cur-1 \subseteq processed
  BY Zenon DEF ChainInv, FTypeOK, Ordered
<1>1. \A k \in processed' : 1..k-1 \subseteq processed'
  BY <1>0, Zenon DEF Ordered
<1>2. \A k \in Entries : leaf'[k] = "RUNNING" => 1..k-1 \subseteq processed'
  BY <1>0, Zenon DEF Ordered
<1>3. CASE cur < N
  <2>1. cur' = cur + 1 /\ pc' = "poll_next" /\ chain_state' = chain_state
    BY <1>3, Zenon DEF PollNext
  <2>2. cur' \in Entries /\ 1..cur'-1 \subseteq processed'
    BY <1>0, <1>3, <2>1, Before, Zenon
  <2>3. chain_state' = "COMPLETE" => processed' = Entries
    BY <1>0, <2>1, Zenon DEF Ordered
  <2> QED
    BY <1>0, <1>1, <1>2, <2>1, <2>2, <2>3, Zenon DEF Ordered, Initialised, FTypeOK
<1>4. CASE ~(cur < N)
  <2>1. cur' = 1 /\ pc' = "out" /\ chain_state' = "COMPLETE"
    BY <1>4, Zenon DEF PollNext
  <2>2. processed' = Entries
    BY <1>0, <1>4, Before DEF FTypeOK
  <2> QED
    BY <1>0, <1>1, <1>2, <2>1, <2>2, First, Zenon DEF Ordered, Initialised
<1> QED
  BY <1>3, <1>4, Zenon

\* Every step preserves the invariant.
LEMMA ChainStep == ChainInv /\ [FNext]_fvars => ChainInv'
<1> SUFFICES ASSUME ChainInv, [FNext]_fvars PROVE ChainInv'
  BY Zenon
<1>0. FTypeOK /\ PendingRaw /\ Ordered /\ Initialised /\ HandedOn
  BY Zenon DEF ChainInv
<1> USE ChainAssumption, <1>0 DEF entry
<1>1. CASE future_poll \/ future_has_property
  <2>0. /\ pc' \in {"poll_next", "ask_next"} /\ cur' = 1
        /\ UNCHANGED <<chain, chain_state, pending, inits, leaf, input, ready, processed>>
    BY <1>1, Zenon DEF future_poll, future_has_property
  <2>1. cur' \in Entries /\ 1..cur'-1 = {}
    BY <2>0, First, Zenon
  <2>2. FTypeOK'
    BY <2>0, <2>1, Zenon DEF FTypeOK, Lazy
  <2>3. Ordered' /\ Initialised' /\ PendingRaw' /\ HandedOn'
    BY <2>0, <2>1, Zenon DEF Ordered, Initialised, PendingRaw, HandedOn, Mapped
  <2> QED
    BY <2>2, <2>3, Zenon DEF ChainInv
<1>2. CASE get_next_future_chain_entry
  <2>0. /\ pc \in {"poll_next", "ask_next"}
        /\ pc' = IF pc = "poll_next" THEN "poll" ELSE "ask"
        /\ UNCHANGED <<chain, chain_state, ready, processed, cur>>
    BY <1>2, Zenon DEF get_next_future_chain_entry
  <2>1. CASE cur \in pending /\ RunInit(cur)
    <3>1. /\ FTypeOK' /\ PendingRaw' /\ HandedOn' /\ cur \notin pending'
          /\ \A j \in Entries : leaf'[j] = "RUNNING" => leaf[j] = "RUNNING"
      BY <2>0, <2>1, RunInitKeeps, Zenon DEF FTypeOK
    <3>2. Ordered' /\ Initialised'
      BY <2>0, <3>1, Zenon DEF Ordered, Initialised, Entries
    <3> QED
      BY <3>1, <3>2, Zenon DEF ChainInv
  <2>2. CASE cur \notin pending /\ UNCHANGED entry
    BY <2>0, <2>2, Zenon DEF ChainInv, FTypeOK, PendingRaw, Ordered, Initialised, HandedOn, Lazy, Mapped, Entries
  <2> QED
    BY <1>2, <2>1, <2>2, Zenon DEF get_next_future_chain_entry
<1>3. CASE poll_skip
  <2>1. /\ pc = "poll" /\ PollNext /\ processed' = processed \cup {cur}
        /\ UNCHANGED <<chain, pending, inits, leaf, input, ready>>
    BY <1>3, Zenon DEF poll_skip
  <2>2. /\ Ordered' /\ Initialised'
        /\ chain_state' \in {"IDLE", "RUNNING", "COMPLETE"} /\ processed' \subseteq Entries
        /\ pc' \in {"out", "poll_next"} /\ cur' \in Entries
    BY <2>1, PollNextKeeps, Zenon
  <2>3. FTypeOK'
    BY <2>1, <2>2, Zenon DEF FTypeOK, Lazy
  <2>4. PendingRaw' /\ HandedOn'
    BY <1>3, Zenon DEF poll_skip, PendingRaw, HandedOn, Mapped
  <2> QED
    BY <2>2, <2>3, <2>4, Zenon DEF ChainInv
<1>4. CASE poll_complete
  <2>0. /\ pc = "poll" /\ cur \notin processed /\ cur \in Entries
        /\ leaf' = [leaf EXCEPT ![cur] = "COMPLETE"]
        /\ UNCHANGED <<chain, pending, inits, input, ready>>
        /\ cur \notin pending
    BY <1>4, Zenon DEF poll_complete, FTypeOK, Initialised
  <2>1. /\ PendingRaw' /\ leaf' \in [Entries -> {"garbage", "IDLE", "RUNNING", "COMPLETE"}]
        /\ \A j \in Entries : leaf'[j] = "RUNNING" => leaf[j] = "RUNNING"
    BY <2>0 DEF PendingRaw, FTypeOK, Lazy
  <2>2. CASE /\ cur \in Mapped /\ pc' = "map"
             /\ UNCHANGED <<processed, cur, chain_state>>
    <3>1. FTypeOK'
      BY <2>0, <2>1, <2>2, Zenon DEF FTypeOK, Lazy
    <3>2. Ordered' /\ Initialised' /\ HandedOn'
      BY <2>0, <2>1, <2>2, Zenon DEF Ordered, Initialised, HandedOn, Mapped
    <3> QED
      BY <2>1, <3>1, <3>2, Zenon DEF ChainInv
  <2>3. CASE /\ cur \notin Mapped
             /\ processed' = processed \cup {cur}
             /\ PollNext
    <3>1. /\ Ordered' /\ Initialised'
          /\ chain_state' \in {"IDLE", "RUNNING", "COMPLETE"} /\ processed' \subseteq Entries
          /\ pc' \in {"out", "poll_next"} /\ cur' \in Entries
      BY <2>0, <2>1, <2>3, PollNextKeeps, Zenon
    <3>2. FTypeOK'
      BY <2>0, <2>1, <3>1, Zenon DEF FTypeOK, Lazy
    <3>3. HandedOn'
      BY <2>0, <2>3, Zenon DEF HandedOn, Mapped
    <3> QED
      BY <2>1, <3>1, <3>2, <3>3, Zenon DEF ChainInv
  <2> QED
    BY <1>4, <2>2, <2>3, Zenon DEF poll_complete
<1>5. CASE poll_running
  <2>0. cur \notin pending
    BY <1>5, Zenon DEF poll_running, Initialised
  <2> QED
    BY <1>5, <2>0 DEF poll_running, ChainInv, FTypeOK, PendingRaw, Ordered,
                      Initialised, HandedOn, Lazy, Mapped, Entries
<1>6. CASE map_init
  <2>1. /\ pc = "map" /\ cur + 1 \in pending /\ RunInit(cur + 1)
        /\ UNCHANGED <<chain, chain_state, ready, processed, pc, cur>>
    BY <1>6, Zenon DEF map_init
  <2>2. /\ FTypeOK' /\ PendingRaw' /\ HandedOn' /\ pending' \subseteq pending
        /\ \A j \in Entries : leaf'[j] = "RUNNING" => leaf[j] = "RUNNING"
    BY <2>1, RunInitKeeps, Zenon DEF FTypeOK
  <2>3. Ordered' /\ Initialised'
    BY <2>1, <2>2, Zenon DEF Ordered, Initialised, Entries
  <2> QED
    BY <2>2, <2>3, Zenon DEF ChainInv
<1>7. CASE map_call
  <2>0. /\ pc = "map" /\ cur + 1 \notin pending /\ cur \in Entries
        /\ input' = [input EXCEPT ![cur + 1] = "mapped"]
        /\ processed' = processed \cup {cur}
        /\ PollNext
        /\ UNCHANGED <<chain, pending, inits, leaf, ready>>
    BY <1>7, Zenon DEF map_call, FTypeOK
  <2>1. /\ Ordered' /\ Initialised'
        /\ chain_state' \in {"IDLE", "RUNNING", "COMPLETE"} /\ processed' \subseteq Entries
        /\ pc' \in {"out", "poll_next"} /\ cur' \in Entries
    BY <2>0, PollNextKeeps, Zenon
  <2>2. cur + 1 \in 1..N+1 /\ \A k \in Entries : k + 1 = cur + 1 => k = cur
    BY <2>0 DEF Entries
  <2>3. FTypeOK'
    BY <2>0, <2>1, <2>2, Zenon DEF FTypeOK, Lazy
  <2>4. PendingRaw' /\ HandedOn'
    BY <2>0, <2>2 DEF PendingRaw, HandedOn, FTypeOK, Mapped
  <2> QED
    BY <2>1, <2>3, <2>4, Zenon DEF ChainInv
<1>8. CASE ask_skip
  <2>0. /\ pc = "ask" /\ cur \in processed /\ cur \in Entries
        /\ \/ cur < N /\ cur' = cur + 1 /\ pc' = "ask_next"
           \/ cur = N /\ cur' = 1 /\ pc' = "out"
        /\ UNCHANGED <<chain, chain_state, pending, inits, leaf, input, ready, processed>>
    BY <1>8, Zenon DEF ask_skip, FTypeOK
  <2>1. cur' \in Entries /\ (pc' = "ask_next" => 1..cur'-1 \subseteq processed)
    <3>1. CASE cur < N /\ cur' = cur + 1 /\ pc' = "ask_next"
      <4>1. 1..cur-1 \subseteq processed
        BY <2>0, Zenon DEF Ordered
      <4>2. cur + 1 \in Entries /\ 1..(cur + 1) - 1 = (1..cur-1) \cup {cur}
        BY <2>0, <3>1, Before, Zenon
      <4> QED
        BY <2>0, <3>1, <4>1, <4>2, Zenon
    <3>2. CASE cur = N /\ cur' = 1 /\ pc' = "out"
      BY <3>2, First, Zenon
    <3> QED
      BY <2>0, <3>1, <3>2, Zenon
  <2>2. FTypeOK'
    BY <2>0, <2>1, Zenon DEF FTypeOK, Lazy
  <2>3. Ordered' /\ Initialised' /\ PendingRaw' /\ HandedOn'
    BY <2>0, <2>1, Zenon DEF Ordered, Initialised, PendingRaw, HandedOn, Mapped
  <2> QED
    BY <2>2, <2>3, Zenon DEF ChainInv
<1>9. CASE ask_entry
  BY <1>9 DEF ask_entry, ChainInv, FTypeOK, PendingRaw, Ordered,
              Initialised, HandedOn, Lazy, Mapped, Entries
<1>10. ASSUME NEW k \in Entries, progress(k) PROVE ChainInv'
  BY <1>10, Zenon DEF progress, ChainInv, FTypeOK, PendingRaw, Ordered,
               Initialised, HandedOn, Lazy, Mapped, Entries
<1>11. CASE UNCHANGED fvars
  BY <1>11, Zenon DEF fvars, ChainInv, FTypeOK, PendingRaw, Ordered,
               Initialised, HandedOn, Lazy, Mapped, Entries
<1> QED
  BY <1>1, <1>2, <1>3, <1>4, <1>5, <1>6, <1>7, <1>8, <1>9, <1>10, <1>11, Zenon
     DEF FNext, LoopStep, FTerminated

\* The invariant holds in every state of every chain.
LEMMA ChainAlways == FSpec => []ChainInv
  BY ChainInit, ChainStep, PTL DEF FSpec

\* What the map of an entry handed on is kept: no lazy init, whoever provokes
\* it, runs over mapped data, in chains of any length and layout.
THEOREM MappedInputIsKept == FSpec => []InputKept
<1>1. ChainInv => InputKept
  BY Zenon DEF ChainInv, HandedOn, InputKept
<1> QED
  BY <1>1, ChainAlways, PTL

\* async_chain_impl initialises an entry before it touches it and runs the
\* entries in order; a complete chain has processed all of them.
THEOREM EntriesRunInSequence == FSpec => []InSequence
<1>1. ChainInv => InSequence
  BY Zenon DEF ChainInv, Ordered, Initialised, InSequence
<1> QED
  BY <1>1, ChainAlways, PTL

------------------------------------------------------------------------------
(***************************************************************************)
(* The operations of a data mover.                                         *)
(***************************************************************************)
Types == {"MEMCPY", "MEMMOVE", "MEMSET", "FLUSH"}
Outputs ==
  [type : Types, result : {"SUCCESS", "OUT_OF_MEMORY", "JOB_CORRUPTED"}, dest : Futs \cup {NULL}]

\* The poll of a future is under way.
Polled(f) == poll.at # "out" /\ poll.fut = f

\* Exactly the operation asked for was done.
AsAsked(f) == done[f] = [Performed(op[f]) EXCEPT !.honours = done[f].honours]

\* Every variable is a function over the futures of the right type.
VdmType ==
  /\ kind \in {"none", "sync", "threads", "dml"}
  /\ owned \subseteq {"mover", "membuf", "ringbuf", "threads"}
  /\ op = [f \in Futs |-> op[f]] /\ job = [f \in Futs |-> job[f]]
  /\ \A f \in Futs : op[f] \in Requests(f) \cup {NULL}
  /\ state \in [Futs -> {"none", "IDLE", "RUNNING", "COMPLETE"}]
  /\ block \in [Futs -> {"none", "live", "freed"}]
  /\ engine \in [Futs -> {"idle", "processing", "ok", "corrupted", "refused"}]
  /\ done \in [Futs -> Effects \cup {NULL}]
  /\ output \in [Futs -> Outputs \cup {NULL}]
  /\ poll \in [fut : Futs \cup {NULL}, at : {"out", "check", "delete"}]
  /\ exited \in BOOLEAN

\* How far a future is: its block is live while it is pending, and the engine
\* has nothing of it before its first poll and nothing left when it is complete.
LifeInv(f) ==
  /\ op[f] = NULL => state[f] = "none"
  /\ state[f] = "none" => engine[f] = "idle" /\ (op[f] # NULL => exited)
  /\ block[f] = "live" => state[f] \in {"IDLE", "RUNNING"} /\ kind # "none"
  /\ state[f] = "IDLE" /\ ~Polled(f) => engine[f] = "idle"
  /\ state[f] = "RUNNING" => engine[f] # "idle"
  /\ state[f] = "COMPLETE" => engine[f] # "processing"
  /\ Polled(f) => state[f] \in {"IDLE", "RUNNING"} /\ kind # "none"
  /\ Polled(f) /\ poll.at = "delete" => engine[f] \in {"ok", "corrupted", "refused"}

\* What the engine has of a future agrees with the operation asked for.
JobInv(f) ==
  /\ engine[f] = "processing" => kind \in {"threads", "dml"}
  /\ engine[f] \in {"corrupted", "refused"} => kind \in {"dml", "none"}
  /\ kind = "threads" /\ engine[f] = "processing" => job[f] = op[f]
  /\ kind = "dml" /\ engine[f] # "idle" => job[f] = JobInit(op[f])
  /\ done[f] = NULL <=> engine[f] # "ok"
  /\ done[f] # NULL => /\ AsAsked(f)
                       /\ kind \in {"sync", "threads"} => op[f].type # "FLUSH"
                       /\ kind = "dml" => done[f] = dml_execute(JobInit(op[f]))

OutputInv(f) ==
  state[f] = "COMPLETE" =>
    /\ output[f].type = op[f].type
    /\ IF output[f].result = "SUCCESS"
       THEN /\ done[f] # NULL
            /\ output[f].dest = IF op[f].type = "FLUSH" THEN NULL ELSE op[f].dest
       ELSE done[f] = NULL

VdmInv ==
  /\ VdmType
  /\ poll.at # "out" => poll.fut \in Futs
  /\ kind = "none" => owned = {}
  /\ \A f \in Futs : LifeInv(f) /\ JobInv(f) /\ OutputInv(f)

-----------------------------------------------------------------------------
\* A remainder is smaller than the divisor and no larger than the number.
LEMMA Remainder ==
  ASSUME NEW x \in Nat, NEW d \in Nat \ {0}
  PROVE  x % d \in 0..d-1 /\ x % d <= x
<1>1. x % d \in 0..d-1
  BY SMT
<1>2. CASE x < d
  BY <1>1, <1>2, SMT
<1>3. CASE x >= d
  BY <1>1, <1>3
<1>. QED
  BY <1>1, <1>2, <1>3

\* The fields of a request.
LEMMA RequestFields ==
  ASSUME NEW f \in Futs, NEW o \in Requests(f)
  PROVE  /\ o.type \in Types /\ o.dest = f /\ o.n \in Sizes \cup {1} /\ o.flags \in Masks
         /\ o.type = "MEMSET" => o.n \in Sizes
         /\ o # NULL /\ o.n \in Nat
  BY VdmAssumption, NullAssumption DEF Requests, Types

\* The pattern of a memset's job, repeated over the whole length, is the byte of
\* the memset everywhere: what it lacks beyond a short size is never reached.
LEMMA PatternFills ==
  ASSUME NEW n \in Nat
  PROVE  [i \in 1..n |-> Pattern(n)[(i - 1) % PatternLen]] = [i \in 1..n |-> "c"]
<1>. SUFFICES ASSUME NEW i \in 1..n
              PROVE  Pattern(n)[(i - 1) % PatternLen] = "c"
  BY Zenon
<1>1. PICK k \in Nat : k = i - 1 /\ k < n
  BY SMT
<1>2. k % PatternLen \in 0..PatternLen-1 /\ k % PatternLen <= k
  BY Remainder, VdmAssumption, Zenon
<1>3. PICK r \in 0..PatternLen-1 : r = k % PatternLen /\ r < n
  BY <1>1, <1>2, VdmAssumption
<1>. QED
  BY <1>1, <1>3, Zenon DEF Pattern

\* The job of the DML mover tells the operation it was made for.
LEMMA JobTells ==
  ASSUME NEW f \in Futs, NEW o \in Requests(f)
  PROVE  /\ JobType(JobInit(o)) = o.type
         /\ JobInit(o).operation = "CACHE_FLUSH" <=> o.type = "FLUSH"
         /\ JobInit(o).operation = "FILL" <=> o.type = "MEMSET"
         /\ JobInit(o).destination = o.dest
         /\ JobInit(o).length = o.n
         /\ JobInit(o).pattern = Pattern(o.n)
<1>1. o.type \in Types
  BY RequestFields, Zenon
<1>2. "COPY_ONLY" \in JobInit(o).flags <=> o.type = "MEMCPY"
  BY Zenon DEF JobInit, data_mover_dml_translate_flags
<1>3. JobInit(o).operation = CASE o.type \in {"MEMCPY", "MEMMOVE"} -> "MEM_MOVE"
                               [] o.type = "MEMSET" -> "FILL"
                               [] o.type = "FLUSH" -> "CACHE_FLUSH"
  BY Zenon DEF JobInit
<1>4. /\ JobInit(o).destination = o.dest /\ JobInit(o).length = o.n
      /\ JobInit(o).pattern = Pattern(o.n)
  BY Zenon DEF JobInit
<1>. QED
  BY <1>1, <1>2, <1>3, <1>4, Zenon DEF Types, JobType

\* What is done for an operation is one of Effects, and not NULL.
LEMMA PerformedIsEffect ==
  ASSUME NEW f \in Futs, NEW o \in Requests(f)
  PROVE  /\ Performed(o) \in Effects /\ Performed(o) # NULL
         /\ Performed(o) = [Performed(o) EXCEPT !.honours = Performed(o).honours]
<1>1. /\ o.type \in Types /\ o.dest \in Futs /\ o.n \in Sizes \cup {1}
      /\ o.type = "MEMSET" => o.n \in Sizes
  BY RequestFields, Zenon
<1>2. (IF o.type = "MEMSET" THEN [i \in 1..o.n |-> "c"] ELSE <<>>)
        \in {<<>>} \cup UNION {[1..n -> {"c"}] : n \in Sizes}
  <2>1. CASE o.type = "MEMSET"
    <3>1. [i \in 1..o.n |-> "c"] \in [1..o.n -> {"c"}]
      BY Zenon
    <3>. QED
      BY <1>1, <2>1, <3>1, Zenon
  <2>. QED
    BY <2>1, Zenon
<1>3. Performed(o) \in Effects
  BY <1>1, <1>2, Zenon DEF Performed, Effects, Types
<1>. QED
  BY <1>3, NullAssumption, Zenon DEF Performed

\* The accelerator does for the job of an operation what the other movers do,
\* except that it may honour flags.
LEMMA JobIsTheOperation ==
  ASSUME NEW f \in Futs, NEW o \in Requests(f)
  PROVE  LET e == dml_execute(JobInit(o))
         IN  /\ e \in Effects /\ e # NULL
             /\ e = [Performed(o) EXCEPT !.honours = e.honours]
             /\ Has(o.flags, MEM_DURABLE) => MEM_DURABLE \in e.honours
<1>. DEFINE j == JobInit(o)
            e == dml_execute(j)
            F == IF o.type = "MEMSET" THEN [i \in 1..o.n |-> "c"] ELSE <<>>
<1>1. o.n \in Nat
  BY RequestFields, Zenon
<1>2. (IF j.operation = "FILL"
       THEN [i \in 1..j.length |-> j.pattern[(i - 1) % PatternLen]] ELSE <<>>) = F
  <2>1. CASE o.type = "MEMSET"
    <3>1. j.operation = "FILL" /\ j.length = o.n /\ j.pattern = Pattern(o.n)
      BY <2>1, JobTells, Zenon
    <3>. QED
      BY <2>1, <3>1, <1>1, PatternFills, Zenon
  <2>2. CASE o.type # "MEMSET"
    BY <2>2, JobTells, Zenon
  <2>. QED
    BY <2>1, <2>2, Zenon
<1>. DEFINE H == (IF "DST1_DURABLE" \in j.flags THEN {MEM_DURABLE} ELSE {})
                   \cup (IF "PREFETCH_CACHE" \in j.flags THEN {} ELSE {NO_CACHE_HINT})
<1>3. e = [type |-> o.type, dest |-> o.dest, n |-> o.n, fill |-> F, honours |-> H]
  <2>1. JobType(j) = o.type /\ j.destination = o.dest /\ j.length = o.n
    BY JobTells, Zenon
  <2>2. e = [type |-> JobType(j), dest |-> j.destination, n |-> j.length,
             fill |-> IF j.operation = "FILL"
                      THEN [i \in 1..j.length |-> j.pattern[(i - 1) % PatternLen]] ELSE <<>>,
             honours |-> H]
    BY Zenon DEF dml_execute
  <2>. QED
    BY <2>1, <2>2, <1>2, Zenon
<1>4. Performed(o) = [type |-> o.type, dest |-> o.dest, n |-> o.n, fill |-> F, honours |-> {}]
  BY Zenon DEF Performed
<1>. HIDE DEF F, H, e, j
<1>5. e = [Performed(o) EXCEPT !.honours = e.honours]
  BY <1>3, <1>4
<1>6. H \in SUBSET {MEM_DURABLE, NO_CACHE_HINT}
  BY Zenon DEF H
<1>7. e \in Effects
  BY <1>3, <1>4, <1>6, PerformedIsEffect DEF Effects
<1>8. Has(o.flags, MEM_DURABLE) => MEM_DURABLE \in e.honours
  <2>1. Has(o.flags, MEM_DURABLE) => "DST1_DURABLE" \in j.flags
    BY Zenon DEF j, JobInit, data_mover_dml_translate_flags
  <2>. QED
    BY <2>1, <1>3, Zenon DEF H
<1>. QED
  BY <1>5, <1>7, <1>8, NullAssumption, Zenon DEF e, j

-----------------------------------------------------------------------------
FutInv(f) == LifeInv(f) /\ JobInv(f) /\ OutputInv(f)

\* Nothing has happened at the start.
LEMMA InitInv == Init => VdmInv
<1>. SUFFICES ASSUME Init PROVE VdmInv
  BY Zenon
<1>1. VdmType
  BY Zenon DEF Init, VdmType
<1>2. \A f \in Futs : LifeInv(f) /\ JobInv(f) /\ OutputInv(f)
  BY Zenon DEF Init, LifeInv, JobInv, OutputInv, Polled
<1>. QED
  BY <1>1, <1>2, Zenon DEF Init, VdmInv

\* A future that a step does not touch keeps its part of the invariant.
LEMMA Untouched ==
  ASSUME VdmInv, NEW g \in Futs,
         op'[g] = op[g], state'[g] = state[g], block'[g] = block[g], job'[g] = job[g],
         engine'[g] = engine[g], done'[g] = done[g], output'[g] = output[g],
         kind' = kind, exited => exited',
         Polled(g)' <=> Polled(g), Polled(g) => poll' = poll
  PROVE  FutInv(g)'
<1>1. LifeInv(g) /\ JobInv(g) /\ OutputInv(g)
  BY Zenon DEF VdmInv
<1>2. LifeInv(g)'
  BY <1>1, Zenon DEF LifeInv
<1>3. JobInv(g)'
  BY <1>1, Zenon DEF JobInv, AsAsked
<1>4. OutputInv(g)'
  BY <1>1, Zenon DEF OutputInv
<1>. QED
  BY <1>2, <1>3, <1>4, Zenon DEF FutInv

\* new: there is no future yet.
LEMMA NewStep == VdmInv /\ new => VdmInv'
<1>. SUFFICES ASSUME VdmInv, new PROVE VdmInv'
  BY Zenon
<1>1. /\ poll.at = "out" /\ ~exited /\ kind = "none" /\ \A f \in Futs : op[f] = NULL
      /\ UNCHANGED <<op, state, block, job, engine, done, output, poll, exited>>
      /\ kind' \in {"none", "sync", "threads", "dml"}
      /\ owned' \subseteq {"mover", "membuf", "ringbuf", "threads"}
      /\ kind' = "none" => owned' = {}
  <2>1. data_mover_sync_new \/ data_mover_threads_new \/ data_mover_dml_new
    BY Zenon DEF new
  <2>2. /\ kind' \in {"none", "sync", "threads", "dml"}
        /\ owned' \subseteq {"mover", "membuf", "ringbuf", "threads"}
        /\ kind' = "none" => owned' = {}
    BY <2>1, Zenon DEF data_mover_sync_new, data_mover_threads_new, data_mover_dml_new
  <2>. QED
    BY <2>2, Zenon DEF new, Idle, futures
<1>2. VdmType'
  BY <1>1, Zenon DEF VdmInv, VdmType
<1>3. ASSUME NEW g \in Futs
      PROVE  LifeInv(g)' /\ JobInv(g)' /\ OutputInv(g)'
  <2>1. LifeInv(g) /\ JobInv(g) /\ OutputInv(g) /\ op[g] = NULL
    BY <1>1, Zenon DEF VdmInv
  <2>2. state[g] = "none" /\ engine[g] = "idle" /\ done[g] = NULL /\ block[g] # "live"
    BY <2>1, <1>1, Zenon DEF LifeInv, JobInv
  <2>. QED
    BY <2>1, <2>2, <1>1, Zenon DEF LifeInv, JobInv, OutputInv, Polled
<1>. QED
  BY <1>1, <1>2, <1>3, Zenon DEF VdmInv

\* delete: nothing of any future is being processed.
LEMMA DeleteStep == VdmInv /\ delete => VdmInv'
<1>. SUFFICES ASSUME VdmInv, delete PROVE VdmInv'
  BY Zenon
<1>1. /\ poll.at = "out" /\ ~exited /\ \A f \in Futs : engine[f] # "processing"
      /\ kind' = "none" /\ owned' = {}
      /\ block' = [f \in Futs |-> IF block[f] = "live" THEN "freed" ELSE block[f]]
      /\ UNCHANGED <<op, state, job, engine, done, output, poll, exited>>
  BY Zenon DEF delete, Idle
<1>2. VdmType'
  <2>1. block' \in [Futs -> {"none", "live", "freed"}]
    BY <1>1, Zenon DEF VdmInv, VdmType
  <2>. QED
    BY <1>1, <2>1 DEF VdmInv, VdmType
<1>3. ASSUME NEW g \in Futs
      PROVE  LifeInv(g)' /\ JobInv(g)' /\ OutputInv(g)'
  <2>1. LifeInv(g) /\ JobInv(g) /\ OutputInv(g)
    BY Zenon DEF VdmInv
  <2>2. block'[g] # "live"
    BY <1>1, Zenon
  <2>3. LifeInv(g)'
    BY <2>1, <2>2, <1>1, Zenon DEF LifeInv, Polled
  <2>4. JobInv(g)'
    BY <2>1, <1>1, Zenon DEF JobInv, AsAsked
  <2>. QED
    BY <2>1, <2>3, <2>4, <1>1, Zenon DEF OutputInv
<1>. QED
  BY <1>1, <1>2, <1>3, Zenon DEF VdmInv

\* The creation of a future, with memory for the operation and without.
LEMMA CreateStep ==
  ASSUME VdmInv, NEW f \in Futs, vdm_generic_operation(f)
  PROVE  VdmInv'
<1>1. /\ poll.at = "out" /\ ~exited /\ kind # "none" /\ op[f] = NULL
      /\ UNCHANGED <<kind, owned, job, engine, done, poll>>
  BY Zenon DEF vdm_generic_operation, Idle
<1>2. PICK o \in Requests(f) : op' = [op EXCEPT ![f] = o]
  BY Zenon DEF vdm_generic_operation
<1>3. op'[f] = o /\ op' = [g \in Futs |-> op'[g]] /\ \A g \in Futs \ {f} : op'[g] = op[g]
  BY <1>2, Zenon DEF VdmInv, VdmType
<1>4. o.type \in Types /\ o # NULL
  BY RequestFields, Zenon
<1>5. LifeInv(f) /\ JobInv(f) /\ state[f] = "none" /\ engine[f] = "idle" /\ done[f] = NULL
  BY <1>1, Zenon DEF VdmInv, LifeInv, JobInv
<1>6. \/ /\ block' = [block EXCEPT ![f] = "live"]
         /\ state' = [state EXCEPT ![f] = "IDLE"]
         /\ exited' = exited
         /\ output' = [output EXCEPT ![f] =
              [type |-> o.type, result |-> "SUCCESS", dest |-> NULL]]
      \/ /\ block' = block \/ block' = [block EXCEPT ![f] = "freed"]
         /\ state' = [state EXCEPT ![f] = "COMPLETE"]
         /\ exited' = exited
         /\ output' = [output EXCEPT ![f] =
              [type |-> o.type, result |-> "OUT_OF_MEMORY", dest |-> NULL]]
      \/ exited' = TRUE /\ UNCHANGED <<block, state, output>>
  BY <1>3, Zenon DEF vdm_generic_operation, Created, NotCreated
<1>7. VdmType'
  <2>1. /\ block' \in [Futs -> {"none", "live", "freed"}]
        /\ state' \in [Futs -> {"none", "IDLE", "RUNNING", "COMPLETE"}]
        /\ exited' \in BOOLEAN
    BY <1>6, ZenonT(30) DEF VdmInv, VdmType
  <2>2. output' \in [Futs -> Outputs \cup {NULL}]
    <3>1. /\ [type |-> o.type, result |-> "SUCCESS", dest |-> NULL] \in Outputs
          /\ [type |-> o.type, result |-> "OUT_OF_MEMORY", dest |-> NULL] \in Outputs
      BY <1>4, Zenon DEF Outputs
    <3>. QED
      BY <3>1, <1>6 DEF VdmInv, VdmType
  <2>3. \A g \in Futs : op'[g] \in Requests(g) \cup {NULL}
    BY <1>3, Zenon DEF VdmInv, VdmType
  <2>. QED
    BY <1>1, <1>3, <2>1, <2>2, <2>3 DEF VdmInv, VdmType
<1>8. ASSUME NEW g \in Futs PROVE FutInv(g)'
  <2>1. CASE g # f
    <3>1. state'[g] = state[g] /\ block'[g] = block[g] /\ output'[g] = output[g]
      BY <1>6, <2>1 DEF VdmInv, VdmType
    <3>2. Polled(g)' <=> Polled(g)
      BY <1>1, Zenon DEF Polled
    <3>. QED
      BY <1>1, <1>3, <2>1, <3>1, <3>2, Untouched, Zenon
  <2>2. CASE g = f
    <3>1. ~Polled(f)'
      BY <1>1, Zenon DEF Polled
    <3>2. /\ op'[f].type = o.type /\ op'[f] # NULL
          /\ engine'[f] = "idle" /\ done'[f] = NULL
      BY <1>1, <1>3, <1>4, <1>5, Zenon
    <3>3. \/ state'[f] = "IDLE" /\ exited' = exited
          \/ /\ state'[f] = "COMPLETE" /\ exited' = exited /\ block'[f] # "live"
             /\ output'[f] = [type |-> o.type, result |-> "OUT_OF_MEMORY", dest |-> NULL]
          \/ state'[f] = "none" /\ exited' = TRUE /\ block'[f] # "live"
      BY <1>5, <1>6 DEF VdmInv, VdmType, LifeInv
    <3>4. LifeInv(f)'
      BY <1>1, <3>1, <3>2, <3>3, Zenon DEF LifeInv
    <3>5. JobInv(f)'
      BY <1>1, <3>2, Zenon DEF JobInv
    <3>6. OutputInv(f)'
      BY <3>2, <3>3 DEF OutputInv
    <3>. QED
      BY <2>2, <3>4, <3>5, <3>6, Zenon DEF FutInv
  <2>. QED
    BY <2>1, <2>2, Zenon
<1>. QED
  BY <1>1, <1>7, <1>8, Zenon DEF VdmInv, FutInv

\* The first part of a poll: op_start of the three movers.
LEMMA PollStartStep ==
  ASSUME VdmInv, NEW f \in Futs, poll_start(f)
  PROVE  VdmInv'
<1>1. /\ poll.at = "out" /\ ~exited /\ kind # "none" /\ state[f] \in {"IDLE", "RUNNING"}
      /\ UNCHANGED <<kind, owned, op, state, block, output>>
  BY Zenon DEF poll_start, Idle
<1>2. /\ LifeInv(f) /\ JobInv(f) /\ op[f] \in Requests(f)
      /\ state[f] = "IDLE" => engine[f] = "idle" /\ done[f] = NULL
  BY <1>1, Zenon DEF VdmInv, VdmType, LifeInv, JobInv, Polled
<1>3. \/ exited' = TRUE /\ UNCHANGED <<job, engine, done, poll>>
      \/ /\ state[f] = "IDLE" /\ kind = "sync" /\ op[f].type # "FLUSH"
         /\ done' = [done EXCEPT ![f] = Performed(op[f])]
         /\ engine' = [engine EXCEPT ![f] = "ok"]
         /\ poll' = [fut |-> f, at |-> "check"]
         /\ UNCHANGED <<job, exited>>
      \/ /\ state[f] = "IDLE" /\ kind = "threads"
         /\ job' = [job EXCEPT ![f] = op[f]]
         /\ engine' \in {engine, [engine EXCEPT ![f] = "processing"]}
         /\ poll' = [fut |-> f, at |-> "check"]
         /\ UNCHANGED <<done, exited>>
      \/ /\ state[f] = "IDLE" /\ kind = "dml"
         /\ job' = [job EXCEPT ![f] = JobInit(op[f])]
         /\ engine' \in {[engine EXCEPT ![f] = e] : e \in {"processing", "refused"}}
         /\ poll' = [fut |-> f, at |-> "check"]
         /\ UNCHANGED <<done, exited>>
      \/ /\ state[f] = "RUNNING"
         /\ poll' = [fut |-> f, at |-> "check"]
         /\ UNCHANGED <<job, engine, done, exited>>
  BY Zenon DEF poll_start, sync_operation_start, data_mover_threads_operation_start,
         data_mover_dml_operation_start
<1>4. Performed(op[f]) \in Effects /\ Performed(op[f]) # NULL
  BY <1>2, PerformedIsEffect, Zenon
<1>5. VdmType'
  <2>1. engine' \in [Futs -> {"idle", "processing", "ok", "corrupted", "refused"}]
    BY <1>3 DEF VdmInv, VdmType
  <2>2. done' \in [Futs -> Effects \cup {NULL}]
    BY <1>3, <1>4 DEF VdmInv, VdmType
  <2>3. job' = [g \in Futs |-> job'[g]]
    BY <1>3 DEF VdmInv, VdmType
  <2>4. poll' \in [fut : Futs \cup {NULL}, at : {"out", "check", "delete"}] /\ exited' \in BOOLEAN
    <3>1. /\ poll' = poll \/ poll' = [fut |-> f, at |-> "check"]
          /\ exited' = exited \/ exited' = TRUE
      BY <1>3, Zenon
    <3>2. [fut |-> f, at |-> "check"] \in [fut : Futs \cup {NULL}, at : {"out", "check", "delete"}]
      BY Zenon
    <3>. QED
      BY <3>1, <3>2, ZenonT(30) DEF VdmInv, VdmType
  <2>. QED
    BY <1>1, <2>1, <2>2, <2>3, <2>4, Zenon DEF VdmInv, VdmType
<1>6. ASSUME NEW g \in Futs PROVE FutInv(g)'
  <2>1. CASE g # f
    <3>1. engine'[g] = engine[g] /\ done'[g] = done[g] /\ job'[g] = job[g]
      BY <1>3, <2>1 DEF VdmInv, VdmType
    <3>2. ~Polled(g)' /\ ~Polled(g)
      BY <1>1, <1>3, <2>1 DEF Polled
    <3>. QED
      BY <1>1, <3>1, <3>2, Untouched, Zenon
  <2>2. CASE g = f
    <3>1. LifeInv(f)'
      <4>1. engine'[f] # "idle" \/ engine'[f] = engine[f]
        BY <1>3 DEF VdmInv, VdmType
      <4>2. (Polled(f)' /\ poll'.at = "check") \/ (poll' = poll /\ engine' = engine /\ exited' = TRUE)
        BY <1>3 DEF Polled
      <4>. QED
        BY <1>1, <1>2, <4>1, <4>2, Zenon DEF LifeInv, Polled
    <3>2. JobInv(f)'
      <4>1. CASE job' = job /\ engine' = engine /\ done' = done
        BY <1>1, <1>2, <4>1, Zenon DEF JobInv, AsAsked
      <4>2. CASE kind = "sync" /\ op[f].type # "FLUSH" /\ done' = [done EXCEPT ![f] = Performed(op[f])]
                   /\ engine' = [engine EXCEPT ![f] = "ok"]
        <5>1. done'[f] = Performed(op[f]) /\ engine'[f] = "ok"
          BY <4>2 DEF VdmInv, VdmType
        <5>2. AsAsked(f)'
          BY <5>1, <1>1, <1>2, PerformedIsEffect, Zenon DEF AsAsked
        <5>. QED
          BY <5>1, <5>2, <4>2, <1>1, <1>4, Zenon DEF JobInv
      <4>3. CASE state[f] = "IDLE" /\ kind = "threads" /\ job' = [job EXCEPT ![f] = op[f]]
                   /\ engine' \in {engine, [engine EXCEPT ![f] = "processing"]} /\ done' = done
        <5>1. job'[f] = op[f] /\ engine'[f] \in {"idle", "processing"} /\ done'[f] = NULL
          BY <4>3, <1>2 DEF VdmInv, VdmType
        <5>. QED
          BY <5>1, <4>3, <1>1, Zenon DEF JobInv
      <4>4. CASE state[f] = "IDLE" /\ kind = "dml" /\ job' = [job EXCEPT ![f] = JobInit(op[f])]
                   /\ engine' \in {[engine EXCEPT ![f] = e] : e \in {"processing", "refused"}}
                   /\ done' = done
        <5>1. job'[f] = JobInit(op[f]) /\ engine'[f] \in {"refused", "processing"} /\ done'[f] = NULL
          BY <4>4, <1>2 DEF VdmInv, VdmType
        <5>2. job'[f] = JobInit(op[f])'
          BY <5>1, <1>1, Zenon DEF JobInit
        <5>. QED
          BY <5>1, <5>2, <4>4, <1>1, Zenon DEF JobInv
      <4>. QED
        BY <1>3, <4>1, <4>2, <4>3, <4>4, Zenon
    <3>3. OutputInv(f)'
      BY <1>1, Zenon DEF OutputInv
    <3>. QED
      BY <2>2, <3>1, <3>2, <3>3, Zenon DEF FutInv
  <2>. QED
    BY <2>1, <2>2, Zenon
<1>7. poll'.at # "out" => poll'.fut \in Futs
  BY <1>1, <1>3
<1>. QED
  BY <1>1, <1>5, <1>6, <1>7, Zenon DEF VdmInv, FutInv

\* The engine: a worker of the threads mover, or the accelerator.
LEMMA EngineInvStep ==
  ASSUME VdmInv, NEW f \in Futs, EngineStep(f)
  PROVE  VdmInv'
<1>1. /\ engine[f] = "processing" /\ ~exited /\ kind \in {"threads", "dml"}
      /\ UNCHANGED <<kind, owned, op, state, block, job, output, poll>>
  BY Zenon DEF EngineStep, data_mover_threads_do_operation, dml_process
<1>2. LifeInv(f) /\ JobInv(f) /\ OutputInv(f) /\ op[f] \in Requests(f)
  BY <1>1, Zenon DEF VdmInv, VdmType, LifeInv
<1>3. \/ exited' = TRUE /\ UNCHANGED <<done, engine>>
      \/ /\ done' = [done EXCEPT ![f] = Performed(op[f])]
         /\ engine' = [engine EXCEPT ![f] = "ok"]
         /\ kind = "threads" /\ op[f].type # "FLUSH"
         /\ UNCHANGED exited
      \/ /\ done' = [done EXCEPT ![f] = dml_execute(JobInit(op[f]))]
         /\ engine' = [engine EXCEPT ![f] = "ok"]
         /\ kind = "dml"
         /\ UNCHANGED exited
      \/ /\ engine' = [engine EXCEPT ![f] = "corrupted"]
         /\ kind = "dml"
         /\ UNCHANGED <<done, exited>>
  <2>1. CASE data_mover_threads_do_operation(f)
    <3>1. job[f] = op[f]
      BY <2>1, <1>2, Zenon DEF JobInv, data_mover_threads_do_operation
    <3>. QED
      BY <2>1, <3>1, Zenon DEF data_mover_threads_do_operation
  <2>2. CASE dml_process(f)
    <3>1. job[f] = JobInit(op[f])
      BY <2>2, <1>2, Zenon DEF JobInv, dml_process
    <3>. QED
      BY <2>2, <3>1, Zenon DEF dml_process
  <2>. QED
    BY <2>1, <2>2, Zenon DEF EngineStep
<1>. DEFINE e == dml_execute(JobInit(op[f]))
<1>4. /\ Performed(op[f]) \in Effects /\ Performed(op[f]) # NULL
      /\ Performed(op[f]) = [Performed(op[f]) EXCEPT !.honours = Performed(op[f]).honours]
      /\ e \in Effects /\ e # NULL
      /\ e = [Performed(op[f]) EXCEPT !.honours = e.honours]
  BY <1>2, PerformedIsEffect, JobIsTheOperation, Zenon
<1>. HIDE DEF e
<1>5. VdmType'
  <2>1. engine' \in [Futs -> {"idle", "processing", "ok", "corrupted", "refused"}]
    BY <1>3 DEF VdmInv, VdmType
  <2>2. done' \in [Futs -> Effects \cup {NULL}]
    BY <1>3, <1>4 DEF VdmInv, VdmType, e
  <2>3. exited' \in BOOLEAN
    BY <1>3, Zenon DEF VdmInv, VdmType
  <2>. QED
    BY <1>1, <2>1, <2>2, <2>3 DEF VdmInv, VdmType
<1>6. ASSUME NEW g \in Futs PROVE FutInv(g)'
  <2>0. Polled(g)' <=> Polled(g)
    BY <1>1, Zenon DEF Polled
  <2>1. CASE g # f
    <3>1. engine'[g] = engine[g] /\ done'[g] = done[g]
      BY <1>3, <2>1 DEF VdmInv, VdmType
    <3>2. job'[g] = job[g]
      BY <1>1, Zenon
    <3>. QED
      BY <1>1, <2>0, <3>1, <3>2, Untouched, Zenon
  <2>2. CASE g = f
    <3>1. engine'[f] \in {"ok", "corrupted"} \/ (engine' = engine /\ done' = done)
      BY <1>3 DEF VdmInv, VdmType
    <3>2. LifeInv(f)'
      BY <1>1, <1>2, <1>3, <2>0, <2>2, <3>1, Zenon DEF LifeInv
    <3>3. JobInv(f)'
      <4>1. CASE UNCHANGED <<done, engine>>
        BY <4>1, <1>1, <1>2, Zenon DEF JobInv, AsAsked
      <4>2. CASE done' = [done EXCEPT ![f] = Performed(op[f])] /\ kind = "threads"
                   /\ op[f].type # "FLUSH" /\ engine' = [engine EXCEPT ![f] = "ok"]
        <5>1. done'[f] = Performed(op[f]) /\ engine'[f] = "ok"
          BY <4>2 DEF VdmInv, VdmType
        <5>. QED
          BY <5>1, <4>2, <1>1, <1>4, Zenon DEF JobInv, AsAsked
      <4>3. CASE done' = [done EXCEPT ![f] = e] /\ kind = "dml"
                   /\ engine' = [engine EXCEPT ![f] = "ok"]
        <5>1. done'[f] = e /\ engine'[f] = "ok"
          BY <4>3 DEF VdmInv, VdmType
        <5>2. AsAsked(f)'
          BY <5>1, <1>1, <1>4, Zenon DEF AsAsked
        <5>3. done'[f] = dml_execute(JobInit(op'[f]))
          BY <5>1, <1>1, Zenon DEF e
        <5>4. job'[f] = JobInit(op'[f])
          BY <1>1, <1>2, <4>3, Zenon DEF JobInv
        <5>. QED
          BY <5>1, <5>2, <5>3, <5>4, <4>3, <1>1, <1>4, Zenon DEF JobInv
      <4>4. CASE engine' = [engine EXCEPT ![f] = "corrupted"] /\ kind = "dml" /\ done' = done
        <5>1. engine'[f] = "corrupted" /\ done[f] = NULL
          BY <4>4, <1>1, <1>2, Zenon DEF VdmInv, VdmType, JobInv
        <5>. QED
          BY <5>1, <4>4, <1>1, <1>2, Zenon DEF JobInv
      <4>. QED
        BY <1>3, <4>1, <4>2, <4>3, <4>4, Zenon DEF e
    <3>4. state[f] # "COMPLETE"
      BY <1>1, <1>2, Zenon DEF LifeInv
    <3>. QED
      BY <1>1, <2>2, <3>2, <3>3, <3>4, Zenon DEF FutInv, OutputInv
  <2>. QED
    BY <2>1, <2>2, Zenon
<1>. QED
  BY <1>1, <1>5, <1>6, Zenon DEF VdmInv, FutInv

\* The second part of a poll: op_check.
LEMMA PollCheckStep == VdmInv /\ poll_check => VdmInv'
<1>. SUFFICES ASSUME VdmInv, poll_check PROVE VdmInv'
  BY Zenon
<1>1. PICK f \in Futs : f = poll.fut
  BY Zenon DEF VdmInv, poll_check
<1>2. /\ poll.at = "check" /\ ~exited
      /\ UNCHANGED <<kind, owned, op, block, job, engine, done, output, exited>>
  BY Zenon DEF poll_check
<1>3. PICK s \in op_check(f) :
        IF s = "COMPLETE"
        THEN poll' = [poll EXCEPT !.at = "delete"] /\ UNCHANGED state
        ELSE poll' = [fut |-> NULL, at |-> "out"] /\ state' = [state EXCEPT ![f] = s]
  BY <1>1, Zenon DEF poll_check
<1>4. /\ engine[f] \in {"idle", "processing", "ok", "corrupted", "refused"}
      /\ LifeInv(f) /\ JobInv(f) /\ OutputInv(f) /\ Polled(f)
  BY <1>1, <1>2, Zenon DEF VdmInv, VdmType, Polled
<1>5. /\ s = "COMPLETE" => engine[f] \in {"ok", "corrupted", "refused"}
      /\ s # "COMPLETE" => \/ s = "IDLE" /\ engine[f] = "idle"
                           \/ s = "RUNNING" /\ engine[f] # "idle"
  BY <1>4, Zenon DEF op_check
<1>6. /\ s = "COMPLETE" => poll' = [fut |-> f, at |-> "delete"]
      /\ s # "COMPLETE" => poll' = [fut |-> NULL, at |-> "out"]
  <2>1. poll = [fut |-> poll.fut, at |-> poll.at]
    BY Zenon DEF VdmInv, VdmType
  <2>. QED
    BY <1>1, <1>3, <2>1, Zenon
<1>7. VdmType'
  <2>1. /\ [fut |-> f, at |-> "delete"] \in [fut : Futs \cup {NULL}, at : {"out", "check", "delete"}]
        /\ [fut |-> NULL, at |-> "out"] \in [fut : Futs \cup {NULL}, at : {"out", "check", "delete"}]
    BY Zenon
  <2>2. state' \in [Futs -> {"none", "IDLE", "RUNNING", "COMPLETE"}]
    BY <1>3, <1>5 DEF VdmInv, VdmType
  <2>. QED
    BY <1>2, <1>6, <2>1, <2>2, Zenon DEF VdmInv, VdmType
<1>8. ASSUME NEW g \in Futs PROVE FutInv(g)'
  <2>1. CASE g # f
    <3>1. ~Polled(g)' /\ ~Polled(g)
      BY <1>1, <1>6, <2>1 DEF Polled
    <3>2. state'[g] = state[g]
      BY <1>3, <2>1 DEF VdmInv, VdmType
    <3>. QED
      BY <1>2, <3>1, <3>2, Untouched, Zenon
  <2>2. CASE g = f
    <3>1. state'[f] = (IF s = "COMPLETE" THEN state[f] ELSE s)
      BY <1>3 DEF VdmInv, VdmType
    <3>2. LifeInv(f)'
      BY <1>2, <1>4, <1>5, <1>6, <3>1 DEF LifeInv, Polled
    <3>3. JobInv(f)'
      BY <1>2, <1>4, Zenon DEF JobInv, AsAsked
    <3>4. state'[f] # "COMPLETE"
      BY <1>4, <1>5, <3>1, Zenon DEF LifeInv
    <3>. QED
      BY <2>2, <3>2, <3>3, <3>4, Zenon DEF FutInv, OutputInv
  <2>. QED
    BY <2>1, <2>2, Zenon
<1>9. poll'.at # "out" => poll'.fut \in Futs
  BY <1>6
<1>. QED
  BY <1>2, <1>7, <1>8, <1>9, Zenon DEF VdmInv, FutInv

\* The last part of a poll: op_delete fills in the output.
LEMMA PollDeleteStep == VdmInv /\ poll_delete => VdmInv'
<1>. SUFFICES ASSUME VdmInv, poll_delete PROVE VdmInv'
  BY Zenon
<1>1. PICK f \in Futs : f = poll.fut
  BY Zenon DEF VdmInv, poll_delete
<1>2. /\ poll.at = "delete" /\ ~exited
      /\ output' = [output EXCEPT ![f] = IF kind = "dml" THEN DmlOutput(f) ELSE Output(f)]
      /\ block' = [block EXCEPT ![f] = "freed"]
      /\ state' = [state EXCEPT ![f] = "COMPLETE"]
      /\ poll' = [fut |-> NULL, at |-> "out"]
      /\ UNCHANGED <<kind, owned, op, job, engine, done, exited>>
  BY <1>1, Zenon DEF poll_delete
<1>3. LifeInv(f) /\ JobInv(f) /\ Polled(f)
  BY <1>1, <1>2, Zenon DEF VdmInv, Polled
<1>4. op[f] \in Requests(f) /\ kind # "none" /\ engine[f] \in {"ok", "corrupted", "refused"}
  BY <1>2, <1>3, Zenon DEF VdmInv, VdmType, LifeInv
<1>5. op[f].type \in Types /\ op[f].dest = f
  BY <1>4, RequestFields, Zenon
<1>. DEFINE out == IF kind = "dml" THEN DmlOutput(f) ELSE Output(f)
<1>6. /\ out \in Outputs
      /\ out.type = op[f].type
      /\ out.result = "SUCCESS" <=> engine[f] = "ok"
      /\ engine[f] = "ok" => out.dest = IF op[f].type = "FLUSH" THEN NULL ELSE op[f].dest
  <2>1. CASE kind = "dml"
    <3>1. job[f] = JobInit(op[f])
      BY <2>1, <1>3, <1>4, Zenon DEF JobInv
    <3>2. /\ JobType(job[f]) = op[f].type /\ job[f].destination = op[f].dest
          /\ job[f].operation = "CACHE_FLUSH" <=> op[f].type = "FLUSH"
      BY <3>1, <1>4, JobTells
    <3>3. out = [type |-> op[f].type,
                 result |-> IF engine[f] = "ok" THEN "SUCCESS" ELSE "JOB_CORRUPTED",
                 dest |-> IF op[f].type = "FLUSH" THEN NULL ELSE op[f].dest]
      BY <2>1, <3>2, Zenon DEF DmlOutput
    <3>. HIDE DEF out
    <3>. QED
      BY <3>3, <1>5, Zenon DEF Outputs
  <2>2. CASE kind # "dml"
    <3>1. engine[f] = "ok" /\ op[f].type # "FLUSH"
      BY <2>2, <1>3, <1>4, Zenon DEF JobInv, VdmInv, VdmType
    <3>2. out = [type |-> op[f].type, result |-> "SUCCESS", dest |-> op[f].dest]
      BY <2>2, Zenon DEF Output
    <3>. HIDE DEF out
    <3>. QED
      BY <3>1, <3>2, <1>5, Zenon DEF Outputs
  <2>. QED
    BY <2>1, <2>2, Zenon
<1>7. output' = [output EXCEPT ![f] = out]
  BY <1>2, Zenon
<1>. HIDE DEF out
<1>8. VdmType'
  <2>1. /\ output' \in [Futs -> Outputs \cup {NULL}]
        /\ block' \in [Futs -> {"none", "live", "freed"}]
        /\ state' \in [Futs -> {"none", "IDLE", "RUNNING", "COMPLETE"}]
    BY <1>2, <1>6, <1>7 DEF VdmInv, VdmType
  <2>2. poll' \in [fut : Futs \cup {NULL}, at : {"out", "check", "delete"}]
    BY <1>2, Zenon
  <2>. QED
    BY <1>2, <2>1, <2>2 DEF VdmInv, VdmType
<1>9. ASSUME NEW g \in Futs PROVE FutInv(g)'
  <2>1. CASE g # f
    <3>1. ~Polled(g)' /\ ~Polled(g)
      BY <1>1, <1>2, <2>1, Zenon DEF Polled
    <3>2. state'[g] = state[g] /\ block'[g] = block[g] /\ output'[g] = output[g]
      BY <1>2, <1>7, <2>1 DEF VdmInv, VdmType
    <3>. QED
      BY <1>2, <3>1, <3>2, Untouched, Zenon
  <2>2. CASE g = f
    <3>1. /\ state'[f] = "COMPLETE" /\ block'[f] = "freed" /\ output'[f] = out
          /\ ~Polled(f)'
      BY <1>2, <1>7 DEF VdmInv, VdmType, Polled
    <3>2. LifeInv(f)'
      BY <1>2, <1>3, <1>4, <3>1, RequestFields, Zenon DEF LifeInv
    <3>3. JobInv(f)'
      BY <1>2, <1>3, Zenon DEF JobInv, AsAsked
    <3>4. OutputInv(f)'
      BY <1>2, <1>3, <1>6, <3>1, Zenon DEF OutputInv, JobInv
    <3>. QED
      BY <2>2, <3>2, <3>3, <3>4, Zenon DEF FutInv
  <2>. QED
    BY <2>1, <2>2, Zenon
<1>. QED
  BY <1>2, <1>8, <1>9, Zenon DEF VdmInv, FutInv

\* The invariant holds when nothing changes.
LEMMA StutterInv == VdmInv /\ UNCHANGED vars => VdmInv'
  BY DEF VdmInv, VdmType, LifeInv, JobInv, OutputInv, AsAsked, Polled, vars, futures

\* Every step keeps the invariant.
LEMMA StepInv == VdmInv /\ [Next]_vars => VdmInv'
<1>. SUFFICES ASSUME VdmInv, [Next]_vars PROVE VdmInv'
  BY Zenon
<1>1. ASSUME NEW f \in Futs, vdm_generic_operation(f) \/ poll_start(f) \/ EngineStep(f)
      PROVE  VdmInv'
  BY <1>1, CreateStep, PollStartStep, EngineInvStep, Zenon
<1>. QED
  BY <1>1, NewStep, DeleteStep, PollCheckStep, PollDeleteStep, StutterInv, Zenon DEF Next, Finished

\* The invariant of the movers: a future's block, the state of its context, what
\* the engine has of it and what was done to memory always agree.
THEOREM VdmAlways == Spec => []VdmInv
  BY InitInv, StepInv, PTL DEF Spec

\* The output of a complete future is the truth, whichever mover worked on it:
\* vdm_operation_impl reports success only for an operation of which every byte
\* was done, and an error only when nothing was.
THEOREM OutputIsTrue == Spec => []OutputTrue
<1>1. VdmInv => OutputTrue
  BY Zenon DEF VdmInv, JobInv, OutputInv, AsAsked, OutputTrue
<1>. QED
  BY <1>1, VdmAlways, PTL

\* Memory is given back on every path of op_new, op_delete and the deletion of
\* the mover: a block is live only while its future is pending, and nothing is
\* owned when there is no mover.
THEOREM MemoryIsReleased == Spec => []Released
<1>1. VdmInv => Released
  <2>. SUFFICES ASSUME VdmInv PROVE Released
    BY Zenon
  <2>1. TypeOK
    BY Zenon DEF VdmInv, VdmType, TypeOK, Outputs, Types
  <2>. QED
    BY <2>1, Zenon DEF VdmInv, LifeInv, Released
<1>. QED
  BY <1>1, VdmAlways, PTL

\* A flag for which vdm_is_supported says yes takes effect in the operation that
\* has it, alone or with others. (Its && makes it say yes to MEM_DURABLE only.)
THEOREM SupportedFlagsTakeEffect == Spec => []SupportedHonoured
<1>1. VdmInv => SupportedHonoured
  <2>. SUFFICES ASSUME VdmInv, NEW f \in Futs, NEW mask \in Masks \ {0},
                       done[f] # NULL, kind # "none", vdm_is_supported(Capabilities, mask),
                       NEW flag \in {MEM_DURABLE, NO_CACHE_HINT},
                       Has(mask, flag), Has(op[f].flags, flag)
                PROVE  flag \in done[f].honours
    BY Zenon DEF SupportedHonoured
  <2>1. mask = 1 /\ kind = "dml"
    BY Zenon DEF vdm_is_supported, Capabilities, Masks, MEM_DURABLE, NO_CACHE_HINT
  <2>2. flag = MEM_DURABLE
    BY <2>1 DEF Has, MEM_DURABLE, NO_CACHE_HINT
  <2>3. JobInv(f) /\ LifeInv(f) /\ op[f] \in Requests(f) \cup {NULL}
    BY Zenon DEF VdmInv, VdmType
  <2>4. op[f] \in Requests(f)
    BY <2>3, Zenon DEF LifeInv, JobInv
  <2>5. done[f] = dml_execute(JobInit(op[f]))
    BY <2>1, <2>3, Zenon DEF JobInv
  <2>. QED
    BY <2>2, <2>4, <2>5, JobIsTheOperation, Zenon
<1>. QED
  BY <1>1, VdmAlways, PTL

-----------------------------------------------------------------------------
\* Refinement. The phase of a future depends on four of its variables.
LEMMA PhaseFrame ==
  ASSUME NEW g \in Futs, op'[g] = op[g], state'[g] = state[g], done'[g] = done[g],
         engine'[g] = engine[g]
  PROVE  Phase(g)' = Phase(g)
  BY Zenon DEF Phase

\* A step of a living mover that changes the phase of one future at most, the
\* way Operation allows, is a step of Operation or a stutter.
LEMMA OnePhase ==
  ASSUME NEW f \in Futs, kind # "none", kind' # "none",
         \A g \in Futs \ {f} : Phase(g)' = Phase(g),
         \/ Phase(f)' = Phase(f)
         \/ Phase(f) = "none" /\ Phase(f)' \in {"created", "failed"}
         \/ Phase(f) = "created" /\ Phase(f)' \in {"submitted", "performed", "failed"}
         \/ Phase(f) = "submitted" /\ Phase(f)' \in {"performed", "failed"}
         \/ Phase(f) = "performed" /\ Phase(f)' = "complete"
  PROVE  [Abstract!ONext]_(Abstract!ovars)
<1>. DEFINE P == [g \in Futs |-> Phase(g)]
<1>1. P' = [P EXCEPT ![f] = Phase(f)'] /\ P[f] = Phase(f)
  BY Zenon
<1>2. CASE Phase(f)' = Phase(f)
  <2>1. P' = P
    BY <1>2, Zenon
  <2>. QED
    BY <2>1, Zenon DEF Abstract!ovars
<1>3. CASE Phase(f)' # Phase(f)
  <2>1. \/ Abstract!Become(f, "none", "created")
        \/ Abstract!Become(f, "none", "failed")
        \/ Abstract!Become(f, "created", "submitted")
        \/ Abstract!Become(f, "submitted", "performed")
        \/ Abstract!Become(f, "created", "performed")
        \/ Abstract!Become(f, "performed", "complete")
        \/ Abstract!Become(f, "created", "failed")
        \/ Abstract!Become(f, "submitted", "failed")
    BY <1>1, <1>3, Zenon DEF Abstract!Become
  <2>. QED
    BY <2>1, Zenon DEF Abstract!ONext
<1>. QED
  BY <1>2, <1>3, Zenon

\* Initially every future is in the phase "none".
LEMMA RefineInit == Init => Abstract!OInit
  BY Zenon DEF Init, Abstract!OInit, Phase

\* A step that leaves the four variables and the mover alone is a stutter.
LEMMA RefineStutter ==
  ASSUME UNCHANGED <<op, state, done, engine, kind>>
  PROVE  [Abstract!ONext]_(Abstract!ovars)
<1>1. \A g \in Futs : Phase(g)' = Phase(g)
  BY PhaseFrame, Zenon
<1>. QED
  BY <1>1, Zenon DEF Abstract!ovars

\* Creation and the steps of a poll.
LEMMA RefinePoll ==
  ASSUME VdmInv, VdmInv', NEW f \in Futs,
         \/ vdm_generic_operation(f) \/ poll_start(f)
         \/ (poll_check \/ poll_delete) /\ f = poll.fut
  PROVE  [Abstract!ONext]_(Abstract!ovars)
<1>0. /\ LifeInv(f) /\ JobInv(f) /\ LifeInv(f)' /\ JobInv(f)' /\ VdmType
      /\ state[f] \in {"none", "IDLE", "RUNNING", "COMPLETE"}
  BY Zenon DEF VdmInv, VdmType
<1>1. CASE vdm_generic_operation(f)
  <2>1. /\ kind # "none" /\ op[f] = NULL /\ UNCHANGED <<kind, engine, done>>
        /\ \/ state' = [state EXCEPT ![f] = "IDLE"]
           \/ state' = [state EXCEPT ![f] = "COMPLETE"]
           \/ state' = state
    BY <1>1, Zenon DEF vdm_generic_operation, Created, NotCreated
  <2>2. PICK o \in Requests(f) : op' = [op EXCEPT ![f] = o]
    BY <1>1, Zenon DEF vdm_generic_operation
  <2>3. \A g \in Futs \ {f} : Phase(g)' = Phase(g)
    <3>. SUFFICES ASSUME NEW g \in Futs \ {f} PROVE Phase(g)' = Phase(g)
      BY Zenon
    <3>1. op'[g] = op[g] /\ state'[g] = state[g]
      BY <1>0, <2>1, <2>2 DEF VdmType
    <3>. QED
      BY <3>1, <2>1, PhaseFrame, Zenon
  <2>4. op'[f] # NULL
    BY <2>2, <1>0, RequestFields, Zenon DEF VdmType
  <2>5. /\ state[f] = "none" /\ engine[f] = "idle" /\ done[f] = NULL
        /\ state'[f] \in {"IDLE", "COMPLETE", "none"}
    BY <1>0, <2>1, Zenon DEF LifeInv, JobInv, VdmType
  <2>6. Phase(f) = "none" /\ Phase(f)' \in {"created", "failed", "none"}
    BY <2>1, <2>4, <2>5, Zenon DEF Phase
  <2>. QED
    BY <2>1, <2>3, <2>6, OnePhase, Zenon
<1>2. CASE poll_start(f)
  <2>1. /\ kind # "none" /\ UNCHANGED <<kind, op, state>>
        /\ poll.at = "out" /\ state[f] \in {"IDLE", "RUNNING"}
        /\ \/ UNCHANGED <<engine, done>>
           \/ /\ state[f] = "IDLE"
              /\ \/ done' = [done EXCEPT ![f] = Performed(op[f])] /\ engine' = [engine EXCEPT ![f] = "ok"]
                 \/ done' = done /\ engine' \in {engine, [engine EXCEPT ![f] = "processing"]}
                 \/ done' = done /\ engine' \in {[engine EXCEPT ![f] = e] : e \in {"processing", "refused"}}
    BY <1>2, Zenon DEF poll_start, Idle, sync_operation_start, data_mover_threads_operation_start,
                data_mover_dml_operation_start
  <2>2. CASE UNCHANGED <<engine, done>>
    BY <2>1, <2>2, RefineStutter, Zenon
  <2>3. CASE state[f] = "IDLE"
    <3>1. \A g \in Futs \ {f} : Phase(g)' = Phase(g)
      <4>. SUFFICES ASSUME NEW g \in Futs \ {f} PROVE Phase(g)' = Phase(g)
        BY Zenon
      <4>1. engine'[g] = engine[g] /\ done'[g] = done[g]
        BY <1>0, <2>1 DEF VdmType
      <4>. QED
        BY <4>1, <2>1, PhaseFrame, Zenon
    <3>2. op[f] # NULL /\ engine[f] = "idle" /\ done[f] = NULL
      BY <1>0, <2>1, <2>3, Zenon DEF LifeInv, JobInv, Polled
    <3>3. \/ engine'[f] = "ok" /\ done'[f] # NULL
          \/ engine'[f] \in {"idle", "processing", "refused"} /\ done'[f] = NULL
      <4>1. engine'[f] \in {"ok", "idle", "processing", "refused"}
        BY <1>0, <2>1, <3>2 DEF VdmType
      <4>. QED
        BY <1>0, <4>1, Zenon DEF JobInv
    <3>4. Phase(f) = "created" /\ Phase(f)' \in {"created", "performed", "submitted"}
      BY <2>1, <2>3, <3>2, <3>3, Zenon DEF Phase
    <3>. QED
      BY <2>1, <3>1, <3>4, OnePhase, Zenon
  <2>. QED
    BY <2>1, <2>2, <2>3, Zenon
<1>3. CASE poll_check /\ f = poll.fut
  <2>1. /\ UNCHANGED <<kind, op, engine, done>> /\ Polled(f)
        /\ \/ state' = state
           \/ \E s \in op_check(f) : s # "COMPLETE" /\ state' = [state EXCEPT ![f] = s]
    BY <1>3, Zenon DEF poll_check, Polled
  <2>2. /\ kind # "none" /\ state[f] \in {"IDLE", "RUNNING"}
        /\ state'[f] \in {"IDLE", "RUNNING"}
        /\ \A g \in Futs \ {f} : state'[g] = state[g]
    <3>1. \A s \in op_check(f) : s # "COMPLETE" => s \in {"IDLE", "RUNNING"}
      BY <1>0, Zenon DEF op_check, VdmType
    <3>. QED
      BY <1>0, <2>1, <3>1 DEF LifeInv, VdmType
  <2>3. \A g \in Futs \ {f} : Phase(g)' = Phase(g)
    BY <2>1, <2>2, PhaseFrame, Zenon
  <2>4. Phase(f)' = Phase(f)
    BY <2>1, <2>2, Zenon DEF Phase
  <2>. QED
    BY <2>1, <2>2, <2>3, <2>4, OnePhase, Zenon
<1>4. CASE poll_delete /\ f = poll.fut
  <2>1. /\ UNCHANGED <<kind, op, engine, done>> /\ Polled(f) /\ poll.at = "delete"
        /\ state' = [state EXCEPT ![f] = "COMPLETE"]
    BY <1>4, Zenon DEF poll_delete, Polled
  <2>2. /\ kind # "none" /\ state[f] \in {"IDLE", "RUNNING"} /\ state'[f] = "COMPLETE"
        /\ engine[f] \in {"ok", "corrupted", "refused"} /\ op[f] # NULL
        /\ \A g \in Futs \ {f} : state'[g] = state[g]
    BY <1>0, <2>1, Zenon DEF LifeInv, VdmType
  <2>3. \A g \in Futs \ {f} : Phase(g)' = Phase(g)
    BY <2>1, <2>2, PhaseFrame, Zenon
  <2>4. \/ Phase(f) = "performed" /\ Phase(f)' = "complete"
        \/ Phase(f) \in {"failed", "created"} /\ Phase(f)' = "failed"
    BY <1>0, <2>1, <2>2, Zenon DEF Phase, JobInv
  <2>. QED
    BY <2>1, <2>2, <2>3, <2>4, OnePhase, Zenon
<1>. QED
  BY <1>1, <1>2, <1>3, <1>4, Zenon

\* Steps of the engine.
LEMMA RefineEngine ==
  ASSUME VdmInv, VdmInv', NEW f \in Futs, EngineStep(f)
  PROVE  [Abstract!ONext]_(Abstract!ovars)
<1>0. LifeInv(f) /\ JobInv(f) /\ JobInv(f)' /\ VdmType
  BY Zenon DEF VdmInv
<1>1. /\ kind # "none" /\ engine[f] = "processing" /\ UNCHANGED <<kind, op, state>>
      /\ \/ UNCHANGED <<done, engine>>
         \/ /\ engine' \in {[engine EXCEPT ![f] = e] : e \in {"ok", "corrupted"}}
            /\ done' = done \/ \E e \in {Performed(job[f]), dml_execute(job[f])} : done' = [done EXCEPT ![f] = e]
  BY Zenon DEF EngineStep, data_mover_threads_do_operation, dml_process
<1>2. CASE UNCHANGED <<done, engine>>
  BY <1>1, <1>2, RefineStutter, Zenon
<1>3. CASE engine' \in {[engine EXCEPT ![f] = e] : e \in {"ok", "corrupted"}}
  <2>1. /\ engine'[f] \in {"ok", "corrupted"}
        /\ \A g \in Futs \ {f} : engine'[g] = engine[g] /\ done'[g] = done[g]
    BY <1>0, <1>1, <1>3 DEF VdmType
  <2>2. \A g \in Futs \ {f} : Phase(g)' = Phase(g)
    BY <1>1, <2>1, PhaseFrame, Zenon
  <2>3. Phase(f) = "submitted"
    BY <1>0, <1>1, Zenon DEF Phase, LifeInv, JobInv
  <2>4. Phase(f)' \in {"performed", "failed"}
    BY <1>0, <1>1, <2>1, Zenon DEF Phase, LifeInv, JobInv
  <2>. QED
    BY <1>1, <2>2, <2>3, <2>4, OnePhase, Zenon
<1>. QED
  BY <1>1, <1>2, <1>3, Zenon

\* Every step of the movers is a step of Operation or a stutter.
LEMMA RefineStep == VdmInv /\ VdmInv' /\ [Next]_vars => [Abstract!ONext]_(Abstract!ovars)
<1>. SUFFICES ASSUME VdmInv, VdmInv', [Next]_vars
              PROVE  [Abstract!ONext]_(Abstract!ovars)
  BY Zenon
<1>1. CASE new
  <2>1. UNCHANGED <<op, state, done, engine>> /\ \A f \in Futs : op[f] = NULL
    BY <1>1, Zenon DEF new, futures
  <2>2. \A g \in Futs : Phase(g)' = Phase(g)
    BY <2>1, PhaseFrame, Zenon
  <2>. QED
    BY <2>1, <2>2, Zenon DEF Abstract!ovars
<1>2. CASE delete
  <2>1. /\ UNCHANGED <<op, state, done, engine>> /\ kind # "none" /\ kind' = "none"
        /\ \A f \in Futs : engine[f] # "processing"
    BY <1>2, Zenon DEF delete
  <2>2. \A g \in Futs : Phase(g)' = Phase(g) /\ Phase(g) # "submitted"
    <3>1. \A g \in Futs : Phase(g)' = Phase(g)
      BY <2>1, PhaseFrame, Zenon
    <3>2. \A g \in Futs : Phase(g) # "submitted"
      BY <2>1, Zenon DEF Phase
    <3>. QED
      BY <3>1, <3>2, Zenon
  <2>3. [g \in Futs |-> Phase(g)]' = [g \in Futs |-> Phase(g)]
    BY <2>2, Zenon
  <2>4. CASE \E f \in Futs : op[f] # NULL
    BY <2>1, <2>2, <2>3, <2>4, Zenon DEF Abstract!ONext
  <2>5. CASE ~\E f \in Futs : op[f] # NULL
    BY <2>1, <2>3, <2>5, Zenon DEF Abstract!ovars
  <2>. QED
    BY <2>4, <2>5, Zenon
<1>3. CASE UNCHANGED vars
  BY <1>3, RefineStutter, Zenon DEF vars, futures
<1>4. CASE poll_check \/ poll_delete
  <2>1. poll.fut \in Futs
    BY <1>4, Zenon DEF VdmInv, poll_check, poll_delete
  <2>. QED
    BY <1>4, <2>1, RefinePoll, Zenon
<1>5. ASSUME NEW f \in Futs, vdm_generic_operation(f) \/ poll_start(f) \/ EngineStep(f)
      PROVE  [Abstract!ONext]_(Abstract!ovars)
  BY <1>5, RefinePoll, RefineEngine, Zenon
<1>. QED
  BY <1>1, <1>2, <1>3, <1>4, <1>5, Zenon DEF Next, Finished

\* The movers implement Operation: an operation is submitted, performed and
\* reported in this order, at most once, also when the DML library corrupts or
\* refuses a job, and not after its mover was deleted.
THEOREM MoversImplementOperation == Spec => ImplementsOperation
  BY VdmAlways, RefineInit, RefineStep, PTL DEF Spec, ImplementsOperation, Abstract!OSpec

=============================================================================
