---------------------------- MODULE FutureChain ----------------------------
(***************************************************************************)
(* Chained futures, include/libminiasync/future.h: entries laid out one    *)
(* after the other, polled in order by async_chain_impl. When an entry is  *)
(* complete its map hands its output to the next entry, or to the chain    *)
(* after the last one. A lazy entry is garbage, its size included, until   *)
(* its init has run.                                                       *)
(*                                                                         *)
(* One thread polls the chain and asks for its properties. What an entry   *)
(* waits for happens elsewhere at any time, also between two steps of the  *)
(* loop over the entries.                                                  *)
(***************************************************************************)
EXTENDS Integers

CONSTANT N   \* number of entries

ASSUME ChainAssumption == N \in Nat \ {0}

Entries == 1..N

VARIABLES
  chain,        \* how the chain was put together, see Layouts
  chain_state,  \* state of the chain
  pending,      \* entries whose init has not run: init != NULL
  inits,        \* how often the init of an entry ran
  leaf,         \* state of an entry's future
  input,        \* what an entry's data holds; N + 1 stands for the chain's output
  ready,        \* entries whose wait is over
  processed,    \* FUTURE_CHAIN_FLAG_ENTRY_PROCESSED
  pc, cur       \* where the loop over the entries is, and at which entry

entry == <<pending, inits, leaf, input>>
fvars == <<chain, chain_state, entry, ready, processed, pc, cur>>

\* lazy: made by FUTURE_CHAIN_ENTRY_LAZY_INIT; done: a future that is not
\* lazy and was made by FUTURE_INIT_COMPLETE; mapped: with a map
Layouts ==
  {l \in [lazy : SUBSET Entries, done : SUBSET Entries, mapped : SUBSET Entries] :
     l.lazy \cap l.done = {}}

Lazy == chain.lazy
Done == chain.done
Mapped == chain.mapped

\* FUTURE_CHAIN_INIT, FUTURE_CHAIN_ENTRY_INIT, FUTURE_CHAIN_ENTRY_LAZY_INIT
FInit ==
  /\ chain \in Layouts
  /\ chain_state = "IDLE"
  /\ pending = Lazy
  /\ inits = [k \in Entries |-> 0]
  /\ leaf = [k \in Entries |-> IF k \in Lazy THEN "garbage"
                             ELSE IF k \in Done THEN "COMPLETE" ELSE "IDLE"]
  /\ input = [k \in 1..N+1 |-> IF k \in Lazy THEN "garbage" ELSE "default"]
  /\ ready = {}
  /\ processed = {}
  /\ pc = "out"
  /\ cur = 1

-----------------------------------------------------------------------------
\* An init makes the whole future, data included. FUTURE_INIT_COMPLETE, used
\* where an operation cannot be had, makes a complete one without has_property.
RunInit(k) ==
  \E l \in {"IDLE", "COMPLETE"} :
    /\ pending' = pending \ {k}
    /\ inits' = [inits EXCEPT ![k] = @ + 1]
    /\ leaf' = [leaf EXCEPT ![k] = l]
    /\ input' = [input EXCEPT ![k] = "default"]

\* The loops of async_chain_impl ("poll") and future_chain_has_property
\* ("ask") begin at the first entry.
future_poll ==
  /\ pc = "out" /\ chain_state # "COMPLETE"
  /\ pc' = "poll_next" /\ cur' = 1
  /\ UNCHANGED <<chain, chain_state, entry, ready, processed>>

future_has_property ==
  /\ pc = "out"
  /\ pc' = "ask_next" /\ cur' = 1
  /\ UNCHANGED <<chain, chain_state, entry, ready, processed>>

\* A pending init runs before the size of the entry is read.
get_next_future_chain_entry ==
  /\ pc \in {"poll_next", "ask_next"}
  /\ pc' = IF pc = "poll_next" THEN "poll" ELSE "ask"
  /\ IF cur \in pending THEN RunInit(cur) ELSE UNCHANGED entry
  /\ UNCHANGED <<chain, chain_state, ready, processed, cur>>

-----------------------------------------------------------------------------
\* async_chain_impl goes on to the next entry, or returns COMPLETE, which
\* future_poll stores.
PollNext ==
  IF cur < N
    THEN cur' = cur + 1 /\ pc' = "poll_next" /\ UNCHANGED chain_state
    ELSE cur' = 1 /\ pc' = "out" /\ chain_state' = "COMPLETE"

\* Mutant of poll_skip: the loop stays at an entry that is processed.
poll_skip_stuck == pc = "poll" /\ cur \in processed /\ UNCHANGED fvars

poll_skip ==
  /\ pc = "poll" /\ cur \in processed
  /\ PollNext
  /\ UNCHANGED <<chain, entry, ready, processed>>

\* future_poll of the entry's future: its task is not called when it is
\* complete.
poll_complete ==
  /\ pc = "poll" /\ cur \notin processed
  /\ leaf[cur] = "COMPLETE" \/ cur \in ready
  /\ leaf' = [leaf EXCEPT ![cur] = "COMPLETE"]
  /\ \/ /\ cur \in Mapped
        /\ pc' = "map"
        /\ UNCHANGED <<processed, cur, chain_state>>
     \/ /\ cur \notin Mapped
        /\ processed' = processed \cup {cur}
        /\ PollNext
  /\ UNCHANGED <<chain, pending, inits, input, ready>>

\* The entry is not complete: the chain is RUNNING.
poll_running ==
  /\ pc = "poll" /\ cur \notin processed
  /\ leaf[cur] # "COMPLETE" /\ cur \notin ready
  /\ leaf' = [leaf EXCEPT ![cur] = "RUNNING"]
  /\ chain_state' = "RUNNING"
  /\ pc' = "out" /\ cur' = 1
  /\ UNCHANGED <<chain, pending, inits, input, ready, processed>>

\* async_chain_impl: the next entry is initialised, so that the map can write
\* to it.
map_init ==
  /\ pc = "map" /\ cur + 1 \in pending
  /\ RunInit(cur + 1)
  /\ UNCHANGED <<chain, chain_state, ready, processed, pc, cur>>

\* Mutant of map_call: the map does not wait for the init of the next entry.
map_call_early ==
  /\ pc = "map"
  /\ input' = [input EXCEPT ![cur + 1] = "mapped"]
  /\ processed' = processed \cup {cur}
  /\ PollNext
  /\ UNCHANGED <<chain, pending, inits, leaf, ready>>

\* Mutant of map_call: the entry is not marked as processed.
map_call_unmarked ==
  /\ pc = "map" /\ cur + 1 \notin pending
  /\ input' = [input EXCEPT ![cur + 1] = "mapped"]
  /\ PollNext
  /\ UNCHANGED <<chain, pending, inits, leaf, ready, processed>>

map_call ==
  /\ pc = "map" /\ cur + 1 \notin pending
  /\ input' = [input EXCEPT ![cur + 1] = "mapped"]
  /\ processed' = processed \cup {cur}
  /\ PollNext
  /\ UNCHANGED <<chain, pending, inits, leaf, ready>>

-----------------------------------------------------------------------------
\* future_chain_has_property: the answer is that of the first entry that is
\* not processed, and -1 when all are; what matters here is which inits it
\* runs. A future that was made complete has no has_property, and the call
\* through NULL ends the program.
ask_skip ==
  /\ pc = "ask" /\ cur \in processed
  /\ \/ cur < N /\ cur' = cur + 1 /\ pc' = "ask_next"
     \/ cur = N /\ cur' = 1 /\ pc' = "out"
  /\ UNCHANGED <<chain, chain_state, entry, ready, processed>>

ask_entry ==
  /\ pc = "ask" /\ cur \notin processed
  /\ pc' = IF leaf[cur] = "COMPLETE" THEN "crashed" ELSE "out"
  /\ cur' = 1
  /\ UNCHANGED <<chain, chain_state, entry, ready, processed>>

\* What a future waits for happens, perhaps before it is polled first.
progress(k) ==
  /\ leaf[k] \in {"IDLE", "RUNNING"} /\ k \notin ready
  /\ ready' = ready \cup {k}
  /\ UNCHANGED <<chain, chain_state, entry, processed, pc, cur>>

FTerminated == pc = "crashed" /\ UNCHANGED fvars

LoopStep ==
  \/ get_next_future_chain_entry
  \/ poll_skip \/ poll_complete \/ poll_running
  \/ map_init \/ map_call
  \/ ask_skip \/ ask_entry

FNext ==
  \/ future_poll \/ future_has_property
  \/ LoopStep
  \/ \E k \in Entries : progress(k)
  \/ FTerminated

FSpec == FInit /\ [][FNext]_fvars

\* A call that was begun goes on; what an entry waits for happens; the caller
\* polls again and again, as FUTURE_BUSY_POLL and runtime_wait do, however
\* often it asks for properties in between.
FFairSpec ==
  /\ FSpec
  /\ WF_fvars(LoopStep)
  /\ SF_fvars(future_poll)
  /\ \A k \in Entries : WF_fvars(progress(k))

-----------------------------------------------------------------------------
\* The type of every variable. An init runs once at most.
FTypeOK ==
  /\ chain \in Layouts
  /\ chain_state \in {"IDLE", "RUNNING", "COMPLETE"}
  /\ pending \subseteq Lazy
  /\ inits \in [Entries -> 0..1]
  /\ leaf \in [Entries -> {"garbage", "IDLE", "RUNNING", "COMPLETE"}]
  /\ input \in [1..N+1 -> {"garbage", "default", "mapped"}]
  /\ ready \subseteq Entries
  /\ processed \subseteq Entries
  /\ pc \in {"out", "poll_next", "poll", "map", "ask_next", "ask", "crashed"}
  /\ cur \in Entries

\* What the map of an entry handed on is not lost: a lazy init, also one that
\* future_has_property provokes, never runs over data that was mapped.
InputKept == \A k \in processed \cap Mapped : input[k + 1] = "mapped"

\* "Futures must be laid out sequentially in memory": no entry is polled, mapped or
\* measured before its init has run, and none is started before all entries in
\* front of it are processed. A complete chain has processed every entry.
InSequence ==
  /\ FTypeOK
  /\ pc \in {"poll", "ask", "map"} => cur \notin pending
  /\ \A k \in Entries :
       leaf[k] = "RUNNING" \/ k \in processed => 1..k-1 \subseteq processed
  /\ chain_state = "COMPLETE" => processed = Entries

\* A chain that is polled again and again completes.
ChainCompletes == chain_state # "COMPLETE" ~> (chain_state = "COMPLETE" \/ pc = "crashed")
=============================================================================
