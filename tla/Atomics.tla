------------------------------- MODULE Atomics -------------------------------
(***************************************************************************)
(* The atomic operations of util.h, which the ring buffer, membuf and the  *)
(* movers are built from, on memory that is not sequentially consistent.   *)
(*                                                                         *)
(* A location has a history of stores, and a thread a view: for every      *)
(* location the oldest store it may still read. A load takes any store not *)
(* older than that. What the memory orders and barriers add is how views   *)
(* travel: with a store, from a store to the thread that reads it, and     *)
(* through scview, the view that full barriers and seq_cst accesses share. *)
(* This is how ISO C11 orders loads and stores; the machines the library   *)
(* runs on allow less.                                                     *)
(*                                                                         *)
(* gcc takes the operations from the compiler. The MSVC port builds them   *)
(* from volatile accesses, compiler barriers and Interlocked functions:    *)
(* there a seq_cst store is a full barrier and a seq_cst load is none.     *)
(*                                                                         *)
(* Two threads run small programs in which the operations are used the way *)
(* the library uses them.                                                  *)
(***************************************************************************)
EXTENDS Integers, Sequences, FiniteSets, SequencesExt, FiniteSetsExt, Bitwise

CONSTANT AtomBits   \* width of a word

ASSUME AtomicsAssumption == AtomBits \in Nat /\ AtomBits > 1

VARIABLES
  compiler,  \* "gcc" or "MSVC"
  litmus,    \* the programs, and what they are an example of
  done,      \* number of operations a thread has executed
  history,   \* the stores to every location, the first is its initial value
  view,      \* index of the oldest store a thread may read, for every location
  scview,    \* what the last full barriers and seq_cst stores have seen
  reads      \* the results of the operations of a thread

avars == <<compiler, litmus, done, history, view, scview, reads>>

Pair == {1, 2}
Locations == {"data", "flag"}
LoadOrders == {"relaxed", "consume", "acquire", "seq_cst"}
StoreOrders == {"relaxed", "release", "seq_cst"}

Load(l, order) == [op |-> "load", loc |-> l, order |-> order]
Store(l, order) == [op |-> "store", loc |-> l, val |-> 1, order |-> order]
Cas(l, old, new) == [op |-> "cas", loc |-> l, old |-> old, val |-> new]
Fetch(op, l, v) == [op |-> op, loc |-> l, val |-> v]
Barrier == [op |-> "synchronize"]

\* A result is stored and a flag is raised behind it (complete of the thread
\* mover, allocated of membuf); the other looks at the flag, then at the data.
Publish ==
  {<<<<Store("data", "relaxed"), Store("flag", o)>>,
     <<Load("flag", p), Load("data", "relaxed")>>>> : o \in StoreOrders, p \in LoadOrders}

\* The same through a slot of the ring buffer.
Slot ==
  {<<<<Store("data", "relaxed"), Cas("flag", 0, 1)>>, take \o <<Load("data", "relaxed")>>>> :
     take \in {<<Cas("flag", 1, 0)>>, <<Load("flag", "seq_cst")>>}}

\* Store at one location and look at the other.
Announces(mine, other) ==
  {<<Store(mine, "seq_cst"), Load(other, "seq_cst")>>,
   <<Fetch("add", mine, 1), Load(other, "seq_cst")>>,
   <<Cas(mine, 0, 1), Load(other, "seq_cst")>>,
   <<Store(mine, "relaxed"), Barrier, Load(other, "relaxed")>>}
Cross == {<<p, q>> : p \in Announces("data", "flag"), q \in Announces("flag", "data")}

\* Positions of the ring buffer, claims of a slot or of an os_once, flag bits.
Updates == {Fetch("add", "flag", 1), Fetch("sub", "flag", 1), Fetch("or", "flag", 1),
            Fetch("and", "flag", 2), Cas("flag", 0, 1), Cas("flag", 1, 0)}
Counting == {<<<<a, b>>, <<c, a>>>> : a, b, c \in Updates}

Litmus ==
  {[name |-> "publish", text |-> p, first |-> 0] : p \in Publish \cup Slot}
  \cup {[name |-> "cross", text |-> p, first |-> 0] : p \in Cross}
  \cup {[name |-> "count", text |-> p, first |-> v] : p \in Counting, v \in {0, 2 ^ AtomBits - 1}}

Oldest == [l \in Locations |-> 1]

AInit ==
  /\ compiler \in {"gcc", "MSVC"}
  /\ litmus \in Litmus
  /\ done = [t \in Pair |-> 0]
  /\ history = [l \in Locations |->
       <<[val |-> IF l = "flag" THEN litmus.first ELSE 0, view |-> Oldest]>>]
  /\ view = [t \in Pair |-> Oldest]
  /\ scview = Oldest
  /\ reads = [t \in Pair |-> <<>>]

------------------------------------------------------------------------------
Running(t) == done[t] < Len(litmus.text[t])
Instr(t) == litmus.text[t][done[t] + 1]

Merge(v, w) == [l \in Locations |-> Max({v[l], w[l]})]

Executed(t, r) ==
  /\ done' = [done EXCEPT ![t] = @ + 1]
  /\ reads' = [reads EXCEPT ![t] = Append(@, r)]
  /\ UNCHANGED <<compiler, litmus>>

\* A load of store n: the barrier behind it keeps what follows behind it.
LoadOf(t, i, n) ==
  LET m == history[i.loc][n]
      seen == [view[t] EXCEPT ![i.loc] = n] IN
  /\ view' = [view EXCEPT ![t] = IF i.order = "relaxed" THEN seen ELSE Merge(seen, m.view)]
  /\ Executed(t, m.val)
  /\ UNCHANGED <<history, scview>>

\* gcc's seq_cst load is not older than the last seq_cst store.
util_atomic_load_explicit(t) ==
  /\ Running(t) /\ Instr(t).op = "load"
  /\ LET i == Instr(t) IN
     \E n \in view[t][i.loc]..Len(history[i.loc]) :
       /\ compiler = "gcc" /\ i.order = "seq_cst" => n >= scview[i.loc]
       /\ LoadOf(t, i, n)

\* The last store to l, and the view of t behind one more.
Latest(l) == history[l][Len(history[l])]
Behind(t, l) == [view[t] EXCEPT ![l] = Len(history[l]) + 1]

\* A store that takes with it all that t has seen and done, or only itself.
Stores(t, l, v, all) ==
  /\ history' = [history EXCEPT ![l] = Append(@,
       [val |-> v, view |-> IF all THEN Behind(t, l) ELSE [Oldest EXCEPT ![l] = Len(history[l]) + 1]])]
  /\ view' = [view EXCEPT ![t] = Behind(t, l)]

\* The __sync builtins and the Interlocked functions: a full barrier that reads
\* the last store and, unless new is empty, stores with nothing in between. What
\* is stored and answered depends on that last store alone.
Interlocked(t, l, new, answer) ==
  LET seen == Merge(view[t], Merge(scview, Latest(l).view))
      after == [seen EXCEPT ![l] = Len(history[l]) + Cardinality(new)] IN
  /\ view' = [view EXCEPT ![t] = after]
  /\ scview' = after
  /\ history' = [history EXCEPT ![l] = @ \o SetToSeq({[val |-> v, view |-> after] : v \in new})]
  /\ Executed(t, answer)

\* Mutant: the MSVC seq_cst store is a volatile one, without _InterlockedExchange.
store_seq_cst_volatile(t, l, v) ==
  /\ Stores(t, l, v, TRUE)
  /\ Executed(t, v)
  /\ scview' = IF compiler = "gcc" THEN [scview EXCEPT ![l] = Len(history[l]) + 1] ELSE scview

store_relaxed(t, l, v) ==
  /\ Stores(t, l, v, FALSE)
  /\ Executed(t, v)
  /\ UNCHANGED scview

store_release(t, l, v) ==
  /\ Stores(t, l, v, TRUE)
  /\ Executed(t, v)
  /\ UNCHANGED scview

store_seq_cst(t, l, v) ==
  \/ /\ compiler = "gcc"
     /\ Stores(t, l, v, TRUE)
     /\ Executed(t, v)
     /\ scview' = [scview EXCEPT ![l] = Len(history[l]) + 1]
  \/ /\ compiler = "MSVC"
     /\ Interlocked(t, l, {v}, v)

util_atomic_store_explicit(t) ==
  /\ Running(t) /\ Instr(t).op = "store"
  /\ LET i == Instr(t) IN
     \/ i.order = "relaxed" /\ store_relaxed(t, i.loc, i.val)
     \/ i.order = "release" /\ store_release(t, i.loc, i.val)
     \/ i.order = "seq_cst" /\ store_seq_cst(t, i.loc, i.val)

\* The value an operation leaves, if any, and what it answers.
Leaves(i, old) ==
  CASE i.op = "cas" -> IF old = i.old THEN {i.val} ELSE {}
    [] i.op = "add" -> {(old + i.val) % 2 ^ AtomBits}
    [] i.op = "sub" -> {(old - i.val) % 2 ^ AtomBits}
    [] i.op = "and" -> {old & i.val}
    [] i.op = "or"  -> {old | i.val}
Answers(i, old) == IF i.op = "cas" THEN IF old = i.old THEN 1 ELSE 0 ELSE old

util_bool_compare_and_swap(t) ==
  /\ Running(t) /\ Instr(t).op = "cas"
  /\ LET i == Instr(t) IN
     Interlocked(t, i.loc, Leaves(i, Latest(i.loc).val), Answers(i, Latest(i.loc).val))

util_fetch_and(t) ==
  /\ Running(t) /\ Instr(t).op \in {"add", "sub", "and", "or"}
  /\ LET i == Instr(t) IN
     Interlocked(t, i.loc, Leaves(i, Latest(i.loc).val), Answers(i, Latest(i.loc).val))

util_synchronize(t) ==
  /\ Running(t) /\ Instr(t).op = "synchronize"
  /\ view' = [view EXCEPT ![t] = Merge(@, scview)]
  /\ scview' = Merge(view[t], scview)
  /\ Executed(t, 0)
  /\ UNCHANGED history

ANext == \E t \in Pair :
  \/ util_atomic_load_explicit(t)
  \/ util_atomic_store_explicit(t)
  \/ util_bool_compare_and_swap(t)
  \/ util_fetch_and(t)
  \/ util_synchronize(t)

------------------------------------------------------------------------------
Finished == \A t \in Pair : ~Running(t)

\* Is operation i enough to take over what a flag was raised for, and operation
\* j to hand it over?
Acquires(i) == i.op = "cas" \/ (i.op = "load" /\ i.order # "relaxed")
Releases(j) == j.op = "cas" \/ (j.op = "store" /\ j.order # "relaxed")

\* Who sees the flag that was raised with release (or by the compare-and-swap of
\* a ring buffer slot) with acquire sees the data stored before it: a poller that
\* loads complete uses the result of a mover's worker, membuf reuses memory that
\* its owner has finished with.
PublishedIsSeen ==
  litmus.name = "publish" /\ Finished
  /\ Releases(litmus.text[1][2]) /\ Acquires(litmus.text[2][1]) =>
    (reads[2][1] = 1 => reads[2][Len(reads[2])] = 1)

\* Two threads that each store at one place and then look at the other, with
\* seq_cst, read-modify-writes or util_synchronize, in any combination: at least
\* one of them sees the other's store, in both ports.
OneSeesTheOther ==
  litmus.name = "cross" /\ Finished =>
    \E t \in Pair : reads[t][Len(reads[t])] = 1

\* The results and the final value after the operations at location "flag" are
\* executed one at a time, the thread order[k] being k-th.
OneAtATime(order) ==
  FoldLeft(LAMBDA s, t :
             LET i == litmus.text[t][Len(s.got[t]) + 1] IN
             [got |-> [s.got EXCEPT ![t] = Append(@, Answers(i, s.val))],
              val |-> IF Leaves(i, s.val) = {} THEN s.val ELSE CHOOSE v \in Leaves(i, s.val) : TRUE],
           [got |-> [t \in Pair |-> <<>>], val |-> litmus.first], order)

\* Read-modify-writes lose no update and give no ticket twice, wrapping around
\* included: what they answered and left is what they answer and leave when they
\* are executed one at a time in some order.
UpdatesNotLost ==
  litmus.name = "count" /\ Finished =>
    \E order \in {<<1, 1, 2, 2>>, <<1, 2, 1, 2>>, <<1, 2, 2, 1>>,
                  <<2, 1, 1, 2>>, <<2, 1, 2, 1>>, <<2, 2, 1, 1>>} :
      OneAtATime(order) = [got |-> reads, val |-> Latest("flag").val]

\* The atomic operations order and count as the library relies on, with gcc and
\* with MSVC.
AtomicsHold == PublishedIsSeen /\ OneSeesTheOther /\ UpdatesNotLost
=============================================================================
