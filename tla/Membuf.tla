------------------------------- MODULE Membuf -------------------------------
(***************************************************************************)
(* The circular allocator of src/src/core/membuf.c, where the data movers  *)
(* keep the data of their operations. Every thread allocates from a buffer *)
(* of its own without a lock; any thread may free, at any time, with one   *)
(* atomic store. When a thread exits, its buffer goes to a list of unused  *)
(* ones, still holding allocations that other threads have yet to free.    *)
(*                                                                         *)
(* A mover allocates operations of one size only, so all entries of a      *)
(* membuf have the same real_size. Sizes are in units of the alignment of  *)
(* an entry's header, and an entry is known by its position in the buffer. *)
(***************************************************************************)
EXTENDS Integers, Sequences, FiniteSets

CONSTANTS
  Threads,     \* threads that allocate; a thread that exits may come back
  Bufs,        \* the buffers malloc can provide
  NULL,
  Size,        \* tbuf->size
  EntrySize,   \* real_size of an allocation, header included
  MaxHolders   \* bound on the allocations that share one position

ASSUME MembufAssumption ==
  /\ IsFiniteSet(Threads) /\ NULL \notin Threads
  /\ IsFiniteSet(Bufs) /\ NULL \notin Bufs
  /\ Size \in Nat
  /\ EntrySize \in 1..Size
  /\ MaxHolders \in Nat \ {0}

VARIABLES
  known,       \* tbuf_first, the list of all buffers
  unused,      \* tbuf_unused_first, last in first out
  lists_lock,  \* the thread that holds it
  tls,         \* the buffer a thread has under bufkey
  offset, available, leftovers, \* of every buffer
  allocated,   \* the header at a position, "junk" where none was written
  holders,     \* how many allocations not yet freed start at a position
  pc,          \* where in membuf_alloc a thread is
  tbuf,        \* the buffer a thread works on
  folded,      \* a wraparound left more than the tail of the buffer unused
  deleted

lists == <<known, unused, lists_lock, tls>>
space == <<offset, available, leftovers, folded>>
entries == <<allocated, holders>>
vars == <<lists, space, entries, pc, tbuf, deleted>>

Places == 0..Size-1

Goto(t, label) == pc' = [pc EXCEPT ![t] = label]

\* membuf_new
Init ==
  /\ known = {}
  /\ unused = <<>>
  /\ lists_lock = NULL
  /\ tls = [t \in Threads |-> NULL]
  /\ offset = [b \in Bufs |-> 0]
  /\ available = [b \in Bufs |-> 0]
  /\ leftovers = [b \in Bufs |-> 0]
  /\ allocated = [b \in Bufs |-> [p \in Places |-> "junk"]]
  /\ holders = [b \in Bufs |-> [p \in Places |-> 0]]
  /\ pc = [t \in Threads |-> "out"]
  /\ tbuf = [t \in Threads |-> NULL]
  /\ folded = [b \in Bufs |-> FALSE]
  /\ deleted = FALSE

-----------------------------------------------------------------------------
\* membuf_alloc is called; membuf_get_threadbuf finds the thread's buffer, or
\* takes the lock and looks at the first unused one.
membuf_alloc(t) ==
  /\ pc[t] = "out" /\ ~deleted
  /\ \A b \in Bufs, p \in Places : holders[b][p] < MaxHolders
  /\ \/ /\ tls[t] # NULL
        /\ tbuf' = [tbuf EXCEPT ![t] = tls[t]]
        /\ Goto(t, "fit")
        /\ UNCHANGED lists_lock
     \/ /\ tls[t] = NULL /\ lists_lock = NULL
        /\ lists_lock' = t
        /\ tbuf' = [tbuf EXCEPT ![t] = IF unused = <<>> THEN NULL ELSE Head(unused)]
        /\ Goto(t, IF unused = <<>> THEN "new" ELSE "reuse")
  /\ UNCHANGED <<known, unused, tls, space, entries, deleted>>

\* membuf_get_threadbuf: the buffer b becomes the thread's own.
Adopt(t, b) ==
  /\ offset' = [offset EXCEPT ![b] = 0]
  /\ leftovers' = [leftovers EXCEPT ![b] = 0]
  /\ available' = [available EXCEPT ![b] = Size]
  /\ tls' = [tls EXCEPT ![t] = b]
  /\ lists_lock' = NULL
  /\ tbuf' = [tbuf EXCEPT ![t] = b]
  /\ Goto(t, "fit")
  /\ UNCHANGED <<entries, folded, deleted>>

\* Mutant of reuse_whole: the buffer stays on the list of unused ones.
reuse_whole_listed(t) ==
  /\ pc[t] = "reuse"
  /\ available[tbuf[t]] = Size
  /\ UNCHANGED <<unused, known>>
  /\ Adopt(t, tbuf[t])

\* Mutant of reuse_whole: the buffer is not pruned and checked first.
reuse_whole_unchecked(t) ==
  /\ pc[t] = "reuse"
  /\ unused' = Tail(unused)
  /\ UNCHANGED known
  /\ Adopt(t, tbuf[t])

\* tbuf_check_safe_for_reuse found everything available.
reuse_whole(t) ==
  /\ pc[t] = "reuse"
  /\ available[tbuf[t]] = Size
  /\ unused' = Tail(unused)
  /\ UNCHANGED known
  /\ Adopt(t, tbuf[t])

\* util_aligned_malloc succeeds, or fails and membuf_alloc returns NULL.
get_new(t) ==
  /\ pc[t] = "new"
  /\ \/ \E b \in Bufs \ known : known' = known \cup {b} /\ UNCHANGED unused /\ Adopt(t, b)
     \/ /\ lists_lock' = NULL
        /\ tbuf' = [tbuf EXCEPT ![t] = NULL]
        /\ Goto(t, "out")
        /\ UNCHANGED <<known, unused, tls, space, entries, deleted>>

-----------------------------------------------------------------------------
\* membuf_threadbuf_prune, called to find out whether a buffer can be reused
\* ("reuse") or to make room ("prune"): one iteration of its loop.
Pruning(t) == pc[t] \in {"reuse", "prune"} /\ available[tbuf[t]] # Size

\* What is left between the end of the available space and the end of the
\* buffer. The code's size_t wraps around instead of becoming negative; either
\* way it does not equal leftovers then.
Remaining(b) == Size - (offset[b] + available[b])
AtLeftovers(b) == leftovers[b] # 0 /\ Remaining(b) = leftovers[b]
NextLoc(b) == (offset[b] + available[b]) % Size

prune_leftovers(t) ==
  LET b == tbuf[t] IN
  /\ Pruning(t) /\ AtLeftovers(b)
  /\ available' = [available EXCEPT ![b] = @ + leftovers[b]]
  /\ leftovers' = [leftovers EXCEPT ![b] = 0]
  /\ UNCHANGED <<offset, folded, lists, entries, pc, tbuf, deleted>>

\* Mutant of prune_free: the entry's size was cleared together with allocated.
prune_free_cleared(t) ==
  /\ Pruning(t) /\ ~AtLeftovers(tbuf[t])
  /\ allocated[tbuf[t]][NextLoc(tbuf[t])] = "free"
  /\ UNCHANGED vars

\* The next entry is free: it becomes available.
prune_free(t) ==
  LET b == tbuf[t] IN
  /\ Pruning(t) /\ ~AtLeftovers(b)
  /\ allocated[b][NextLoc(b)] = "free"
  /\ available' = [available EXCEPT ![b] = @ + EntrySize]
  /\ UNCHANGED <<offset, leftovers, folded, lists, entries, pc, tbuf, deleted>>

\* The next entry is allocated: prune returns. (A junk header is never met,
\* see PruneReadsHeaders.)
prune_stops(t) ==
  LET b == tbuf[t] IN
  /\ Pruning(t) /\ ~AtLeftovers(b)
  /\ allocated[b][NextLoc(b)] # "free"
  /\ Goto(t, IF pc[t] = "reuse" THEN "new" ELSE "pruned")
  /\ UNCHANGED <<lists, space, entries, tbuf, deleted>>

\* The loop condition ends the prune of membuf_alloc.
prune_whole(t) ==
  /\ pc[t] = "prune" /\ available[tbuf[t]] = Size
  /\ Goto(t, "pruned")
  /\ UNCHANGED <<lists, space, entries, tbuf, deleted>>

-----------------------------------------------------------------------------
Returns(t) ==
  /\ Goto(t, "out")
  /\ tbuf' = [tbuf EXCEPT ![t] = NULL]
  /\ UNCHANGED <<lists, deleted>>

\* The end of membuf_alloc: an entry at offset. The memory behind the header
\* now belongs to the user, so headers that were there are lost.
Place(t) ==
  LET b == tbuf[t] IN
  /\ offset' = [offset EXCEPT ![b] = @ + EntrySize]
  /\ available' = [available EXCEPT ![b] = @ - EntrySize]
  /\ allocated' = [allocated EXCEPT ![b] = [p \in Places |->
       IF p = offset[b] THEN "live"
       ELSE IF p \in offset[b]..(offset[b] + EntrySize - 1) THEN "junk"
       ELSE @[p]]]
  /\ holders' = [holders EXCEPT ![b][offset[b]] = @ + 1]
  /\ UNCHANGED <<leftovers, folded>>
  /\ Returns(t)

Wraps(b) == offset[b] + EntrySize > Size

\* Mutant of alloc_wrap: what is left behind is not remembered.
alloc_wrap_forgets(t) ==
  LET b == tbuf[t] IN
  /\ pc[t] = "fit" /\ Wraps(b)
  /\ offset' = [offset EXCEPT ![b] = 0]
  /\ available' = [available EXCEPT ![b] = 0]
  /\ Goto(t, "prune")
  /\ UNCHANGED <<leftovers, folded, lists, entries, tbuf, deleted>>

\* The entry does not fit before the end of the buffer: start over. Whatever
\* was available is left over, and folded records whether that was more than
\* the tail between offset and the end.
alloc_wrap(t) ==
  LET b == tbuf[t] IN
  /\ pc[t] = "fit" /\ Wraps(b)
  /\ leftovers' = [leftovers EXCEPT ![b] = available[b]]
  /\ offset' = [offset EXCEPT ![b] = 0]
  /\ available' = [available EXCEPT ![b] = 0]
  /\ folded' = [folded EXCEPT ![b] = @ \/ available[b] > Size - offset[b]]
  /\ Goto(t, "prune")
  /\ UNCHANGED <<lists, entries, tbuf, deleted>>

alloc_short(t) ==
  /\ pc[t] = "fit" /\ ~Wraps(tbuf[t])
  /\ EntrySize > available[tbuf[t]]
  /\ Goto(t, "prune")
  /\ UNCHANGED <<lists, space, entries, tbuf, deleted>>

alloc_place(t) ==
  /\ \/ pc[t] = "fit" /\ ~Wraps(tbuf[t])
     \/ pc[t] = "pruned"
  /\ EntrySize <= available[tbuf[t]]
  /\ Place(t)

\* Not enough was reclaimed: membuf_alloc returns NULL.
alloc_fail(t) ==
  /\ pc[t] = "pruned"
  /\ EntrySize > available[tbuf[t]]
  /\ Returns(t)
  /\ UNCHANGED <<space, entries>>

-----------------------------------------------------------------------------
\* membuf_free, by any thread and concurrently with everything else.
membuf_free(b, p) ==
  /\ ~deleted
  /\ holders[b][p] > 0
  /\ holders' = [holders EXCEPT ![b][p] = @ - 1]
  /\ allocated' = [allocated EXCEPT ![b][p] = "free"]
  /\ UNCHANGED <<lists, space, pc, tbuf, deleted>>

\* A thread exits: membuf_key_destructor puts its buffer on the list.
membuf_key_destructor(t) ==
  /\ pc[t] = "out" /\ ~deleted
  /\ tls[t] # NULL
  /\ lists_lock = NULL
  /\ unused' = <<tls[t]>> \o unused
  /\ tls' = [tls EXCEPT ![t] = NULL]
  /\ UNCHANGED <<known, lists_lock, space, entries, pc, tbuf, deleted>>

\* membuf_delete, when no thread is inside membuf_alloc. The buffers are
\* freed with the allocations that are left in them.
membuf_delete ==
  /\ ~deleted
  /\ \A t \in Threads : pc[t] = "out"
  /\ deleted' = TRUE
  /\ known' = {}
  /\ unused' = <<>>
  /\ tls' = [t \in Threads |-> NULL]
  /\ holders' = [b \in Bufs |-> [p \in Places |-> 0]]
  /\ UNCHANGED <<lists_lock, space, allocated, pc, tbuf>>

Terminated == deleted /\ UNCHANGED vars

\* The steps of a call of membuf_alloc that has begun.
AllocStep(t) ==
  \/ reuse_whole(t) \/ get_new(t)
  \/ prune_leftovers(t) \/ prune_free(t) \/ prune_stops(t) \/ prune_whole(t)
  \/ alloc_wrap(t) \/ alloc_short(t) \/ alloc_place(t) \/ alloc_fail(t)

Next ==
  \/ \E t \in Threads : membuf_alloc(t) \/ AllocStep(t) \/ membuf_key_destructor(t)
  \/ \E b \in Bufs, p \in Places : membuf_free(b, p)
  \/ membuf_delete
  \/ Terminated

Spec == Init /\ [][Next]_vars

\* A thread inside membuf_alloc goes on.
FairSpec == Spec /\ \A t \in Threads : WF_vars(AllocStep(t))

-----------------------------------------------------------------------------
\* The type of every variable.
TypeOK ==
  /\ known \subseteq Bufs
  /\ unused \in Seq(Bufs)
  /\ lists_lock \in Threads \cup {NULL}
  /\ tls \in [Threads -> Bufs \cup {NULL}]
  /\ offset \in [Bufs -> 0..Size]
  /\ available \in [Bufs -> 0..Size]
  /\ leftovers \in [Bufs -> 0..Size]
  /\ allocated \in [Bufs -> [Places -> {"junk", "free", "live"}]]
  /\ holders \in [Bufs -> [Places -> 0..MaxHolders]]
  /\ pc \in [Threads -> {"out", "reuse", "new", "fit", "prune", "pruned"}]
  /\ tbuf \in [Threads -> Bufs \cup {NULL}]
  /\ folded \in [Bufs -> BOOLEAN]
  /\ deleted \in BOOLEAN

\* Without a lock on its fast path, membuf_alloc relies on a buffer belonging
\* to one thread: a buffer is either under the key of one thread or on the list
\* of unused ones, once, however exits and first allocations follow each other.
OneOwner ==
  /\ TypeOK
  /\ \A b \in known :
       Cardinality({t \in Threads : tls[t] = b})
         + Cardinality({i \in DOMAIN unused : unused[i] = b}) = 1

\* membuf_threadbuf_prune steps from header to header without checks. It only
\* ever reads a header that membuf_alloc wrote, never the tail of the buffer
\* or user data, even after wraparounds and a change of owner.
PruneReadsHeaders ==
  \A t \in Threads :
    Pruning(t) /\ ~AtLeftovers(tbuf[t]) =>
      allocated[tbuf[t]][NextLoc(tbuf[t])] # "junk"

\* The loop of membuf_threadbuf_prune ends only when available equals size: it
\* does not step over it, so membuf_alloc returns.
AllocReturns == \A t \in Threads : pc[t] # "out" ~> pc[t] = "out"

\* The units of a buffer that the next allocations will use.
Ahead(b) == {(offset[b] + k) % Size : k \in 0..available[b]-1}

\* The units of the allocation at position p.
Extent(p) == p..(p + EntrySize - 1)

FreeAhead(b) == \A p \in Places : holders[b][p] > 0 => Extent(p) \cap Ahead(b) = {}

\* As long as every wraparound left exactly the tail of the buffer unused, no
\* space that membuf counts as available belongs to a live allocation, so no
\* two allocations overlap and a buffer that is handed to another thread holds
\* none, however frees race with prune and with the exit of threads.
SafeUnlessFolded == \A b \in known : ~folded[b] => FreeAhead(b)

\* "free space available in front of the offset", the comment on available.
AvailableIsFree == \A b \in known : FreeAhead(b)
=============================================================================
