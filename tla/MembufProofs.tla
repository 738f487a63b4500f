---------------------------- MODULE MembufProofs ----------------------------
(***************************************************************************)
(* Proofs about Membuf for every number of threads and buffers, every size *)
(* of the buffers and of their entries, whatever threads exit and free.    *)
(***************************************************************************)
EXTENDS Membuf, FiniteSetTheorems, TLAPS

\* A multiple of the size of an entry.
Aligned(p) == \E k \in 0..p : p = k * EntrySize

\* The thread has a buffer, or holds the lock to get one.
Owning == {"fit", "prune", "pruned"}

\* Where a thread is in membuf_alloc, and what it may touch.
ThreadInv(t) ==
  /\ pc[t] \in {"reuse", "new"} <=> lists_lock = t
  /\ pc[t] \in {"reuse", "new"} => tls[t] = NULL
  /\ pc[t] = "reuse" => unused # <<>> /\ tbuf[t] = Head(unused)
  /\ pc[t] \in Owning => tls[t] \in Bufs /\ tbuf[t] = tls[t]
  /\ pc[t] \in {"prune", "pruned"} => ~Wraps(tbuf[t])
  /\ pc[t] \in {"reuse"} \cup Owning => \A p \in Places : holders[tbuf[t]][p] < MaxHolders
  /\ tls[t] # NULL => tls[t] \in known
  /\ deleted => pc[t] = "out"

\* The buffers under the keys of threads and those on the list are different.
ListsInv ==
  /\ \A t, u \in Threads : tls[t] = tls[u] /\ tls[t] # NULL => t = u
  /\ \A i, j \in DOMAIN unused : unused[i] = unused[j] => i = j
  /\ \A i \in DOMAIN unused : unused[i] \in known /\ \A t \in Threads : tls[t] # unused[i]
  /\ \A b \in known : (\E t \in Threads : tls[t] = b) \/ (\E i \in DOMAIN unused : unused[i] = b)

\* The end of the available space, beyond Size when it goes on at 0.
End(b) == offset[b] + available[b]

\* The space reaches the end of the buffer, and entries from its beginning were
\* reclaimed after it. Headers were written up to offset.
Open(b) ==
  /\ leftovers[b] = 0
  /\ Aligned(End(b) - Size)
  /\ \A p \in Places : Aligned(p) /\ p < offset[b] => allocated[b][p] # "junk"
  /\ ~folded[b] => \A p \in Places : holders[b][p] > 0 => End(b) - Size <= p /\ p < offset[b]

\* The space ends before what the last wraparound left over. Then the whole
\* buffer has been written.
Wrapped(b) ==
  /\ Aligned(End(b)) /\ Aligned(Size - leftovers[b]) /\ End(b) <= Size - leftovers[b]
  /\ \A p \in Places : Aligned(p) /\ p + EntrySize <= Size => allocated[b][p] # "junk"
  /\ AtLeftovers(b) => \E t \in Threads : pc[t] \in {"reuse", "prune"} /\ tbuf[t] = b
  /\ ~folded[b] => /\ leftovers[b] < EntrySize
                   /\ \A p \in Places : holders[b][p] > 0 => p < offset[b] \/ End(b) <= p

BufInv(b) ==
  /\ \A p \in Places : holders[b][p] > 0 => Aligned(p) /\ p + EntrySize <= Size
  /\ ~folded[b] => \A p \in Places : /\ holders[b][p] <= 1
                                     /\ allocated[b][p] = "free" => holders[b][p] = 0
  /\ b \in known => Aligned(offset[b]) /\ (Open(b) \/ Wrapped(b))
  /\ b \notin known => \A p \in Places : holders[b][p] = 0

MembufInv ==
  /\ TypeOK
  /\ \A t \in Threads : ThreadInv(t)
  /\ ListsInv
  /\ \A b \in Bufs : BufInv(b)

-----------------------------------------------------------------------------
\* Arithmetic of multiples of EntrySize.
LEMMA AlignedFactor ==
  ASSUME NEW p \in Int
  PROVE  Aligned(p) <=> \E k \in Nat : p = k * EntrySize
<1>1. EntrySize \in Nat /\ EntrySize >= 1
  BY MembufAssumption
<1>2. ASSUME NEW k \in Nat, p = k * EntrySize PROVE k \in 0..p
  <2>1. k * EntrySize >= k
    BY <1>1
  <2> QED
    BY <1>2, <2>1
<1>3. Aligned(p) => \E k \in Nat : p = k * EntrySize
  BY DEF Aligned
<1> QED
  BY <1>2, <1>3, Zenon DEF Aligned

\* The first two entries start at multiples of the entry size.
LEMMA AlignedBase == Aligned(0) /\ Aligned(EntrySize)
<1>1. EntrySize \in Nat /\ 0 = 0 * EntrySize /\ EntrySize = 1 * EntrySize
  BY MembufAssumption
<1> QED
  BY <1>1, AlignedFactor

\* Sums and differences of multiples are multiples, and two multiples are equal or
\* at least an entry apart.
LEMMA AlignedSum ==
  ASSUME NEW p \in Int, NEW q \in Int, Aligned(p), Aligned(q)
  PROVE  Aligned(p + q) /\ (q <= p => Aligned(p - q)) /\ (p < q => p + EntrySize <= q) /\ p >= 0
<1>0. EntrySize \in Nat /\ EntrySize >= 1
  BY MembufAssumption
<1>1. PICK k \in Nat : p = k * EntrySize
  BY AlignedFactor, Zenon
<1>2. PICK m \in Nat : q = m * EntrySize
  BY AlignedFactor, Zenon
<1>3. p + q = (k + m) * EntrySize /\ p - q = (k - m) * EntrySize /\ p >= 0
  BY <1>0, <1>1, <1>2
<1>4. Aligned(p + q)
  BY <1>3, AlignedFactor
<1>5. ASSUME q <= p PROVE Aligned(p - q)
  <2>1. k >= m
    BY <1>0, <1>1, <1>2, <1>5
  <2>2. k - m \in Nat /\ p - q \in Int
    BY <2>1
  <2> QED
    BY <1>3, <2>2, AlignedFactor, Zenon
<1>6. ASSUME p < q PROVE p + EntrySize <= q
  <2>1. k + 1 <= m
    BY <1>0, <1>1, <1>2, <1>6
  <2>2. (k + 1) * EntrySize <= m * EntrySize
    BY <1>0, <2>1
  <2>3. (k + 1) * EntrySize = k * EntrySize + EntrySize
    BY <1>0
  <2> QED
    BY <1>1, <1>2, <2>2, <2>3, Zenon
<1> QED
  BY <1>3, <1>4, <1>5, <1>6, Zenon

\* membuf_new satisfies the invariant.
LEMMA MembufInit == Init => MembufInv
<1> SUFFICES ASSUME Init PROVE MembufInv
  BY Zenon
<1>1. TypeOK
  <2>1. 0 \in 0..Size /\ 0 \in 0..MaxHolders
    BY MembufAssumption
  <2>2. known \subseteq Bufs /\ lists_lock \in Threads \cup {NULL} /\ deleted \in BOOLEAN
    BY Zenon DEF Init
  <2>3. allocated \in [Bufs -> [Places -> {"junk", "free", "live"}]]
    BY Zenon DEF Init
  <2>4. holders \in [Bufs -> [Places -> 0..MaxHolders]]
    BY <2>1, Zenon DEF Init
  <2>5. unused \in Seq(Bufs)
    BY SMT DEF Init
  <2> QED
    BY <2>1, <2>2, <2>3, <2>4, <2>5, Zenon DEF Init, TypeOK
<1>2. ASSUME NEW t \in Threads PROVE ThreadInv(t)
  BY MembufAssumption, Zenon DEF Init, ThreadInv, Owning
<1>3. ListsInv
  BY DEF Init, ListsInv
<1>4. ASSUME NEW b \in Bufs PROVE BufInv(b)
  BY DEF Init, BufInv
<1> QED
  BY <1>1, <1>2, <1>3, <1>4, Zenon DEF MembufInv

-----------------------------------------------------------------------------
\* A buffer that a thread prunes or allocates from is its own.
LEMMA Owner ==
  ASSUME MembufInv, NEW t \in Threads, pc[t] \in {"reuse"} \cup Owning
  PROVE  /\ tbuf[t] \in Bufs /\ tbuf[t] \in known /\ ~deleted
         /\ \A p \in Places : holders[tbuf[t]][p] < MaxHolders
         /\ \A u \in Threads \ {t} : pc[u] \in {"reuse"} \cup Owning => tbuf[u] # tbuf[t]
<1>0. TypeOK /\ ListsInv /\ \A u \in Threads : ThreadInv(u)
  BY Zenon DEF MembufInv
<1>1. ASSUME NEW u \in Threads, pc[u] = "reuse"
      PROVE  1 \in DOMAIN unused /\ tbuf[u] = unused[1] /\ tbuf[u] \in known /\ lists_lock = u
  <2>1. unused \in Seq(Bufs) /\ unused # <<>> /\ tbuf[u] = Head(unused) /\ lists_lock = u
    BY <1>0, <1>1, Zenon DEF ThreadInv, TypeOK
  <2>2. 1 \in DOMAIN unused /\ tbuf[u] = unused[1]
    BY <2>1
  <2> QED
    BY <1>0, <2>1, <2>2, Zenon DEF ListsInv
<1>2. ASSUME NEW u \in Threads, pc[u] \in Owning
      PROVE  tbuf[u] = tls[u] /\ tls[u] # NULL /\ tbuf[u] \in known
  BY <1>0, <1>2, MembufAssumption, Zenon DEF ThreadInv
<1>3. tbuf[t] \in known /\ tbuf[t] \in Bufs /\ ~deleted
  BY <1>0, <1>1, <1>2, Zenon DEF TypeOK, ThreadInv, Owning
<1>4. ASSUME NEW u \in Threads \ {t}, pc[u] \in {"reuse"} \cup Owning PROVE tbuf[u] # tbuf[t]
  <2>1. CASE pc[t] = "reuse" /\ pc[u] = "reuse"
    BY <1>1, <1>4, <2>1, Zenon
  <2>2. CASE pc[t] = "reuse" /\ pc[u] \in Owning
    BY <1>0, <1>1, <1>2, <1>4, <2>2 DEF ListsInv
  <2>3. CASE pc[t] \in Owning /\ pc[u] = "reuse"
    BY <1>0, <1>1, <1>2, <1>4, <2>3 DEF ListsInv
  <2>4. CASE pc[t] \in Owning /\ pc[u] \in Owning
    BY <1>0, <1>2, <1>4, <2>4 DEF ListsInv
  <2> QED
    BY <1>4, <2>1, <2>2, <2>3, <2>4, Zenon
<1>5. \A p \in Places : holders[tbuf[t]][p] < MaxHolders
  BY <1>0, Zenon DEF ThreadInv
<1> QED
  BY <1>3, <1>4, <1>5, Zenon

\* The buffer that Adopt gives to a thread is listed or new, and nobody's.
LEMMA Adopting ==
  ASSUME MembufInv, NEW t \in Threads, reuse_whole(t) \/ get_new(t)
  PROVE  /\ lists_lock = t /\ tls[t] = NULL /\ ~deleted
         /\ \/ \E b \in Bufs : /\ Adopt(t, b)
                               /\ \A u \in Threads : tls[u] # b
                               /\ \A p \in Places : holders[b][p] < MaxHolders
                               /\ \/ /\ pc[t] = "reuse" /\ unused # <<>> /\ b = unused[1] /\ tbuf[t] = b
                                     /\ available[b] = Size
                                     /\ unused' = Tail(unused) /\ known' = known /\ b \in known
                                  \/ /\ pc[t] = "new" /\ b \notin known
                                     /\ unused' = unused /\ known' = known \cup {b}
            \/ /\ pc[t] = "new"
               /\ lists_lock' = NULL
               /\ tbuf' = [tbuf EXCEPT ![t] = NULL]
               /\ Goto(t, "out")
               /\ UNCHANGED <<known, unused, tls, space, entries, deleted>>
<1>0. TypeOK /\ ListsInv /\ \A u \in Threads : ThreadInv(u)
  BY Zenon DEF MembufInv
<1>1. pc[t] \in {"reuse", "new"} /\ lists_lock = t /\ tls[t] = NULL /\ ~deleted
  BY <1>0, Zenon DEF reuse_whole, get_new, ThreadInv
<1>2. CASE reuse_whole(t)
  <2>1. pc[t] = "reuse" /\ unused # <<>> /\ tbuf[t] = Head(unused)
    BY <1>0, <1>2, Zenon DEF reuse_whole, ThreadInv
  <2>2. unused \in Seq(Bufs) /\ 1 \in DOMAIN unused /\ tbuf[t] = unused[1]
    BY <1>0, <2>1 DEF TypeOK
  <2>3. PICK b \in Bufs : b = tbuf[t] /\ b \in known /\ \A p \in Places : holders[b][p] < MaxHolders
    BY <2>1, Owner, Zenon
  <2>4. \A u \in Threads : tls[u] # b
    BY <1>0, <2>2, <2>3 DEF ListsInv
  <2> QED
    BY <1>1, <1>2, <2>1, <2>2, <2>3, <2>4, Zenon DEF reuse_whole
<1>3. CASE get_new(t)
  <2>1. ASSUME NEW b \in Bufs \ known PROVE (\A u \in Threads : tls[u] # b) /\ \A p \in Places : holders[b][p] < MaxHolders
    <3>1. BufInv(b)
      BY <2>1, Zenon DEF MembufInv
    <3>2. \A p \in Places : holders[b][p] = 0
      BY <2>1, <3>1, Zenon DEF BufInv
    <3>3. 0 < MaxHolders /\ NULL \notin Bufs
      BY MembufAssumption
    <3> QED
      BY <1>0, <2>1, <3>2, <3>3, Zenon DEF ThreadInv
  <2> QED
    BY <1>1, <1>3, <2>1, Zenon DEF get_new
<1> QED
  BY <1>2, <1>3, Zenon

\* Every step keeps a thread where ThreadInv says.
LEMMA ThreadStep ==
  ASSUME MembufInv, [Next]_vars, NEW u \in Threads
  PROVE  ThreadInv(u)'
<1>0. TypeOK /\ ListsInv /\ ThreadInv(u) /\ NULL \notin Threads /\ NULL \notin Bufs
  BY MembufAssumption, Zenon DEF MembufInv
<1>1. ASSUME NEW t \in Threads, membuf_alloc(t) PROVE ThreadInv(u)'
  <2>0. /\ pc[t] = "out" /\ ~deleted /\ ThreadInv(t)
        /\ \A b \in Bufs, p \in Places : holders[b][p] < MaxHolders
        /\ UNCHANGED <<known, unused, tls, offset, holders, deleted>>
    BY <1>1, Zenon DEF membuf_alloc, space, entries, MembufInv
  <2>1. CASE /\ tls[t] # NULL
             /\ tbuf' = [tbuf EXCEPT ![t] = tls[t]]
             /\ Goto(t, "fit")
             /\ UNCHANGED lists_lock
    <3>1. /\ pc'[t] = "fit" /\ tbuf'[t] = tls[t] /\ tls[t] \in Bufs
          /\ \A v \in Threads \ {t} : pc'[v] = pc[v] /\ tbuf'[v] = tbuf[v]
      BY <1>0, <2>1, Zenon DEF Goto, TypeOK
    <3>2. CASE u = t
      BY <1>0, <2>0, <2>1, <3>1, <3>2, Zenon DEF ThreadInv, Owning
    <3>3. CASE u # t
      BY <1>0, <2>0, <2>1, <3>1, <3>3, Zenon DEF ThreadInv, Owning, Wraps
    <3> QED
      BY <3>2, <3>3, Zenon
  <2>2. CASE /\ tls[t] = NULL /\ lists_lock = NULL
             /\ lists_lock' = t
             /\ tbuf' = [tbuf EXCEPT ![t] = IF unused = <<>> THEN NULL ELSE Head(unused)]
             /\ Goto(t, IF unused = <<>> THEN "new" ELSE "reuse")
    <3>1. /\ unused = <<>> => pc'[t] = "new"
          /\ unused # <<>> => pc'[t] = "reuse" /\ tbuf'[t] = Head(unused)
          /\ \A v \in Threads \ {t} : pc'[v] = pc[v] /\ tbuf'[v] = tbuf[v]
      BY <1>0, <2>2, Zenon DEF Goto, TypeOK
    <3>2. CASE u = t
      <4>1. unused # <<>> => Head(unused) \in Bufs
        BY <1>0 DEF TypeOK
      <4> QED
        BY <1>0, <2>0, <2>2, <3>1, <3>2, <4>1, Zenon DEF ThreadInv, Owning
    <3>3. CASE u # t
      BY <1>0, <2>0, <2>2, <3>1, <3>3, Zenon DEF ThreadInv, Owning, Wraps
    <3> QED
      BY <3>2, <3>3, Zenon
  <2> QED
    BY <1>1, <2>1, <2>2, Zenon DEF membuf_alloc
<1>2. ASSUME NEW t \in Threads, reuse_whole(t) \/ get_new(t) PROVE ThreadInv(u)'
  <2>1. lists_lock = t /\ tls[t] = NULL /\ ~deleted
    BY <1>2, Adopting, Zenon
  <2>2. ASSUME NEW b \in Bufs, Adopt(t, b), \A p \in Places : holders[b][p] < MaxHolders,
               known \subseteq known', b \in known'
        PROVE  ThreadInv(u)'
    <3>1. /\ pc'[t] = "fit" /\ tbuf'[t] = b /\ tls'[t] = b /\ lists_lock' = NULL
          /\ \A v \in Threads \ {t} : pc'[v] = pc[v] /\ tbuf'[v] = tbuf[v] /\ tls'[v] = tls[v]
          /\ holders' = holders /\ deleted' = deleted
          /\ \A c \in Bufs : offset'[c] \in {0, offset[c]}
      BY <1>0, <2>2, Zenon DEF Adopt, Goto, TypeOK, entries
    <3>2. CASE u = t
      BY <1>0, <2>1, <2>2, <3>1, <3>2, Zenon DEF ThreadInv, Owning
    <3>3. CASE u # t
      <4>1. pc[u] \notin {"reuse", "new"}
        BY <1>0, <2>1, <3>3, Zenon DEF ThreadInv
      <4>2. pc[u] \in {"prune", "pruned"} => ~Wraps(tbuf[u])'
        <5>1. 0 + EntrySize <= Size /\ EntrySize \in Nat /\ Size \in Nat
          BY MembufAssumption
        <5>2. ASSUME pc[u] \in {"prune", "pruned"} PROVE ~(offset'[tbuf'[u]] + EntrySize > Size)
          <6>1. tbuf[u] \in Bufs /\ tbuf'[u] = tbuf[u] /\ ~(offset[tbuf[u]] + EntrySize > Size)
            BY <1>0, <3>1, <3>3, <5>2, Zenon DEF ThreadInv, Owning, Wraps
          <6>2. offset'[tbuf[u]] \in {0, offset[tbuf[u]]}
            BY <3>1, <6>1, Zenon
          <6> QED
            BY <5>1, <6>1, <6>2
        <5> QED
          BY <5>2, Zenon DEF Wraps
      <4> QED
        BY <1>0, <2>1, <2>2, <3>1, <3>3, <4>1, <4>2, Zenon DEF ThreadInv, Owning
    <3> QED
      BY <3>2, <3>3, Zenon
  <2>3. CASE /\ pc[t] = "new" /\ lists_lock' = NULL
             /\ tbuf' = [tbuf EXCEPT ![t] = NULL]
             /\ Goto(t, "out")
             /\ UNCHANGED <<known, unused, tls, space, entries, deleted>>
    <3>1. /\ pc'[t] = "out" /\ UNCHANGED <<holders, offset>>
          /\ \A v \in Threads \ {t} : pc'[v] = pc[v] /\ tbuf'[v] = tbuf[v]
      BY <1>0, <2>3, Zenon DEF Goto, TypeOK, space, entries
    <3>2. CASE u = t
      BY <1>0, <2>1, <2>3, <3>1, <3>2, Zenon DEF ThreadInv, Owning
    <3>3. CASE u # t
      BY <1>0, <2>1, <2>3, <3>1, <3>3, Zenon DEF ThreadInv, Owning, Wraps
    <3> QED
      BY <3>2, <3>3, Zenon
  <2> QED
    BY <1>2, <2>2, <2>3, Adopting, Zenon
<1>3. ASSUME NEW t \in Threads, prune_leftovers(t) \/ prune_free(t) PROVE ThreadInv(u)'
  BY <1>0, <1>3 DEF prune_leftovers, prune_free, lists, entries, ThreadInv, Wraps, Owning
<1>4. ASSUME NEW t \in Threads, prune_stops(t) \/ prune_whole(t) \/ alloc_short(t) PROVE ThreadInv(u)'
  <2>1. /\ UNCHANGED <<lists_lock, tls, known, unused, offset, holders, tbuf, deleted>>
        /\ \A v \in Threads \ {t} : pc'[v] = pc[v]
    BY <1>0, <1>4, Zenon DEF prune_stops, prune_whole, alloc_short, lists, space, entries, Goto, TypeOK
  <2>2. \/ pc[t] = "reuse" /\ pc'[t] = "new"
        \/ pc[t] = "prune" /\ pc'[t] = "pruned"
        \/ pc[t] = "fit" /\ pc'[t] = "prune" /\ ~Wraps(tbuf[t])
    BY <1>0, <1>4, Zenon DEF prune_stops, prune_whole, alloc_short, Pruning, Goto, TypeOK
  <2>3. CASE u = t
    BY <1>0, <2>1, <2>2, <2>3, Zenon DEF ThreadInv, Owning, Wraps
  <2>4. CASE u # t
    BY <1>0, <2>1, <2>4, Zenon DEF ThreadInv, Owning, Wraps
  <2> QED
    BY <2>3, <2>4, Zenon
<1>5. ASSUME NEW t \in Threads, alloc_wrap(t) PROVE ThreadInv(u)'
  <2>1. /\ UNCHANGED <<lists_lock, tls, known, unused, holders, tbuf, deleted>>
        /\ pc[t] = "fit" /\ pc'[t] = "prune"
        /\ \A v \in Threads \ {t} : pc'[v] = pc[v]
        /\ \A c \in Bufs : offset'[c] \in {0, offset[c]}
        /\ tbuf[t] \in Bufs => offset'[tbuf[t]] = 0
    BY <1>0, <1>5, Zenon DEF alloc_wrap, lists, entries, Goto, TypeOK
  <2>2. 0 + EntrySize <= Size /\ EntrySize \in Nat /\ Size \in Nat
    BY MembufAssumption
  <2>3. CASE u = t
    BY <1>0, <2>1, <2>2, <2>3 DEF ThreadInv, Owning, Wraps
  <2>4. CASE u # t
    <3>1. ASSUME pc[u] \in {"prune", "pruned"} PROVE ~(offset'[tbuf[u]] + EntrySize > Size)
      <4>1. tbuf[u] \in Bufs /\ ~(offset[tbuf[u]] + EntrySize > Size)
        BY <1>0, <3>1, Zenon DEF ThreadInv, Owning, Wraps
      <4>2. offset'[tbuf[u]] \in {0, offset[tbuf[u]]}
        BY <2>1, <4>1, Zenon
      <4> QED
        BY <2>2, <4>1, <4>2
    <3> QED
      BY <1>0, <2>1, <2>4, <3>1, Zenon DEF ThreadInv, Owning, Wraps
  <2> QED
    BY <2>3, <2>4, Zenon
<1>6. ASSUME NEW t \in Threads, alloc_place(t) \/ alloc_fail(t) PROVE ThreadInv(u)'
  <2>1. /\ UNCHANGED <<lists_lock, tls, known, unused, deleted>>
        /\ pc[t] \in Owning /\ pc'[t] = "out"
        /\ \A v \in Threads \ {t} : pc'[v] = pc[v] /\ tbuf'[v] = tbuf[v]
    BY <1>0, <1>6, Zenon DEF alloc_place, alloc_fail, Place, Returns, lists, Goto, TypeOK, Owning
  <2>2. \A c \in Bufs \ {tbuf[t]} : offset'[c] = offset[c] /\ holders'[c] = holders[c]
    BY <1>0, <1>6, Zenon DEF alloc_place, alloc_fail, Place, space, entries, TypeOK
  <2>3. CASE u = t
    BY <1>0, <2>1, <2>3, Zenon DEF ThreadInv, Owning
  <2>4. CASE u # t
    <3>1. pc[u] \in {"reuse"} \cup Owning => tbuf[u] \in Bufs \ {tbuf[t]}
      BY <2>1, <2>4, Owner, Zenon
    <3> QED
      BY <1>0, <2>1, <2>2, <2>4, <3>1, Zenon DEF ThreadInv, Owning, Wraps
  <2> QED
    BY <2>3, <2>4, Zenon
<1>7. ASSUME NEW b \in Bufs, NEW p \in Places, membuf_free(b, p) PROVE ThreadInv(u)'
  <2>1. UNCHANGED <<lists_lock, tls, known, unused, offset, pc, tbuf, deleted>>
    BY <1>7, Zenon DEF membuf_free, lists, space
  <2>2. \A c \in Bufs, q \in Places : holders'[c][q] \in {holders[c][q], holders[c][q] - 1}
    BY <1>0, <1>7, ZenonT(30) DEF membuf_free, TypeOK
  <2>3. ASSUME pc[u] \in {"reuse"} \cup Owning, NEW q \in Places PROVE holders'[tbuf[u]][q] < MaxHolders
    <3>1. tbuf[u] \in Bufs /\ holders[tbuf[u]][q] < MaxHolders /\ holders[tbuf[u]][q] \in Nat
      BY <1>0, <2>3, Owner DEF TypeOK
    <3>2. holders'[tbuf[u]][q] \in {holders[tbuf[u]][q], holders[tbuf[u]][q] - 1} /\ MaxHolders \in Nat
      BY <2>2, <3>1, MembufAssumption, Zenon
    <3> QED
      BY <3>1, <3>2
  <2> QED
    BY <1>0, <2>1, <2>3, Zenon DEF ThreadInv, Wraps
<1>8. ASSUME NEW t \in Threads, membuf_key_destructor(t) PROVE ThreadInv(u)'
  <2>1. /\ UNCHANGED <<lists_lock, known, offset, pc, tbuf, holders, deleted>>
        /\ pc[t] = "out" /\ lists_lock = NULL /\ tls'[t] = NULL
        /\ \A v \in Threads \ {t} : tls'[v] = tls[v]
    BY <1>0, <1>8, Zenon DEF membuf_key_destructor, space, entries, TypeOK
  <2>2. pc[u] \notin {"reuse", "new"}
    BY <1>0, <2>1, Zenon DEF ThreadInv
  <2> QED
    BY <1>0, <2>1, <2>2, Zenon DEF ThreadInv, Owning, Wraps
<1>9. CASE membuf_delete
  BY <1>0, <1>9, Zenon DEF membuf_delete, ThreadInv, Owning
<1>10. CASE UNCHANGED vars
  BY <1>0, <1>10, Zenon DEF vars, lists, space, entries, ThreadInv, Owning, Wraps
<1> QED
  BY <1>1, <1>2, <1>3, <1>4, <1>5, <1>6, <1>7, <1>8, <1>9, <1>10, Zenon DEF Next, AllocStep, Terminated

\* Every step keeps the keys and the list apart.
LEMMA ListsStep ==
  ASSUME MembufInv, [Next]_vars
  PROVE  ListsInv'
<1>0. TypeOK /\ ListsInv /\ NULL \notin Bufs /\ unused \in Seq(Bufs)
  BY MembufAssumption, Zenon DEF MembufInv, TypeOK
<1>1. ASSUME UNCHANGED <<known, unused, tls>> PROVE ListsInv'
  BY <1>0, <1>1, Zenon DEF ListsInv
<1>2. ASSUME NEW t \in Threads, reuse_whole(t) \/ get_new(t) PROVE ListsInv'
  <2>0. tls[t] = NULL
    BY <1>2, Adopting, Zenon
  <2>1. ASSUME NEW b \in Bufs, Adopt(t, b), \A u \in Threads : tls[u] # b,
               unused # <<>>, b = unused[1], b \in known, unused' = Tail(unused), known' = known
        PROVE  ListsInv'
    <3>1. /\ tls'[t] = b
          /\ \A v \in Threads \ {t} : tls'[v] = tls[v]
      BY <1>0, <2>1, Zenon DEF Adopt, TypeOK
    <3>2. /\ DOMAIN unused' = 1..Len(unused)-1 /\ DOMAIN unused = 1..Len(unused) /\ Len(unused) \in Nat
          /\ Len(unused) >= 1
          /\ \A i \in 1..Len(unused)-1 : unused'[i] = unused[i + 1]
      BY <1>0, <2>1
    <3>3. \A i \in DOMAIN unused' : i + 1 \in DOMAIN unused /\ i + 1 # 1
      BY <3>2
    <3>4. \A i, j \in DOMAIN unused' : unused'[i] = unused'[j] => i = j
      <4> SUFFICES ASSUME NEW i \in DOMAIN unused', NEW j \in DOMAIN unused', unused'[i] = unused'[j]
                   PROVE  i = j
        BY Zenon
      <4>1. unused[i + 1] = unused[j + 1] /\ i \in Nat /\ j \in Nat
        BY <3>2
      <4>2. i + 1 = j + 1
        BY <1>0, <3>3, <4>1, Zenon DEF ListsInv
      <4> QED
        BY <4>1, <4>2
    <3>5. ASSUME NEW i \in DOMAIN unused'
          PROVE  unused'[i] \in known' /\ \A u \in Threads : tls'[u] # unused'[i]
      <4>1. unused'[i] = unused[i + 1] /\ i + 1 \in DOMAIN unused /\ 1 \in DOMAIN unused /\ i + 1 # 1
        BY <3>2, <3>3
      <4>2. unused[i + 1] # b /\ unused[i + 1] \in known /\ \A u \in Threads : tls[u] # unused[i + 1]
        BY <1>0, <2>1, <4>1, Zenon DEF ListsInv
      <4> QED
        BY <2>1, <3>1, <4>1, <4>2, Zenon
    <3>6. ASSUME NEW c \in known
          PROVE  (\E u \in Threads : tls'[u] = c) \/ (\E i \in DOMAIN unused' : unused'[i] = c)
      <4>1. CASE c = b
        BY <3>1, <4>1, Zenon
      <4>2. ASSUME NEW u \in Threads, tls[u] = c PROVE \E v \in Threads : tls'[v] = c
        <5>1. known \subseteq Bufs
          BY <1>0, Zenon DEF TypeOK
        <5> QED
          BY <1>0, <2>0, <3>1, <4>2, <5>1, Zenon
      <4>3. ASSUME c # b, NEW i \in DOMAIN unused, unused[i] = c PROVE \E j \in DOMAIN unused' : unused'[j] = c
        <5>1. i # 1 /\ i - 1 \in DOMAIN unused' /\ (i - 1) + 1 = i
          BY <2>1, <3>2, <4>3
        <5> QED
          BY <3>2, <4>3, <5>1, Zenon
      <4> QED
        BY <1>0, <4>1, <4>2, <4>3, Zenon DEF ListsInv
    <3>7. \A u, v \in Threads : tls'[u] = tls'[v] /\ tls'[u] # NULL => u = v
      BY <1>0, <2>1, <3>1 DEF ListsInv
    <3> QED
      BY <2>1, <3>4, <3>5, <3>6, <3>7, Zenon DEF ListsInv
  <2>2. ASSUME NEW b \in Bufs, Adopt(t, b), \A u \in Threads : tls[u] # b,
               b \notin known, unused' = unused, known' = known \cup {b}
        PROVE  ListsInv'
    <3>1. /\ tls'[t] = b
          /\ \A v \in Threads \ {t} : tls'[v] = tls[v]
      BY <1>0, <2>2, Zenon DEF Adopt, TypeOK
    <3>2. \A i \in DOMAIN unused : unused[i] # b
      BY <1>0, <2>2, Zenon DEF ListsInv
    <3>3. ASSUME NEW c \in known'
          PROVE  (\E u \in Threads : tls'[u] = c) \/ (\E i \in DOMAIN unused' : unused'[i] = c)
      <4>1. CASE c = b
        BY <3>1, <4>1, Zenon
      <4>2. CASE c # b
        <5>1. c \in known /\ c # NULL
          BY <1>0, <2>2, <4>2, Zenon DEF TypeOK
        <5> QED
          BY <1>0, <2>0, <2>2, <3>1, <5>1 DEF ListsInv
      <4> QED
        BY <4>1, <4>2, Zenon
    <3>4. \A u, v \in Threads : tls'[u] = tls'[v] /\ tls'[u] # NULL => u = v
      BY <1>0, <2>2, <3>1 DEF ListsInv
    <3>5. \A i \in DOMAIN unused' : unused'[i] \in known' /\ \A u \in Threads : tls'[u] # unused'[i]
      BY <1>0, <2>2, <3>1, <3>2 DEF ListsInv
    <3> QED
      BY <1>0, <2>2, <3>3, <3>4, <3>5, Zenon DEF ListsInv
  <2> QED
    BY <1>1, <1>2, <2>1, <2>2, Adopting, Zenon
<1>3. ASSUME NEW t \in Threads, membuf_key_destructor(t) PROVE ListsInv'
  <2> DEFINE b == tls[t]
  <2>1. /\ b # NULL /\ b \in Bufs /\ unused' = <<b>> \o unused /\ UNCHANGED known
        /\ tls'[t] = NULL /\ \A v \in Threads \ {t} : tls'[v] = tls[v]
    BY <1>0, <1>3, Zenon DEF membuf_key_destructor, TypeOK
  <2>2. b \in known
    BY <2>1, Zenon DEF MembufInv, ThreadInv
  <2>3. PICK c \in Bufs : c = tls[t]
    BY <2>1, Zenon
  <2> HIDE DEF b
  <2>4. /\ DOMAIN unused' = 1..Len(unused)+1 /\ DOMAIN unused = 1..Len(unused) /\ Len(unused) \in Nat
        /\ unused'[1] = c
        /\ \A i \in 2..Len(unused)+1 : unused'[i] = unused[i - 1]
    BY <1>0, <2>1, <2>3 DEF b
  <2>5. \A i \in DOMAIN unused' : i = 1 \/ (i - 1 \in DOMAIN unused /\ unused'[i] = unused[i - 1] /\ i \in Int)
    BY <2>4
  <2>6. \A i \in DOMAIN unused : unused[i] # c
    BY <1>0, <2>3, Zenon DEF ListsInv
  <2>7. \A i, j \in DOMAIN unused' : unused'[i] = unused'[j] => i = j
    <3> SUFFICES ASSUME NEW i \in DOMAIN unused', NEW j \in DOMAIN unused', unused'[i] = unused'[j]
                 PROVE  i = j
      BY Zenon
    <3>1. CASE i = 1 \/ j = 1
      BY <2>4, <2>5, <2>6, <3>1, Zenon
    <3>2. CASE i # 1 /\ j # 1
      <4>1. i - 1 = j - 1 /\ i \in Int /\ j \in Int
        BY <1>0, <2>5, <3>2 DEF ListsInv
      <4> QED
        BY <4>1
    <3> QED
      BY <3>1, <3>2, Zenon
  <2>8. ASSUME NEW i \in DOMAIN unused'
        PROVE  unused'[i] \in known' /\ \A u \in Threads : tls'[u] # unused'[i]
    <3>1. CASE i = 1
      <4>1. unused'[i] = c /\ c # NULL /\ c \in known /\ \A u \in Threads \ {t} : tls[u] # c
        BY <1>0, <2>1, <2>2, <2>3, <2>4, <3>1 DEF ListsInv, b
      <4> QED
        BY <2>1, <4>1, Zenon
    <3>2. CASE i # 1
      <4>1. unused'[i] = unused[i - 1] /\ i - 1 \in DOMAIN unused
        BY <2>5, <3>2, Zenon
      <4>2. unused[i - 1] \in known /\ unused[i - 1] # NULL /\ \A u \in Threads : tls[u] # unused[i - 1]
        BY <1>0, <4>1 DEF ListsInv, TypeOK
      <4> QED
        BY <2>1, <4>1, <4>2, Zenon
    <3> QED
      BY <3>1, <3>2, Zenon
  <2>9. ASSUME NEW d \in known
        PROVE  (\E u \in Threads : tls'[u] = d) \/ (\E i \in DOMAIN unused' : unused'[i] = d)
    <3>1. CASE d = c
      BY <2>4, <3>1
    <3>2. ASSUME d # c, NEW u \in Threads, tls[u] = d PROVE \E v \in Threads : tls'[v] = d
      BY <2>1, <2>3, <3>2, Zenon
    <3>3. ASSUME NEW i \in DOMAIN unused, unused[i] = d PROVE \E j \in DOMAIN unused' : unused'[j] = d
      <4>1. i + 1 \in 2..Len(unused)+1 /\ i + 1 \in DOMAIN unused' /\ (i + 1) - 1 = i
        BY <2>4, <3>3
      <4> QED
        BY <2>4, <3>3, <4>1, Zenon
    <3> QED
      BY <1>0, <3>1, <3>2, <3>3, Zenon DEF ListsInv
  <2>10. \A u, v \in Threads : tls'[u] = tls'[v] /\ tls'[u] # NULL => u = v
    BY <1>0, <2>1 DEF ListsInv
  <2> QED
    BY <2>1, <2>7, <2>8, <2>9, <2>10, Zenon DEF ListsInv
<1>4. CASE membuf_delete
  <2>1. known' = {} /\ unused' = <<>> /\ \A u \in Threads : tls'[u] = NULL
    BY <1>4, Zenon DEF membuf_delete
  <2>2. DOMAIN unused' = {}
    BY <2>1
  <2> QED
    BY <2>1, <2>2, Zenon DEF ListsInv
<1>5. ASSUME NEW t \in Threads,
             \/ membuf_alloc(t) \/ prune_leftovers(t) \/ prune_free(t) \/ prune_stops(t) \/ prune_whole(t)
             \/ alloc_wrap(t) \/ alloc_short(t) \/ alloc_place(t) \/ alloc_fail(t)
      PROVE  ListsInv'
  <2>1. UNCHANGED <<known, unused, tls>>
    BY <1>5, Zenon DEF membuf_alloc, prune_leftovers, prune_free, prune_stops, prune_whole, alloc_wrap,
                alloc_short, alloc_place, alloc_fail, Place, Returns, lists
  <2> QED
    BY <1>1, <2>1, Zenon
<1>6. ASSUME NEW b \in Bufs, NEW p \in Places, membuf_free(b, p) PROVE ListsInv'
  BY <1>1, <1>6, Zenon DEF membuf_free, lists
<1>7. CASE UNCHANGED vars
  BY <1>1, <1>7, Zenon DEF vars, lists
<1> QED
  BY <1>2, <1>3, <1>4, <1>5, <1>6, <1>7, Zenon DEF Next, AllocStep, Terminated

-----------------------------------------------------------------------------
\* The numbers of a buffer.
LEMMA Numbers ==
  ASSUME TypeOK, NEW b \in Bufs
  PROVE  /\ offset[b] \in Int /\ 0 <= offset[b] /\ offset[b] <= Size
         /\ available[b] \in Int /\ 0 <= available[b] /\ available[b] <= Size
         /\ leftovers[b] \in Int /\ 0 <= leftovers[b] /\ leftovers[b] <= Size
         /\ Size \in Int /\ EntrySize \in Int /\ 1 <= EntrySize /\ EntrySize <= Size
         /\ \A p \in Places : p \in Int /\ 0 <= p /\ p < Size /\ holders[b][p] \in Nat
BY MembufAssumption DEF TypeOK, Places

\* A step that does not touch a buffer, nor end the prune that is about to add
\* what was left over in it.
LEMMA BufKept ==
  ASSUME MembufInv, NEW b \in Bufs,
         offset'[b] = offset[b], available'[b] = available[b], leftovers'[b] = leftovers[b],
         folded'[b] = folded[b], allocated'[b] = allocated[b], holders'[b] = holders[b],
         b \in known' <=> b \in known,
         AtLeftovers(b) => \A u \in Threads : pc[u] \in {"reuse", "prune"} /\ tbuf[u] = b
                                                => pc'[u] \in {"reuse", "prune"} /\ tbuf'[u] = b
  PROVE  BufInv(b)'
<1>1. BufInv(b)
  BY Zenon DEF MembufInv
<1>2. AtLeftovers(b)' <=> AtLeftovers(b)
  BY Zenon DEF AtLeftovers, Remaining
<1>3. Open(b)' <=> Open(b)
  BY Zenon DEF Open, End
<1>4. Wrapped(b) => Wrapped(b)'
  BY <1>2, Zenon DEF Wrapped, End
<1> QED
  BY <1>1, <1>3, <1>4, Zenon DEF BufInv

\* prune reclaims the next entry: it does not step over the end of the buffer
\* or over offset.
LEMMA PruneFreeStep ==
  ASSUME MembufInv, NEW t \in Threads, prune_free(t), NEW b \in Bufs, b = tbuf[t]
  PROVE  available[b] + EntrySize <= Size /\ BufInv(b)'
<1>0. /\ TypeOK /\ BufInv(b) /\ b \in known
      /\ pc[t] \in {"reuse", "prune"} /\ available[b] # Size /\ ~AtLeftovers(b)
      /\ allocated[b][NextLoc(b)] = "free"
  BY Owner, Zenon DEF MembufInv, prune_free, Pruning, Owning
<1>1. /\ available'[b] = available[b] + EntrySize
      /\ UNCHANGED <<offset, leftovers, folded, allocated, holders, known, pc, tbuf>>
  BY <1>0, Zenon DEF prune_free, lists, entries, TypeOK
<1> DEFINE a == offset[b]
           v == available[b]
           L == leftovers[b]
           E == EntrySize
<1>2. /\ a \in Int /\ 0 <= a /\ a <= Size /\ v \in Int /\ 0 <= v /\ v < Size
      /\ L \in Int /\ 0 <= L /\ L <= Size
      /\ Size \in Int /\ E \in Int /\ 1 <= E /\ E <= Size
      /\ \A p \in Places : p \in Int /\ 0 <= p /\ p < Size /\ holders[b][p] \in Nat
  BY <1>0, Numbers
<1>3. Aligned(a) /\ Aligned(0) /\ Aligned(E)
  BY <1>0, AlignedBase, Zenon DEF BufInv
<1>4. \A p \in Places : holders[b][p] > 0 => Aligned(p) /\ p + E <= Size
  BY <1>0, Zenon DEF BufInv
<1>5. ~folded[b] => \A p \in Places : allocated[b][p] = "free" => ~(holders[b][p] > 0)
  BY <1>0, <1>2 DEF BufInv
<1>6. CASE Open(b)
  <2>1. PICK g \in Int : g = a + v - Size
    BY <1>2
  <2>2. Aligned(g) /\ L = 0
    BY <1>2, <1>6, <2>1 DEF Open, End
  <2>3. 0 <= g /\ g < a /\ g + E <= a /\ Aligned(g + E)
    <3>1. g < a
      BY <1>2, <2>1
    <3> QED
      BY <1>2, <1>3, <2>2, <3>1, AlignedSum, Zenon
  <2>4. g \in Places /\ NextLoc(b) = g
    <3>1. (g + Size) % Size = g
      BY <1>2, <2>3
    <3> QED
      BY <1>2, <2>1, <2>3, <3>1 DEF Places, NextLoc
  <2>5. Open(b)'
    <3>1. a + (v + E) - Size = g + E
      BY <1>2, <2>1
    <3>2. ASSUME ~folded[b], NEW p \in Places, holders[b][p] > 0 PROVE g + E <= p /\ p < a
      <4>1. g <= p /\ p < a
        BY <1>2, <1>6, <2>1, <3>2 DEF Open, End
      <4>2. p # g
        BY <1>0, <1>5, <2>4, <3>2, Zenon
      <4>3. p \in Int /\ g < p
        BY <1>2, <4>1, <4>2
      <4> QED
        BY <1>4, <2>2, <3>2, <4>1, <4>3, AlignedSum, Zenon
    <3> QED
      BY <1>1, <1>2, <1>6, <2>1, <2>2, <2>3, <3>1, <3>2 DEF Open, End
  <2>6. v + E <= Size
    BY <1>2, <2>1, <2>3
  <2> QED
    BY <1>0, <1>1, <2>5, <2>6, Zenon DEF BufInv
<1>7. CASE Wrapped(b) /\ a + v < Size
  <2>1. PICK e \in Int : e = a + v
    BY <1>2
  <2>2. PICK m \in Int : m = Size - L
    BY <1>2
  <2>3. Aligned(e) /\ Aligned(m) /\ e <= m
    BY <1>7, <2>1, <2>2, Zenon DEF Wrapped, End
  <2>4. e < m
    <3>1. L = 0 \/ Size - (a + v) # L
      BY <1>0, Zenon DEF AtLeftovers, Remaining
    <3> QED
      BY <1>2, <1>7, <2>1, <2>2, <2>3, <3>1
  <2>5. e + E <= m /\ Aligned(e + E)
    BY <1>2, <1>3, <2>3, <2>4, AlignedSum, Zenon
  <2>6. e \in Places /\ NextLoc(b) = e
    BY <1>2, <1>7, <2>1 DEF Places, NextLoc
  <2>7. Wrapped(b)'
    <3>1. a + (v + E) = e + E
      BY <1>2, <2>1
    <3>2. ASSUME ~folded[b], NEW p \in Places, holders[b][p] > 0 PROVE p < a \/ e + E <= p
      <4>1. p < a \/ e <= p
        BY <1>7, <2>1, <3>2, Zenon DEF Wrapped, End
      <4>2. p # e
        BY <1>0, <1>5, <2>6, <3>2, Zenon
      <4>3. p \in Int /\ (p < a \/ e < p)
        BY <1>2, <4>1, <4>2
      <4> QED
        BY <1>4, <2>3, <3>2, <4>3, AlignedSum, Zenon
    <3>3. \E u \in Threads : pc'[u] \in {"reuse", "prune"} /\ tbuf'[u] = b
      BY <1>0, <1>1, Zenon
    <3> QED
      BY <1>1, <1>7, <2>2, <2>3, <2>5, <3>1, <3>2, <3>3, Zenon DEF Wrapped, End
  <2>8. v + E <= Size
    BY <1>2, <2>1, <2>2, <2>5
  <2> QED
    BY <1>0, <1>1, <2>7, <2>8, Zenon DEF BufInv
<1>8. CASE Wrapped(b) /\ a + v >= Size
  <2>1. L = 0 /\ a + v = Size
    BY <1>2, <1>8 DEF Wrapped, End
  <2>2. 0 < a /\ E <= a
    <3>1. 0 < a /\ 0 \in Int
      BY <1>2, <2>1
    <3>2. 0 + E <= a
      BY <1>2, <1>3, <3>1, AlignedSum, Zenon
    <3> QED
      BY <1>2, <3>1, <3>2
  <2>3. 0 \in Places /\ NextLoc(b) = 0
    <3>1. Size % Size = 0
      BY <1>2
    <3> QED
      BY <1>2, <2>1, <3>1 DEF Places, NextLoc
  <2>4. Open(b)'
    <3>1. a + (v + E) - Size = E
      BY <1>2, <2>1
    <3>2. ASSUME NEW p \in Places, Aligned(p), p < a PROVE allocated[b][p] # "junk"
      <4>1. p \in Int /\ p + E <= a
        BY <1>2, <1>3, <3>2, AlignedSum, Zenon
      <4>2. p + E <= Size
        BY <1>2, <4>1
      <4> QED
        BY <1>8, <3>2, <4>2, Zenon DEF Wrapped
    <3>3. ASSUME ~folded[b], NEW p \in Places, holders[b][p] > 0 PROVE E <= p /\ p < a
      <4>1. p < a
        BY <1>2, <1>8, <2>1, <3>3 DEF Wrapped, End
      <4>2. p # 0
        BY <1>0, <1>5, <2>3, <3>3, Zenon
      <4>3. 0 < p /\ Aligned(p)
        BY <1>2, <1>4, <3>3, <4>2
      <4>4. 0 + E <= p
        BY <1>2, <1>3, <4>3, AlignedSum
      <4> QED
        BY <1>2, <4>1, <4>4
    <3> QED
      BY <1>1, <1>2, <1>3, <2>1, <3>1, <3>2, <3>3 DEF Open, End
  <2>5. v + E <= Size
    BY <1>2, <2>1, <2>2
  <2> QED
    BY <1>0, <1>1, <2>4, <2>5, Zenon DEF BufInv
<1> QED
  BY <1>0, <1>2, <1>6, <1>7, <1>8 DEF BufInv

\* prune adds what the last wraparound left over: the space then reaches the
\* end of the buffer.
LEMMA PruneLeftStep ==
  ASSUME MembufInv, NEW t \in Threads, prune_leftovers(t), NEW b \in Bufs, b = tbuf[t]
  PROVE  available[b] + leftovers[b] <= Size /\ BufInv(b)'
<1>0. /\ TypeOK /\ BufInv(b) /\ b \in known /\ AtLeftovers(b)
  BY Owner, Zenon DEF MembufInv, prune_leftovers, Pruning, Owning
<1>1. /\ available'[b] = available[b] + leftovers[b] /\ leftovers'[b] = 0
      /\ UNCHANGED <<offset, folded, allocated, holders, known>>
  BY <1>0, Zenon DEF prune_leftovers, lists, entries, TypeOK
<1> DEFINE a == offset[b]
           v == available[b]
           L == leftovers[b]
           E == EntrySize
<1>2. /\ a \in Int /\ 0 <= a /\ a <= Size /\ v \in Int /\ 0 <= v /\ v <= Size
      /\ L \in Int /\ 0 <= L /\ L <= Size
      /\ Size \in Int /\ E \in Int /\ 1 <= E /\ E <= Size
      /\ \A p \in Places : p \in Int /\ 0 <= p /\ p < Size /\ holders[b][p] \in Nat
  BY <1>0, Numbers, Zenon
<1>3. Aligned(a) /\ Aligned(0) /\ Wrapped(b)
  BY <1>0, AlignedBase, Zenon DEF BufInv, Open, AtLeftovers
<1>4. a + v = Size - L
  BY <1>0, <1>2 DEF AtLeftovers, Remaining
<1>5. a + (v + L) - Size = 0
  BY <1>2, <1>4
<1>6. ASSUME NEW p \in Places, Aligned(p), p < a PROVE allocated[b][p] # "junk"
  <2>1. p \in Int /\ p + E <= a
    BY <1>2, <1>3, <1>6, AlignedSum, Zenon
  <2>2. p + E <= Size
    BY <1>2, <2>1
  <2> QED
    BY <1>3, <1>6, <2>2, Zenon DEF Wrapped
<1>7. ASSUME ~folded[b], NEW p \in Places, holders[b][p] > 0 PROVE 0 <= p /\ p < a
  <2>1. p + E <= Size
    BY <1>0, <1>7, Zenon DEF BufInv
  <2>2. L < E /\ (p < a \/ a + v <= p)
    BY <1>3, <1>7, Zenon DEF Wrapped, End
  <2> QED
    BY <1>2, <1>4, <2>1, <2>2
<1>8. Open(b)'
  BY <1>1, <1>2, <1>3, <1>5, <1>6, <1>7 DEF Open, End
<1>9. v + L <= Size
  BY <1>2, <1>4
<1> QED
  BY <1>0, <1>1, <1>8, <1>9, Zenon DEF BufInv

\* A wraparound: the space in front of it had reached the end of the buffer.
LEMMA WrapStep ==
  ASSUME MembufInv, NEW t \in Threads, alloc_wrap(t), NEW b \in Bufs, b = tbuf[t]
  PROVE  BufInv(b)'
<1>0. /\ TypeOK /\ BufInv(b) /\ b \in known /\ pc[t] = "fit" /\ Wraps(b)
      /\ \A u \in Threads \ {t} : pc[u] \in {"reuse", "prune"} => tbuf[u] # b
  BY Owner, Zenon DEF MembufInv, alloc_wrap, Owning
<1>1. /\ available'[b] = 0 /\ offset'[b] = 0 /\ leftovers'[b] = available[b]
      /\ folded'[b] = (folded[b] \/ available[b] > Size - offset[b])
      /\ UNCHANGED <<allocated, holders, known, tbuf>>
      /\ pc'[t] = "prune"
  BY <1>0, Zenon DEF alloc_wrap, lists, entries, TypeOK, Goto
<1> DEFINE a == offset[b]
           v == available[b]
           L == leftovers[b]
           E == EntrySize
<1>2. /\ a \in Int /\ 0 <= a /\ a <= Size /\ v \in Int /\ 0 <= v /\ v <= Size
      /\ L \in Int /\ 0 <= L /\ L <= Size
      /\ Size \in Int /\ E \in Int /\ 1 <= E /\ E <= Size
      /\ \A p \in Places : p \in Int /\ 0 <= p /\ p < Size /\ holders[b][p] \in Nat
  BY <1>0, Numbers, Zenon
<1>3. Aligned(a) /\ Aligned(0) /\ a + E > Size
  BY <1>0, AlignedBase, Zenon DEF BufInv, Wraps
<1>4. PICK g \in Int : g = a + v - Size
  BY <1>2
<1>5. Aligned(g) /\ \A p \in Places : Aligned(p) /\ p + E <= Size => allocated[b][p] # "junk"
  <2>1. CASE Open(b)
    BY <1>2, <1>3, <1>4, <2>1 DEF Open, End
  <2>2. CASE Wrapped(b)
    <3>1. ~AtLeftovers(b)
      BY <1>0, <2>2, Zenon DEF Wrapped
    <3>2. PICK e \in Int : e = a + v
      BY <1>2
    <3>3. PICK m \in Int : m = Size - L
      BY <1>2
    <3>4. Aligned(e) /\ Aligned(m) /\ e <= m
      BY <1>2, <2>2, <3>2, <3>3, Zenon DEF Wrapped, End
    <3>5. a <= e /\ m <= Size
      BY <1>2, <3>2, <3>3
    <3>6. ~(e < m)
      <4>1. e < m => e + E <= m
        BY <3>4, AlignedSum, Zenon
      <4> QED
        BY <1>2, <1>3, <3>5, <4>1
    <3>7. L = 0 /\ a + v = Size
      BY <1>2, <3>1, <3>2, <3>3, <3>4, <3>6 DEF AtLeftovers, Remaining
    <3>8. g = 0
      BY <1>2, <1>4, <3>7
    <3> QED
      BY <1>3, <2>2, <3>8, Zenon DEF Wrapped
  <2> QED
    BY <1>0, <2>1, <2>2, Zenon DEF BufInv
<1>6. Aligned(Size - v) /\ 0 <= Size - v
  <2>1. g <= a /\ a - g = Size - v
    BY <1>2, <1>4
  <2>2. Aligned(a - g)
    BY <1>2, <1>3, <1>5, <2>1, AlignedSum, Zenon
  <2> QED
    BY <1>2, <2>1, <2>2
<1>7. ASSUME ~folded'[b] PROVE v < E /\ ~folded[b]
  <2>1. ~folded[b] /\ ~(v > Size - a)
    BY <1>1, <1>7, Zenon
  <2> QED
    BY <1>2, <1>3, <2>1
<1>8. Wrapped(b)'
  <2>1. \A p \in Places : 0 + 0 <= p
    BY <1>2
  <2>2. \E u \in Threads : pc'[u] \in {"reuse", "prune"} /\ tbuf'[u] = b
    BY <1>1, Zenon
  <2>3. Aligned(0 + 0) /\ 0 + 0 <= Size - v
    BY <1>2, <1>3, <1>6
  <2> QED
    BY <1>1, <1>5, <1>6, <1>7, <2>1, <2>2, <2>3, Zenon DEF Wrapped, End
<1> QED
  BY <1>0, <1>1, <1>3, <1>7, <1>8, Zenon DEF BufInv

\* An entry is placed at offset, over no entry that is in use.
LEMMA PlaceStep ==
  ASSUME MembufInv, NEW t \in Threads, alloc_place(t), NEW b \in Bufs, b = tbuf[t]
  PROVE  offset[b] \in Places /\ offset[b] + EntrySize <= Size /\ BufInv(b)'
<1>0. /\ TypeOK /\ BufInv(b) /\ b \in known /\ EntrySize <= available[b]
      /\ pc[t] \in {"fit", "pruned"} /\ ~Wraps(b)
      /\ \A u \in Threads \ {t} : pc[u] \in {"reuse", "prune"} => tbuf[u] # b
  BY Owner, Zenon DEF MembufInv, alloc_place, Owning, ThreadInv
<1> DEFINE a == offset[b]
           v == available[b]
           L == leftovers[b]
           E == EntrySize
<1>2. /\ a \in Int /\ 0 <= a /\ a <= Size /\ v \in Int /\ 0 <= v /\ v <= Size
      /\ L \in Int /\ 0 <= L /\ L <= Size
      /\ Size \in Int /\ E \in Int /\ 1 <= E /\ E <= Size
      /\ \A p \in Places : p \in Int /\ 0 <= p /\ p < Size /\ holders[b][p] \in Nat
  BY <1>0, Numbers, Zenon
<1>3. Aligned(a) /\ Aligned(a + E) /\ a + E <= Size /\ a \in Places
  <2>1. Aligned(a) /\ Aligned(E)
    BY <1>0, AlignedBase, Zenon DEF BufInv
  <2>2. Aligned(a + E)
    BY <1>2, <2>1, AlignedSum, Zenon
  <2>3. a + E <= Size
    BY <1>0, <1>2 DEF Wraps
  <2> QED
    BY <1>2, <2>1, <2>2, <2>3 DEF Places
<1>1. /\ available'[b] = v - E /\ offset'[b] = a + E /\ leftovers'[b] = L
      /\ folded'[b] = folded[b] /\ known' = known
  BY <1>0, Zenon DEF alloc_place, Place, Returns, lists, TypeOK
<1>4. /\ allocated'[b][a] = "live"
      /\ \A p \in Places : /\ p \notin a..(a + E - 1) => allocated'[b][p] = allocated[b][p]
                           /\ allocated'[b][p] # "free" \/ allocated'[b][p] = allocated[b][p]
  <2>1. allocated' = [allocated EXCEPT ![b] = [p \in Places |->
          IF p = a THEN "live" ELSE IF p \in a..(a + E - 1) THEN "junk" ELSE @[p]]]
    BY <1>0, Zenon DEF alloc_place, Place
  <2>2. allocated'[b] = [p \in Places |->
          IF p = a THEN "live" ELSE IF p \in a..(a + E - 1) THEN "junk" ELSE allocated[b][p]]
    BY <1>0, <2>1, Zenon DEF TypeOK
  <2>3. a \in a..(a + E - 1)
    BY <1>2
  <2> QED
    BY <1>3, <2>2, <2>3, Zenon
<1>5. /\ holders'[b][a] = holders[b][a] + 1
      /\ \A p \in Places \ {a} : holders'[b][p] = holders[b][p]
  BY <1>0, <1>3, Zenon DEF alloc_place, Place, TypeOK
<1>6. ASSUME NEW p \in Places, Aligned(p), p # a PROVE p < a \/ a + E <= p
  <2>1. p \in Int
    BY <1>2, Zenon
  <2>2. a < p => a + E <= p
    BY <1>2, <1>3, <1>6, <2>1, AlignedSum, Zenon
  <2> QED
    BY <1>2, <1>6, <2>1, <2>2
<1>7. ASSUME NEW p \in Places, Aligned(p), allocated[b][p] # "junk" \/ p = a PROVE allocated'[b][p] # "junk"
  <2>1. CASE p = a
    BY <1>4, <2>1, Zenon
  <2>2. CASE p # a
    BY <1>2, <1>4, <1>6, <1>7, <2>2
  <2> QED
    BY <2>1, <2>2, Zenon
<1>8. ASSUME ~folded[b] PROVE holders[b][a] = 0
  <2>1. CASE Open(b)
    BY <1>2, <1>3, <1>8, <2>1 DEF Open
  <2>2. CASE Wrapped(b)
    <3>1. holders[b][a] > 0 => a < a \/ a + v <= a
      BY <1>3, <1>8, <2>2, Zenon DEF Wrapped, End
    <3>2. holders[b][a] \in Nat /\ E <= v
      BY <1>0, <1>2, <1>3, Zenon
    <3> QED
      BY <1>2, <3>1, <3>2
  <2> QED
    BY <1>0, <2>1, <2>2, Zenon DEF BufInv
<1>9. \A p \in Places : holders'[b][p] > 0 => Aligned(p) /\ p + E <= Size
  <2> SUFFICES ASSUME NEW p \in Places, holders'[b][p] > 0 PROVE Aligned(p) /\ p + E <= Size
    BY Zenon
  <2>1. CASE p = a
    BY <1>3, <2>1, Zenon
  <2>2. CASE p # a
    BY <1>0, <1>5, <2>2, Zenon DEF BufInv
  <2> QED
    BY <2>1, <2>2, Zenon
<1>10. ~folded[b] => \A p \in Places : /\ holders'[b][p] <= 1
                                       /\ allocated'[b][p] = "free" => holders'[b][p] = 0
  <2> SUFFICES ASSUME ~folded[b], NEW p \in Places
               PROVE  holders'[b][p] <= 1 /\ (allocated'[b][p] = "free" => holders'[b][p] = 0)
    BY Zenon
  <2>1. CASE p = a
    BY <1>4, <1>5, <1>8, <2>1
  <2>2. CASE p # a
    BY <1>0, <1>4, <1>5, <2>2, ZenonT(30) DEF BufInv
  <2> QED
    BY <2>1, <2>2, Zenon
<1>11. (a + E) + (v - E) = a + v
  BY <1>2
<1>12. ASSUME Open(b) PROVE Open(b)'
  <2>1. ASSUME NEW p \in Places, Aligned(p), p < a + E PROVE allocated'[b][p] # "junk"
    <3>1. p < a \/ p = a
      BY <1>2, <1>6, <2>1
    <3> QED
      BY <1>7, <1>12, <2>1, <3>1, Zenon DEF Open
  <2>2. ASSUME ~folded[b], NEW p \in Places, holders'[b][p] > 0 PROVE a + v - Size <= p /\ p < a + E
    <3>1. CASE p = a
      BY <1>2, <3>1
    <3>2. CASE p # a
      BY <1>2, <1>5, <1>12, <2>2, <3>2 DEF Open, End
    <3> QED
      BY <3>1, <3>2, Zenon
  <2> QED
    BY <1>1, <1>2, <1>11, <1>12, <2>1, <2>2 DEF Open, End
<1>13. ASSUME Wrapped(b) PROVE Wrapped(b)'
  <2>1. ~AtLeftovers(b)
    BY <1>0, <1>13, Zenon DEF Wrapped
  <2>2. ~AtLeftovers(b)'
    BY <1>1, <1>11, <2>1, Zenon DEF AtLeftovers, Remaining
  <2>3. ASSUME NEW p \in Places, Aligned(p), p + E <= Size PROVE allocated'[b][p] # "junk"
    BY <1>7, <1>13, <2>3, Zenon DEF Wrapped
  <2>4. ASSUME ~folded[b], NEW p \in Places, holders'[b][p] > 0 PROVE p < a + E \/ a + v <= p
    <3>1. CASE p = a
      BY <1>2, <3>1
    <3>2. CASE p # a
      <4>1. p < a \/ a + v <= p
        BY <1>5, <1>13, <2>4, <3>2, Zenon DEF Wrapped, End
      <4> QED
        BY <1>2, <4>1
    <3> QED
      BY <3>1, <3>2, Zenon
  <2> QED
    BY <1>1, <1>2, <1>11, <1>13, <2>2, <2>3, <2>4, Zenon DEF Wrapped, End
<1> QED
  BY <1>0, <1>1, <1>3, <1>9, <1>10, <1>12, <1>13, Zenon DEF BufInv

\* A buffer that is taken over holds no entry in use.
LEMMA AdoptStep ==
  ASSUME MembufInv, NEW t \in Threads, NEW b \in Bufs, Adopt(t, b), b \in known',
         (b \in known /\ available[b] = Size) \/ b \notin known
  PROVE  BufInv(b)'
<1>0. TypeOK /\ BufInv(b)
  BY Zenon DEF MembufInv
<1>1. /\ offset'[b] = 0 /\ leftovers'[b] = 0 /\ available'[b] = Size
      /\ UNCHANGED <<allocated, holders, folded>>
  BY <1>0, Zenon DEF Adopt, entries, TypeOK
<1>2. /\ offset[b] \in Int /\ 0 <= offset[b] /\ leftovers[b] \in Int /\ 0 <= leftovers[b]
      /\ Size \in Int /\ EntrySize \in Int /\ 1 <= EntrySize
      /\ \A p \in Places : p \in Int /\ 0 <= p /\ p < Size /\ holders[b][p] \in Nat
  BY <1>0, Numbers, Zenon
<1>3. ASSUME ~folded[b], NEW p \in Places, holders[b][p] > 0 PROVE FALSE
  <2>1. b \in known /\ available[b] = Size
    BY <1>0, <1>2, <1>3 DEF BufInv
  <2>2. CASE Open(b)
    BY <1>2, <1>3, <2>1, <2>2 DEF Open, End
  <2>3. CASE Wrapped(b)
    BY <1>2, <1>3, <2>1, <2>3 DEF Wrapped, End
  <2> QED
    BY <1>0, <2>1, <2>2, <2>3, Zenon DEF BufInv
<1>4. Aligned(0) /\ (0 + Size) - Size = 0
  BY <1>2, AlignedBase
<1>5. Open(b)'
  <2>1. \A p \in Places : ~(p < 0)
    BY <1>2
  <2> QED
    BY <1>1, <1>3, <1>4, <2>1, Zenon DEF Open, End
<1> QED
  BY <1>0, <1>1, <1>4, <1>5, Zenon DEF BufInv

\* membuf_free marks an entry that is in use.
LEMMA FreeStep ==
  ASSUME MembufInv, NEW b \in Bufs, NEW p \in Places, membuf_free(b, p)
  PROVE  BufInv(b)'
<1>0. TypeOK /\ BufInv(b) /\ holders[b][p] > 0
  BY Zenon DEF MembufInv, membuf_free
<1>1. /\ UNCHANGED <<offset, available, leftovers, folded, known, pc, tbuf>>
      /\ holders'[b][p] = holders[b][p] - 1 /\ allocated'[b][p] = "free"
      /\ \A q \in Places \ {p} : holders'[b][q] = holders[b][q] /\ allocated'[b][q] = allocated[b][q]
  BY <1>0, Zenon DEF membuf_free, lists, space, TypeOK
<1>2. \A q \in Places : holders[b][q] \in Nat
  BY <1>0, Numbers, Zenon
<1>3. \A q \in Places : /\ holders'[b][q] > 0 => holders[b][q] > 0
                        /\ allocated[b][q] # "junk" => allocated'[b][q] # "junk"
  BY <1>0, <1>1, <1>2, Zenon
<1>4. ~folded[b] => \A q \in Places : holders'[b][q] <= 1 /\ (allocated'[b][q] = "free" => holders'[b][q] = 0)
  <2> SUFFICES ASSUME ~folded[b], NEW q \in Places
               PROVE  holders'[b][q] <= 1 /\ (allocated'[b][q] = "free" => holders'[b][q] = 0)
    BY Zenon
  <2>1. holders[b][q] <= 1 /\ (allocated[b][q] = "free" => holders[b][q] = 0)
    BY <1>0, Zenon DEF BufInv
  <2>2. CASE q = p
    BY <1>0, <1>1, <1>2, <2>1, <2>2
  <2>3. CASE q # p
    BY <1>1, <2>1, <2>3, Zenon
  <2> QED
    BY <2>2, <2>3, Zenon
<1>5. Open(b) => Open(b)'
  BY <1>1, <1>3, Zenon DEF Open, End
<1>6. AtLeftovers(b)' <=> AtLeftovers(b)
  BY <1>1, Zenon DEF AtLeftovers, Remaining
<1>7. Wrapped(b) => Wrapped(b)'
  BY <1>1, <1>3, <1>6, Zenon DEF Wrapped, End
<1>8. b \in known
  BY <1>0, <1>2 DEF BufInv
<1> QED
  BY <1>0, <1>1, <1>3, <1>4, <1>5, <1>7, <1>8, Zenon DEF BufInv

\* Every step keeps every buffer as BufInv says.
LEMMA BufStep ==
  ASSUME MembufInv, [Next]_vars, NEW b \in Bufs
  PROVE  BufInv(b)'
<1>0. TypeOK /\ BufInv(b)
  BY Zenon DEF MembufInv
<1>1. ASSUME NEW t \in Threads, membuf_alloc(t) \/ membuf_key_destructor(t) PROVE BufInv(b)'
  <2>1. /\ UNCHANGED <<offset, available, leftovers, folded, allocated, holders, known>>
        /\ pc[t] = "out"
        /\ \A u \in Threads \ {t} : pc'[u] = pc[u] /\ tbuf'[u] = tbuf[u]
    BY <1>0, <1>1, Zenon DEF membuf_alloc, membuf_key_destructor, space, entries, Goto, TypeOK
  <2> QED
    BY <2>1, BufKept, Zenon
<1>2. ASSUME NEW t \in Threads, reuse_whole(t) \/ get_new(t) PROVE BufInv(b)'
  <2>1. ASSUME NEW c \in Bufs, Adopt(t, c),
               \/ pc[t] = "reuse" /\ tbuf[t] = c /\ available[c] = Size /\ known' = known /\ c \in known
               \/ pc[t] = "new" /\ c \notin known /\ known' = known \cup {c}
        PROVE  BufInv(b)'
    <3>1. CASE b = c
      BY <2>1, <3>1, AdoptStep, Zenon
    <3>2. CASE b # c
      <4>1. /\ offset'[b] = offset[b] /\ available'[b] = available[b] /\ leftovers'[b] = leftovers[b]
            /\ UNCHANGED <<folded, allocated, holders>> /\ (b \in known' <=> b \in known)
            /\ \A u \in Threads \ {t} : pc'[u] = pc[u] /\ tbuf'[u] = tbuf[u]
        BY <1>0, <2>1, <3>2, Zenon DEF Adopt, Goto, entries, TypeOK
      <4>2. ~(pc[t] \in {"reuse", "prune"} /\ tbuf[t] = b)
        BY <2>1, <3>2, Zenon
      <4> QED
        BY <4>1, <4>2, BufKept, Zenon
    <3> QED
      BY <3>1, <3>2, Zenon
  <2>2. CASE /\ pc[t] = "new" /\ lists_lock' = NULL
             /\ tbuf' = [tbuf EXCEPT ![t] = NULL]
             /\ Goto(t, "out")
             /\ UNCHANGED <<known, unused, tls, space, entries, deleted>>
    <3>1. /\ UNCHANGED <<offset, available, leftovers, folded, allocated, holders, known>>
          /\ \A u \in Threads \ {t} : pc'[u] = pc[u] /\ tbuf'[u] = tbuf[u]
      BY <1>0, <2>2, Zenon DEF space, entries, Goto, TypeOK
    <3> QED
      BY <2>2, <3>1, BufKept, Zenon
  <2> QED
    BY <1>2, <2>1, <2>2, Adopting, Zenon
<1>3. ASSUME NEW t \in Threads,
             prune_leftovers(t) \/ prune_free(t) \/ alloc_wrap(t) \/ alloc_place(t)
      PROVE  BufInv(b)'
  <2>1. pc[t] \in {"reuse"} \cup Owning
    BY <1>3, Zenon DEF prune_leftovers, prune_free, Pruning, alloc_wrap, alloc_place, Owning
  <2>2. tbuf[t] \in Bufs
    BY <2>1, Owner, Zenon
  <2>3. CASE b = tbuf[t]
    BY <1>3, <2>3, PruneFreeStep, PruneLeftStep, WrapStep, PlaceStep, Zenon
  <2>4. CASE b # tbuf[t]
    <3>1. /\ known' = known
          /\ \A u \in Threads \ {t} : pc'[u] = pc[u] /\ tbuf'[u] = tbuf[u]
      BY <1>0, <1>3, Zenon DEF prune_leftovers, prune_free, alloc_wrap, alloc_place, Place, Returns, lists, Goto, TypeOK
    <3>2. /\ offset'[b] = offset[b] /\ available'[b] = available[b] /\ leftovers'[b] = leftovers[b]
          /\ folded'[b] = folded[b] /\ allocated'[b] = allocated[b] /\ holders'[b] = holders[b]
      <4>1. CASE prune_leftovers(t) \/ prune_free(t)
        BY <1>0, <2>4, <4>1, Zenon DEF prune_leftovers, prune_free, entries, TypeOK
      <4>2. CASE alloc_wrap(t)
        BY <1>0, <2>4, <4>2, Zenon DEF alloc_wrap, entries, TypeOK
      <4>3. CASE alloc_place(t)
        BY <1>0, <2>4, <4>3, Zenon DEF alloc_place, Place, TypeOK
      <4> QED
        BY <1>3, <4>1, <4>2, <4>3, Zenon
    <3> QED
      BY <2>4, <3>1, <3>2, BufKept, Zenon
  <2> QED
    BY <2>3, <2>4, Zenon
<1>4. ASSUME NEW t \in Threads, prune_stops(t) \/ prune_whole(t) \/ alloc_short(t) \/ alloc_fail(t)
      PROVE  BufInv(b)'
  <2>1. /\ UNCHANGED <<offset, available, leftovers, folded, allocated, holders, known>>
        /\ \A u \in Threads \ {t} : pc'[u] = pc[u] /\ tbuf'[u] = tbuf[u]
    BY <1>0, <1>4, Zenon DEF prune_stops, prune_whole, alloc_short, alloc_fail, Returns, lists, space, entries, Goto, TypeOK
  <2>2. ASSUME AtLeftovers(b), pc[t] \in {"reuse", "prune"}, tbuf[t] = b PROVE FALSE
    <3>1. prune_whole(t)
      BY <1>4, <2>2, Zenon DEF prune_stops, alloc_short, alloc_fail
    <3>2. available[b] = Size /\ b \in known
      BY <2>2, <3>1, Owner, Zenon DEF prune_whole, Owning
    <3>3. /\ offset[b] \in Int /\ 0 <= offset[b] /\ leftovers[b] \in Int /\ 0 <= leftovers[b] /\ Size \in Int
      BY <1>0, Numbers, Zenon
    <3> QED
      BY <2>2, <3>2, <3>3 DEF AtLeftovers, Remaining
  <2> QED
    BY <2>1, <2>2, BufKept, Zenon
<1>5. ASSUME NEW c \in Bufs, NEW p \in Places, membuf_free(c, p) PROVE BufInv(b)'
  <2>1. CASE b = c
    BY <1>5, <2>1, FreeStep, Zenon
  <2>2. CASE b # c
    <3>1. /\ UNCHANGED <<offset, available, leftovers, folded, known, pc, tbuf>>
          /\ allocated'[b] = allocated[b] /\ holders'[b] = holders[b]
      BY <1>0, <1>5, <2>2, Zenon DEF membuf_free, lists, space, TypeOK
    <3> QED
      BY <3>1, BufKept, Zenon
  <2> QED
    BY <2>1, <2>2, Zenon
<1>6. CASE membuf_delete
  <2>1. known' = {} /\ \A p \in Places : holders'[b][p] = 0
    BY <1>6, Zenon DEF membuf_delete
  <2> QED
    BY <2>1 DEF BufInv
<1>7. CASE UNCHANGED vars
  <2>1. UNCHANGED <<offset, available, leftovers, folded, allocated, holders, known, pc, tbuf>>
    BY <1>7, Zenon DEF vars, lists, space, entries
  <2> QED
    BY <2>1, BufKept, Zenon
<1> QED
  BY <1>1, <1>2, <1>3, <1>4, <1>5, <1>6, <1>7, Zenon DEF Next, AllocStep, Terminated

Headers == {"junk", "free", "live"}
Labels == {"out", "reuse", "new", "fit", "prune", "pruned"}

\* Every step keeps the types; available and offset stay inside the buffer.
LEMMA MembufTypes ==
  ASSUME MembufInv, [Next]_vars
  PROVE  TypeOK'
<1>0. TypeOK /\ \A t \in Threads : ThreadInv(t)
  BY Zenon DEF MembufInv
<1>1. /\ known \subseteq Bufs /\ unused \in Seq(Bufs) /\ lists_lock \in Threads \cup {NULL}
      /\ tls \in [Threads -> Bufs \cup {NULL}]
      /\ offset \in [Bufs -> 0..Size] /\ available \in [Bufs -> 0..Size] /\ leftovers \in [Bufs -> 0..Size]
      /\ allocated \in [Bufs -> [Places -> Headers]] /\ holders \in [Bufs -> [Places -> 0..MaxHolders]]
      /\ pc \in [Threads -> Labels] /\ tbuf \in [Threads -> Bufs \cup {NULL}]
      /\ folded \in [Bufs -> BOOLEAN] /\ deleted \in BOOLEAN
  BY <1>0, Zenon DEF TypeOK, Headers, Labels
<1>2. 0 \in 0..Size /\ Size \in 0..Size /\ 0 \in 0..MaxHolders
  BY MembufAssumption
<1>3. ASSUME NEW t \in Threads, membuf_alloc(t) PROVE TypeOK'
  <2>1. unused # <<>> => Head(unused) \in Bufs
    BY <1>1
  <2>2. /\ UNCHANGED <<known, unused, tls, offset, available, leftovers, folded, allocated, holders, deleted>>
        /\ lists_lock' \in Threads \cup {NULL}
        /\ tbuf' \in [Threads -> Bufs \cup {NULL}] /\ pc' \in [Threads -> Labels]
    <3>1. /\ \E x \in Bufs \cup {NULL} : tbuf' = [tbuf EXCEPT ![t] = x]
          /\ \E l \in Labels : pc' = [pc EXCEPT ![t] = l]
          /\ lists_lock' \in Threads \cup {NULL}
      BY <1>1, <1>3, <2>1, Zenon DEF membuf_alloc, Goto, Labels
    <3>2. UNCHANGED <<known, unused, tls, offset, available, leftovers, folded, allocated, holders, deleted>>
      BY <1>3, Zenon DEF membuf_alloc, space, entries
    <3>3. tbuf' \in [Threads -> Bufs \cup {NULL}]
      BY <1>1, <3>1, Zenon
    <3>4. pc' \in [Threads -> Labels]
      BY <1>1, <3>1, Zenon
    <3> QED
      BY <3>1, <3>2, <3>3, <3>4, Zenon
  <2> QED
    BY <1>1, <2>2, Zenon DEF TypeOK, Headers, Labels
<1>4. ASSUME NEW t \in Threads, reuse_whole(t) \/ get_new(t) PROVE TypeOK'
  <2>1. ASSUME NEW b \in Bufs, Adopt(t, b), known' \subseteq Bufs, unused' \in Seq(Bufs) PROVE TypeOK'
    <3>1. /\ offset' \in [Bufs -> 0..Size] /\ available' \in [Bufs -> 0..Size] /\ leftovers' \in [Bufs -> 0..Size]
          /\ tls' \in [Threads -> Bufs \cup {NULL}] /\ lists_lock' = NULL
          /\ tbuf' \in [Threads -> Bufs \cup {NULL}] /\ pc' \in [Threads -> Labels]
          /\ UNCHANGED <<allocated, holders, folded, deleted>>
      BY <1>1, <1>2, <2>1, Zenon DEF Adopt, Goto, entries, Labels
    <3> QED
      BY <1>1, <2>1, <3>1, Zenon DEF TypeOK, Headers, Labels
  <2>2. CASE /\ pc[t] = "new" /\ lists_lock' = NULL
             /\ tbuf' = [tbuf EXCEPT ![t] = NULL]
             /\ Goto(t, "out")
             /\ UNCHANGED <<known, unused, tls, space, entries, deleted>>
    <3>1. /\ UNCHANGED <<known, unused, tls, offset, available, leftovers, folded, allocated, holders, deleted>>
          /\ tbuf' \in [Threads -> Bufs \cup {NULL}] /\ pc' \in [Threads -> Labels]
      BY <1>1, <2>2, Zenon DEF space, entries, Goto, Labels
    <3> QED
      BY <1>1, <2>2, <3>1, Zenon DEF TypeOK, Headers, Labels
  <2>3. unused # <<>> => Tail(unused) \in Seq(Bufs)
    BY <1>1
  <2> QED
    BY <1>1, <1>4, <2>1, <2>2, <2>3, Adopting, Zenon
<1>5. ASSUME NEW t \in Threads, prune_leftovers(t) \/ prune_free(t) PROVE TypeOK'
  <2>1. pc[t] \in {"reuse"} \cup Owning
    BY <1>5, Zenon DEF prune_leftovers, prune_free, Pruning, Owning
  <2>2. PICK b \in Bufs : b = tbuf[t]
    BY <2>1, Owner, Zenon
  <2>3. UNCHANGED <<offset, folded, known, unused, lists_lock, tls, allocated, holders, pc, tbuf, deleted>>
    BY <1>5, Zenon DEF prune_leftovers, prune_free, lists, entries
  <2>4. available' \in [Bufs -> 0..Size] /\ leftovers' \in [Bufs -> 0..Size]
    <3>1. /\ available[b] \in Int /\ 0 <= available[b] /\ leftovers[b] \in Int /\ 0 <= leftovers[b]
          /\ EntrySize \in Int /\ 1 <= EntrySize /\ Size \in Int
      BY <1>0, Numbers, Zenon
    <3>2. CASE prune_leftovers(t)
      <4>1. available[b] + leftovers[b] \in 0..Size
        BY <2>2, <3>1, <3>2, PruneLeftStep
      <4> QED
        BY <1>1, <1>2, <2>2, <3>2, <4>1, Zenon DEF prune_leftovers
    <3>3. CASE prune_free(t)
      <4>1. available[b] + EntrySize \in 0..Size
        BY <2>2, <3>1, <3>3, PruneFreeStep
      <4> QED
        BY <1>1, <2>2, <3>3, <4>1, Zenon DEF prune_free
    <3> QED
      BY <1>5, <3>2, <3>3, Zenon
  <2> QED
    BY <1>1, <2>3, <2>4, Zenon DEF TypeOK, Headers, Labels
<1>6. ASSUME NEW t \in Threads, prune_stops(t) \/ prune_whole(t) \/ alloc_short(t) \/ alloc_fail(t) PROVE TypeOK'
  <2>1. /\ UNCHANGED <<known, unused, lists_lock, tls, offset, available, leftovers, folded, allocated, holders, deleted>>
        /\ tbuf' \in [Threads -> Bufs \cup {NULL}] /\ pc' \in [Threads -> Labels]
    BY <1>1, <1>6, Zenon DEF prune_stops, prune_whole, alloc_short, alloc_fail, Returns, lists, space, entries, Goto, Labels
  <2> QED
    BY <1>1, <2>1, Zenon DEF TypeOK, Headers, Labels
<1>7. ASSUME NEW t \in Threads, alloc_wrap(t) PROVE TypeOK'
  <2>1. PICK b \in Bufs : b = tbuf[t]
    BY <1>7, Owner, Zenon DEF alloc_wrap, Owning
  <2>2. /\ UNCHANGED <<known, unused, lists_lock, tls, allocated, holders, tbuf, deleted>>
        /\ offset' \in [Bufs -> 0..Size] /\ available' \in [Bufs -> 0..Size] /\ leftovers' \in [Bufs -> 0..Size]
        /\ pc' \in [Threads -> Labels]
    BY <1>1, <1>2, <1>7, <2>1, Zenon DEF alloc_wrap, lists, entries, Goto, Labels
  <2>3. folded' \in [Bufs -> BOOLEAN]
    <3>1. folded' = [folded EXCEPT ![b] = folded[b] \/ available[b] > Size - offset[b]]
      BY <1>7, <2>1, Zenon DEF alloc_wrap
    <3>2. (folded[b] \/ available[b] > Size - offset[b]) \in BOOLEAN
      BY Zenon
    <3> QED
      BY <1>1, <3>1, <3>2, Zenon
  <2> QED
    BY <1>1, <2>2, <2>3, Zenon DEF TypeOK, Headers, Labels
<1>8. ASSUME NEW t \in Threads, alloc_place(t) PROVE TypeOK'
  <2>1. PICK b \in Bufs : b = tbuf[t] /\ \A p \in Places : holders[b][p] < MaxHolders
    BY <1>8, Owner, Zenon DEF alloc_place, Owning
  <2>2. /\ UNCHANGED <<known, unused, lists_lock, tls, leftovers, folded, deleted>>
        /\ tbuf' \in [Threads -> Bufs \cup {NULL}] /\ pc' \in [Threads -> Labels]
    BY <1>1, <1>8, Zenon DEF alloc_place, Place, Returns, lists, Goto, Labels
  <2>3. offset[b] \in Places /\ offset[b] + EntrySize <= Size /\ EntrySize <= available[b]
    BY <1>8, <2>1, PlaceStep, Zenon DEF alloc_place
  <2>4. offset[b] + EntrySize \in 0..Size /\ available[b] - EntrySize \in 0..Size
    BY <1>0, <2>3, Numbers
  <2>5. offset' \in [Bufs -> 0..Size] /\ available' \in [Bufs -> 0..Size]
    BY <1>1, <1>8, <2>1, <2>4, Zenon DEF alloc_place, Place
  <2>6. allocated' \in [Bufs -> [Places -> Headers]]
    <3> DEFINE h == [p \in Places |-> IF p = offset[b] THEN "live"
                       ELSE IF p \in offset[b]..(offset[b] + EntrySize - 1) THEN "junk" ELSE allocated[b][p]]
    <3>1. h \in [Places -> Headers]
      BY <1>1 DEF Headers
    <3>2. allocated' = [allocated EXCEPT ![b] = h]
      BY <1>8, <2>1, Zenon DEF alloc_place, Place
    <3> HIDE DEF h
    <3> QED
      BY <1>1, <3>1, <3>2, Zenon
  <2>7. holders' \in [Bufs -> [Places -> 0..MaxHolders]]
    <3>1. holders[b][offset[b]] + 1 \in 0..MaxHolders
      BY <1>1, <2>1, <2>3, MembufAssumption
    <3>2. holders' = [holders EXCEPT ![b][offset[b]] = holders[b][offset[b]] + 1]
      BY <1>8, <2>1, Zenon DEF alloc_place, Place
    <3> QED
      BY <1>1, <2>3, <3>1, <3>2, Zenon
  <2> QED
    BY <1>1, <2>2, <2>5, <2>6, <2>7, Zenon DEF TypeOK, Headers, Labels
<1>9. ASSUME NEW b \in Bufs, NEW p \in Places, membuf_free(b, p) PROVE TypeOK'
  <2>1. UNCHANGED <<known, unused, lists_lock, tls, offset, available, leftovers, folded, pc, tbuf, deleted>>
    BY <1>9, Zenon DEF membuf_free, lists, space
  <2>2. holders[b][p] - 1 \in 0..MaxHolders
    BY <1>1, <1>9, MembufAssumption DEF membuf_free
  <2>3. holders' \in [Bufs -> [Places -> 0..MaxHolders]] /\ allocated' \in [Bufs -> [Places -> Headers]]
    BY <1>1, <1>9, <2>2, Zenon DEF membuf_free, Headers
  <2> QED
    BY <1>1, <2>1, <2>3, Zenon DEF TypeOK, Headers, Labels
<1>10. ASSUME NEW t \in Threads, membuf_key_destructor(t) PROVE TypeOK'
  <2>1. /\ UNCHANGED <<known, lists_lock, offset, available, leftovers, folded, allocated, holders, pc, tbuf, deleted>>
        /\ tls' \in [Threads -> Bufs \cup {NULL}] /\ tls[t] \in Bufs
    BY <1>1, <1>10, Zenon DEF membuf_key_destructor, space, entries
  <2>2. unused' \in Seq(Bufs)
    BY <1>1, <1>10, <2>1 DEF membuf_key_destructor
  <2> QED
    BY <1>1, <2>1, <2>2, Zenon DEF TypeOK, Headers, Labels
<1>11. CASE membuf_delete
  <2>1. /\ UNCHANGED <<lists_lock, offset, available, leftovers, folded, allocated, pc, tbuf>>
        /\ known' = {} /\ deleted' = TRUE /\ tls' \in [Threads -> Bufs \cup {NULL}]
    BY <1>11, Zenon DEF membuf_delete, space
  <2>2. holders' \in [Bufs -> [Places -> 0..MaxHolders]]
    BY <1>2, <1>11, Zenon DEF membuf_delete
  <2>3. unused' \in Seq(Bufs)
    BY <1>11, SMT DEF membuf_delete
  <2> QED
    BY <1>1, <2>1, <2>2, <2>3, Zenon DEF TypeOK, Headers, Labels
<1>12. CASE UNCHANGED vars
  BY <1>0, <1>12, Zenon DEF vars, lists, space, entries, TypeOK
<1> QED
  BY <1>3, <1>4, <1>5, <1>6, <1>7, <1>8, <1>9, <1>10, <1>11, <1>12, Zenon DEF Next, AllocStep, Terminated

-----------------------------------------------------------------------------
\* The invariant holds in every state.
THEOREM MembufAlways == Spec => []MembufInv
<1>1. Init => MembufInv
  BY MembufInit, Zenon
<1>2. ASSUME MembufInv, [Next]_vars PROVE MembufInv'
  BY <1>2, MembufTypes, ThreadStep, ListsStep, BufStep, Zenon DEF MembufInv
<1> QED
  BY <1>1, <1>2, PTL DEF Spec

\* A buffer belongs to one thread or is on the list of unused ones, once
\* (membuf_get_threadbuf, membuf_key_destructor).
THEOREM BuffersHaveOneOwner == Spec => []OneOwner
<1>1. ASSUME MembufInv PROVE OneOwner
  <2>0. TypeOK /\ ListsInv /\ NULL \notin Bufs
    BY <1>1, MembufAssumption, Zenon DEF MembufInv
  <2> SUFFICES ASSUME NEW b \in known
               PROVE  Cardinality({t \in Threads : tls[t] = b})
                        + Cardinality({i \in DOMAIN unused : unused[i] = b}) = 1
    BY <2>0, Zenon DEF OneOwner
  <2>1. b \in Bufs /\ b # NULL
    BY <2>0, Zenon DEF TypeOK
  <2>2. ASSUME NEW t \in Threads, tls[t] = b
        PROVE  {u \in Threads : tls[u] = b} = {t} /\ {i \in DOMAIN unused : unused[i] = b} = {}
    BY <2>0, <2>1, <2>2 DEF ListsInv
  <2>3. ASSUME NEW j \in DOMAIN unused, unused[j] = b
        PROVE  {u \in Threads : tls[u] = b} = {} /\ {i \in DOMAIN unused : unused[i] = b} = {j}
    BY <2>0, <2>1, <2>3 DEF ListsInv
  <2>4. Cardinality({}) = 0
    BY FS_EmptySet, Zenon
  <2>5. CASE \E t \in Threads : tls[t] = b
    <3>1. PICK t \in Threads : tls[t] = b
      BY <2>5, Zenon
    <3>2. Cardinality({t}) = 1
      BY FS_Singleton, Zenon
    <3> QED
      BY <2>2, <2>4, <3>1, <3>2
  <2>6. CASE \E i \in DOMAIN unused : unused[i] = b
    <3>1. PICK j \in DOMAIN unused : unused[j] = b
      BY <2>6, Zenon
    <3>2. Cardinality({j}) = 1
      BY FS_Singleton, Zenon
    <3> QED
      BY <2>3, <2>4, <3>1, <3>2, SMTT(30)
  <2> QED
    BY <2>0, <2>5, <2>6, Zenon DEF ListsInv
<1> QED
  BY <1>1, MembufAlways, PTL

\* membuf_threadbuf_prune reads only headers that membuf_alloc wrote.
THEOREM PruneMeetsHeaders == Spec => []PruneReadsHeaders
<1>1. ASSUME MembufInv PROVE PruneReadsHeaders
  <2> SUFFICES ASSUME NEW t \in Threads, Pruning(t), ~AtLeftovers(tbuf[t])
               PROVE  allocated[tbuf[t]][NextLoc(tbuf[t])] # "junk"
    BY Zenon DEF PruneReadsHeaders
  <2>1. PICK b \in Bufs : b = tbuf[t] /\ b \in known
    BY <1>1, Owner, Zenon DEF Pruning, Owning
  <2>2. TypeOK /\ BufInv(b) /\ available[b] # Size /\ ~AtLeftovers(b)
    BY <1>1, <2>1, Zenon DEF MembufInv, Pruning
  <2> DEFINE a == offset[b]
             v == available[b]
             L == leftovers[b]
             E == EntrySize
  <2>3. /\ a \in Int /\ 0 <= a /\ a <= Size /\ v \in Int /\ 0 <= v /\ v < Size
        /\ L \in Int /\ 0 <= L /\ L <= Size
        /\ Size \in Int /\ E \in Int /\ 1 <= E /\ E <= Size
    BY <2>2, Numbers
  <2>4. CASE Open(b)
    <3>1. PICK g \in Int : g = a + v - Size
      BY <2>3
    <3>2. Aligned(g)
      BY <2>3, <2>4, <3>1 DEF Open, End
    <3>3. 0 <= g
      BY <3>2, AlignedSum, Zenon
    <3>4. g < a /\ g \in Places
      BY <2>3, <3>1, <3>3 DEF Places
    <3>5. (g + Size) % Size = g
      BY <2>3, <3>3, <3>4
    <3>6. NextLoc(b) = g
      BY <2>3, <3>1, <3>5 DEF NextLoc
    <3> QED
      BY <2>1, <2>4, <3>2, <3>4, <3>6, Zenon DEF Open
  <2>5. CASE Wrapped(b) /\ a + v < Size
    <3>1. PICK e \in Int : e = a + v
      BY <2>3
    <3>2. PICK m \in Int : m = Size - L
      BY <2>3
    <3>3. Aligned(e) /\ Aligned(m) /\ e <= m
      BY <2>3, <2>5, <3>1, <3>2, Zenon DEF Wrapped, End
    <3>4. e < m
      <4>1. L = 0 \/ Size - (a + v) # L
        BY <2>2, Zenon DEF AtLeftovers, Remaining
      <4> QED
        BY <2>3, <2>5, <3>1, <3>2, <3>3, <4>1
    <3>5. e + E <= m
      BY <3>3, <3>4, AlignedSum, Zenon
    <3>6. e + E <= Size /\ e \in Places /\ NextLoc(b) = e
      BY <2>3, <2>5, <3>1, <3>2, <3>5 DEF Places, NextLoc
    <3> QED
      BY <2>1, <2>5, <3>3, <3>6, Zenon DEF Wrapped
  <2>6. CASE Wrapped(b) /\ a + v >= Size
    <3>1. a + v = Size
      BY <2>3, <2>6 DEF Wrapped, End
    <3>2. Size % Size = 0
      BY <2>3
    <3>3. NextLoc(b) = 0 /\ 0 \in Places /\ 0 + E <= Size
      BY <2>3, <3>1, <3>2 DEF NextLoc, Places
    <3> QED
      BY <2>1, <2>6, <3>3, AlignedBase, Zenon DEF Wrapped
  <2> QED
    BY <2>1, <2>2, <2>3, <2>4, <2>5, <2>6 DEF BufInv
<1> QED
  BY <1>1, MembufAlways, PTL

\* Space that counts as available belongs to no entry in use, in a buffer whose
\* wraparounds left only its tail unused.
THEOREM AvailableIsUnused == Spec => []SafeUnlessFolded
<1>1. ASSUME MembufInv PROVE SafeUnlessFolded
  <2> SUFFICES ASSUME NEW b \in known, ~folded[b], NEW p \in Places, holders[b][p] > 0,
                      NEW x \in Extent(p), x \in Ahead(b)
               PROVE  FALSE
    BY Zenon DEF SafeUnlessFolded, FreeAhead
  <2>0. TypeOK /\ b \in Bufs
    BY <1>1, Zenon DEF MembufInv, TypeOK
  <2>1. BufInv(b)
    BY <1>1, <2>0, Zenon DEF MembufInv
  <2> DEFINE a == offset[b]
             v == available[b]
             L == leftovers[b]
             E == EntrySize
  <2>2. /\ a \in Int /\ 0 <= a /\ a <= Size /\ v \in Int /\ 0 <= v /\ v <= Size
        /\ L \in Int /\ 0 <= L /\ L <= Size
        /\ Size \in Int /\ E \in Int /\ 1 <= E /\ E <= Size
        /\ p \in Int /\ 0 <= p /\ p < Size
    BY <2>0, Numbers, Zenon
  <2>3. x \in Int /\ p <= x /\ x < p + E
    BY <2>2 DEF Extent
  <2>4. Aligned(a) /\ Aligned(p) /\ p + E <= Size
    BY <2>1, Zenon DEF BufInv
  <2>5. PICK k \in 0..v-1 : x = (a + k) % Size
    BY Zenon DEF Ahead
  <2>6. k \in Int /\ 0 <= k /\ k < v
    BY <2>2, <2>5
  <2>7. p < a => p + E <= a
    BY <2>2, <2>4, AlignedSum, Zenon
  <2>8. CASE a + k < Size
    <3>1. x = a + k
      <4>1. PICK y \in Int : y = a + k
        BY <2>2, <2>6
      <4>2. 0 <= y /\ y < Size
        BY <2>2, <2>6, <2>8, <4>1
      <4>3. y % Size = y
        BY <2>2, <4>2
      <4> QED
        BY <2>5, <4>1, <4>3, Zenon
    <3>2. CASE Open(b)
      BY <2>2, <2>3, <2>6, <2>7, <3>1, <3>2 DEF Open
    <3>3. CASE Wrapped(b)
      <4>1. p < a \/ a + v <= p
        BY <3>3, Zenon DEF Wrapped, End
      <4> QED
        BY <2>2, <2>3, <2>6, <2>7, <3>1, <4>1
    <3> QED
      BY <2>1, <3>2, <3>3, Zenon DEF BufInv
  <2>9. CASE a + k >= Size
    <3>1. x = a + k - Size
      <4>1. PICK y \in Int : y = a + k - Size
        BY <2>2, <2>6
      <4>2. 0 <= y /\ y < Size
        BY <2>2, <2>6, <2>9, <4>1
      <4>3. (y + Size) % Size = y
        BY <2>2, <4>2
      <4> QED
        BY <2>2, <2>5, <2>6, <4>1, <4>3
    <3>2. CASE Open(b)
      <4>1. a + v - Size <= p
        BY <2>2, <3>2 DEF Open, End
      <4> QED
        BY <2>2, <2>3, <2>6, <3>1, <4>1
    <3>3. CASE Wrapped(b)
      <4>1. a + v <= Size - L
        BY <3>3, Zenon DEF Wrapped, End
      <4> QED
        BY <2>2, <2>6, <2>9, <4>1
    <3> QED
      BY <2>1, <3>2, <3>3, Zenon DEF BufInv
  <2> QED
    BY <2>2, <2>6, <2>8, <2>9
<1> QED
  BY <1>1, MembufAlways, PTL
=============================================================================
