---------------------------- MODULE HashMapProofs ----------------------------
(***************************************************************************)
(* Proofs about HashMap for every capacity, hash function, set of keys and *)
(* number of operations, polled in any order.                              *)
(***************************************************************************)
EXTENDS HashMap, FiniteSetTheorems, WellFoundedInduction, TLAPS

\* The entries in use.
Occupied == {i \in Indexes : ~hashmap_entry_unoccupied(entries[i])}

\* The life of an operation, stale pointers or not.
OpInv(o) ==
  /\ at[o] = "copy" <=> hme[o] # NULL
  /\ at[o] = "copy" <=> vdm[o] \in {"RUNNING", "performed"}
  /\ at[o] = "copy" => kind[o] \in {"put", "get"}
  /\ at[o] \in {"none", "lookup"} => output[o] = NULL
  /\ at[o] = "none" => kind[o] = "none"
  /\ o \in rerun => at[o] = "lookup" /\ kind[o] # "put"
  /\ deleted => at[o] \in {"none", "done"}

\* The entry of a copy is locked for it alone.
CopyInv(o) ==
  at[o] = "copy" =>
    /\ entries[hme[o]].state = "LOCKED"
    /\ entries[hme[o]].addr = value[o]
    /\ \A p \in Ops : p # o => hme[p] # hme[o]

\* A lookup of the entry's key passes no empty entry before it meets this one.
Reachable(i) ==
  \E d \in Indexes :
    /\ Probe(entries[i].key, d) = i
    /\ \A j \in 0..d-1 : ~hashmap_entry_empty(entries[Probe(entries[i].key, j)])

\* An entry in use has a key and a value that no other entry has, the value was
\* put by an operation past its lookup, and a locked entry is locked by an
\* operation that is not done.
EntryInv(i) ==
  /\ entries[i].key \in Keys
  /\ entries[i].addr \in Ops
  /\ at[entries[i].addr] \in {"copy", "done"}
  /\ ~deleted => mem[entries[i].addr] \in {"raw", "copied"}
  /\ Reachable(i)
  /\ \A j \in Occupied : entries[j].key = entries[i].key \/ entries[j].addr = entries[i].addr => j = i
  /\ entries[i].state = "LOCKED" => rerun # {} \/ \E o \in Ops : hme[o] = i

\* The table, as long as no stale pointer was taken for a new value.
Stored ==
  /\ \A o \in Ops : CopyInv(o)
  /\ \A i \in Occupied : EntryInv(i)
  /\ length = Cardinality(Occupied)
  /\ AnswersAddUp

HashMapInv ==
  /\ TypeOK
  /\ \A o \in Ops : OpInv(o)
  /\ ~stale => Stored

-----------------------------------------------------------------------------
\* A set of naturals that is not empty has a least element.
LEMMA LeastElement ==
  ASSUME NEW S \in SUBSET Nat, S # {}
  PROVE  Min(S) \in S /\ \A x \in S : Min(S) <= x
<1> DEFINE R == OpToRel(<, Nat)
<1>1. IsWellFoundedOn(R, Nat)
  BY NatLessThanWellFounded, Zenon
<1>2. \A x, y \in Nat : y < x => <<y, x>> \in R
  BY Zenon DEF OpToRel
<1> HIDE DEF R
<1>3. PICK x \in S : \A y \in S : ~(<<y, x>> \in R)
  BY <1>1, WFMin, Zenon
<1>4. \A y \in S : x <= y
  <2> SUFFICES ASSUME NEW y \in S, ~(x <= y) PROVE FALSE
    BY Zenon
  <2>1. x \in Nat /\ y \in Nat /\ y < x
    OBVIOUS
  <2> QED
    BY <1>2, <1>3, <2>1, Zenon
<1> QED
  BY <1>4, Zenon DEF Min

\* hashmap_key_index and the probes behind it stay inside the table.
LEMMA ProbeInside ==
  ASSUME TypeOK, NEW k \in Keys, NEW i \in Indexes
  PROVE  Probe(k, i) \in Indexes /\ Probe(k, i) # -1
<1>1. hash[k] \in Nat /\ i \in Nat /\ Capacity \in Nat \ {0}
  BY HashMapAssumption DEF TypeOK, Indexes
<1>2. (hash[k] + i) % Capacity \in 0..Capacity-1
  BY <1>1
<1> QED
  BY <1>1, <1>2 DEF Probe, Indexes

\* The lookup for a put: the first unoccupied entry.
LEMMA LookupFree ==
  ASSUME TypeOK, NEW k \in Keys, NEW i,
         i = hashmap_entry_lookup(k, "UNOCCUPIED"), i # -1
  PROVE  /\ i \in Indexes /\ entries[i].state = "UNOCCUPIED"
         /\ \E d \in Indexes : /\ Probe(k, d) = i
                               /\ \A j \in 0..d-1 : entries[Probe(k, j)].state # "UNOCCUPIED"
<1> DEFINE ends == {j \in Indexes : Ends(entries[Probe(k, j)], k, "UNOCCUPIED")}
<1>1. ends # {} /\ i = Probe(k, Min(ends))
  BY Zenon DEF hashmap_entry_lookup
<1>2. \A j \in Indexes : j \in ends <=> entries[Probe(k, j)].state = "UNOCCUPIED"
  BY Zenon DEF Ends, hashmap_entry_unoccupied
<1>3. ends \in SUBSET Nat
  BY HashMapAssumption DEF Indexes
<1> HIDE DEF ends
<1>4. Min(ends) \in ends /\ \A x \in ends : Min(ends) <= x
  BY <1>1, <1>3, LeastElement, Zenon
<1>5. PICK d \in Nat : d = Min(ends) /\ d \in Indexes
  BY <1>3, <1>4, Zenon DEF ends
<1>6. \A j \in 0..d-1 : j \in Indexes /\ j \notin ends
  BY <1>4, <1>5, HashMapAssumption DEF Indexes
<1> QED
  BY <1>1, <1>2, <1>4, <1>5, <1>6, ProbeInside, Zenon

\* The lookup for a get or a remove: an entry in use that has the key.
LEMMA LookupUsed ==
  ASSUME TypeOK, NEW k \in Keys, NEW i,
         i = hashmap_entry_lookup(k, "PRESENT"), i # -1
  PROVE  i \in Indexes /\ entries[i].state # "UNOCCUPIED" /\ entries[i].key = k
<1> DEFINE ends == {j \in Indexes : Ends(entries[Probe(k, j)], k, "PRESENT")}
<1>1. /\ ends # {} /\ i = Probe(k, Min(ends))
      /\ ~hashmap_entry_empty(entries[Probe(k, Min(ends))])
  BY Zenon DEF hashmap_entry_lookup
<1>2. ends \in SUBSET Nat
  BY HashMapAssumption DEF Indexes
<1>3. Min(ends) \in ends
  <2> HIDE DEF ends
  <2> QED
    BY <1>1, <1>2, LeastElement, Zenon
<1>4. Min(ends) \in Indexes /\ Ends(entries[Probe(k, Min(ends))], k, "PRESENT")
  BY <1>3, Zenon
<1>5. Ends(entries[i], k, "PRESENT")
  BY <1>1, <1>4, Zenon
<1> HIDE DEF ends
<1> QED
  BY <1>1, <1>4, <1>5, ProbeInside, Zenon
     DEF Ends, hashmap_entry_empty, hashmap_entry_deleted, hashmap_entry_unoccupied

\* A key that is stored is found, at the entry that stores it.
LEMMA LookupFinding ==
  ASSUME TypeOK, NEW i \in Occupied, entries[i].key \in Keys, Reachable(i),
         \A j \in Occupied : entries[j].key = entries[i].key => j = i
  PROVE  hashmap_entry_lookup(entries[i].key, "PRESENT") = i
<1> DEFINE k == entries[i].key
           ends == {j \in Indexes : Ends(entries[Probe(k, j)], k, "PRESENT")}
<1>1. i \in Indexes /\ entries[i].state # "UNOCCUPIED"
  BY Zenon DEF Occupied, hashmap_entry_unoccupied
<1>2. PICK d \in Indexes :
        /\ Probe(k, d) = i
        /\ \A j \in 0..d-1 : ~hashmap_entry_empty(entries[Probe(k, j)])
  BY Zenon DEF Reachable
<1>3. d \in ends
  BY <1>1, <1>2, Zenon DEF Ends, hashmap_entry_deleted, hashmap_entry_unoccupied
<1>4. ends \in SUBSET Nat
  BY HashMapAssumption DEF Indexes
<1>5. Min(ends) \in ends /\ Min(ends) <= d
  <2> HIDE DEF ends
  <2> QED
    BY <1>3, <1>4, LeastElement, Zenon
<1>6. PICK m \in Indexes : m = Min(ends) /\ m <= d /\ Ends(entries[Probe(k, m)], k, "PRESENT")
  BY <1>5, Zenon
<1> HIDE DEF k, ends
<1>7. Probe(k, m) = i
  <2>1. CASE m = d
    BY <1>2, <2>1, Zenon
  <2>2. CASE m # d
    <3>1. m \in 0..d-1
      BY <1>6, <2>2, HashMapAssumption DEF Indexes
    <3>2. ~hashmap_entry_empty(entries[Probe(k, m)])
      BY <1>2, <3>1, Zenon
    <3>3. entries[Probe(k, m)].key = k /\ ~hashmap_entry_deleted(entries[Probe(k, m)])
      BY <1>6, <3>2, Zenon DEF Ends
    <3>4. Probe(k, m) \in Indexes
      BY ProbeInside, Zenon DEF k
    <3>5. Probe(k, m) \in Occupied
      BY <3>2, <3>3, <3>4, Zenon DEF Occupied, hashmap_entry_empty, hashmap_entry_deleted
    <3> QED
      BY <3>3, <3>5, Zenon DEF k
  <2> QED
    BY <2>1, <2>2, Zenon
<1>8. ~hashmap_entry_empty(entries[Probe(k, Min(ends))]) /\ ends # {}
  BY <1>1, <1>3, <1>6, <1>7, Zenon DEF hashmap_entry_empty, hashmap_entry_unoccupied
<1> QED
  BY <1>6, <1>7, <1>8, Zenon DEF hashmap_entry_lookup, k, ends

\* hashmap_new satisfies the invariant.
LEMMA HashMapInit == Init => HashMapInv
<1> SUFFICES ASSUME Init PROVE HashMapInv
  BY Zenon
<1> USE HashMapAssumption DEF Init
<1>1. TypeOK
  <2>1. Empty \in [key : Keys \cup {NULL}, addr : Ops \cup {NULL},
                   state : {"UNOCCUPIED", "LOCKED", "PRESENT"}]
    BY Zenon DEF Empty
  <2>2. 0 \in 0..SizeSpace-1
    OBVIOUS
  <2> QED
    BY <2>1, <2>2, Zenon DEF TypeOK
<1>2. \A o \in Ops : OpInv(o) /\ CopyInv(o)
  BY Zenon DEF OpInv, CopyInv
<1>3. Occupied = {}
  BY Zenon DEF Occupied, Empty, hashmap_entry_unoccupied
<1>4. length = Cardinality(Occupied) /\ \A i \in Occupied : EntryInv(i)
  BY <1>3, FS_EmptySet, Zenon
<1>5. AnswersAddUp
  <2>1. /\ {o \in Ops : kind[o] = "put" /\ (at[o] = "copy" \/ output[o] # NULL)} = {}
        /\ {o \in Ops : kind[o] = "remove" /\ output[o] # NULL} = {}
    BY Zenon
  <2> QED
    BY <2>1, FS_EmptySet DEF AnswersAddUp
<1> QED
  BY <1>1, <1>2, <1>4, <1>5, Zenon DEF HashMapInv, Stored

\* What a poll that locks an entry knows about it.
LEMMA Locked ==
  ASSUME HashMapInv, NEW o \in Ops, NEW i \in Locks(o)
  PROVE  /\ at[o] = "lookup" /\ o \notin rerun /\ i \in Indexes /\ key[o] \in Keys
         /\ ~deleted /\ hme[o] = NULL /\ output[o] = NULL
         /\ kind[o] = "put" =>
              /\ entries[i].state = "UNOCCUPIED" /\ length # Capacity
              /\ \E d \in Indexes :
                   /\ Probe(key[o], d) = i
                   /\ \A j \in 0..d-1 : entries[Probe(key[o], j)].state # "UNOCCUPIED"
              /\ ~stale => \A j \in Occupied : entries[j].key # key[o]
         /\ kind[o] # "put" => entries[i].state = "PRESENT" /\ entries[i].key = key[o]
<1>1. /\ at[o] = "lookup" /\ o \notin rerun
      /\ i \in LookupFinds(o) /\ i # -1 /\ entries[i].state = Sought(o)
  BY Zenon DEF Locks
<1>2. ~LookupFails(o) /\ i = hashmap_entry_lookup(key[o], Sought(o))
  BY <1>1, Zenon DEF LookupFinds
<1>3. TypeOK /\ OpInv(o) /\ (~stale => \A j \in Occupied : EntryInv(j))
  BY Zenon DEF HashMapInv, Stored
<1>4. key[o] \in Keys
  BY <1>2, <1>3, Zenon DEF LookupFails, TypeOK
<1>5. ~deleted /\ hme[o] = NULL /\ output[o] = NULL
  BY <1>1, <1>3, Zenon DEF OpInv
<1>6. ASSUME kind[o] = "put"
      PROVE  /\ i \in Indexes /\ entries[i].state = "UNOCCUPIED" /\ length # Capacity
             /\ \E d \in Indexes :
                  /\ Probe(key[o], d) = i
                  /\ \A j \in 0..d-1 : entries[Probe(key[o], j)].state # "UNOCCUPIED"
             /\ ~stale => \A j \in Occupied : entries[j].key # key[o]
  <2>1. length # Capacity /\ hashmap_entry_lookup(key[o], "PRESENT") = -1
    BY <1>2, <1>4, <1>6, Zenon DEF LookupFails
  <2>2. i = hashmap_entry_lookup(key[o], "UNOCCUPIED")
    BY <1>2, <1>6, Zenon DEF Sought
  <2>3. ASSUME ~stale, NEW j \in Occupied PROVE entries[j].key # key[o]
    <3>1. EntryInv(j)
      BY <1>3, <2>3, Zenon
    <3>2. j \in Nat /\ hashmap_entry_lookup(entries[j].key, "PRESENT") = j
      BY <1>3, <3>1, LookupFinding, HashMapAssumption DEF EntryInv, Occupied, Indexes
    <3> QED
      BY <2>1, <3>2
  <2> QED
    BY <1>1, <1>3, <1>4, <2>1, <2>2, <2>3, LookupFree, Zenon
<1>7. ASSUME kind[o] # "put"
      PROVE  i \in Indexes /\ entries[i].state = "PRESENT" /\ entries[i].key = key[o]
  <2>1. i = hashmap_entry_lookup(key[o], "PRESENT") /\ entries[i].state = "PRESENT"
    BY <1>1, <1>2, <1>7, Zenon DEF Sought
  <2> QED
    BY <1>1, <1>3, <1>4, <2>1, LookupUsed, Zenon
<1> QED
  BY <1>1, <1>4, <1>5, <1>6, <1>7, Zenon

EntryType == [key : Keys \cup {NULL}, addr : Ops \cup {NULL},
              state : {"UNOCCUPIED", "LOCKED", "PRESENT"}]

\* size_t arithmetic.
LEMMA SizeMod ==
  /\ \A n \in 0..SizeSpace-1 : /\ (n + 1) % SizeSpace \in 0..SizeSpace-1
                               /\ (n - 1) % SizeSpace \in 0..SizeSpace-1
  /\ \A n \in 0..SizeSpace-1 : n + 1 < SizeSpace => (n + 1) % SizeSpace = n + 1
  /\ \A n \in 1..SizeSpace-1 : (n - 1) % SizeSpace = n - 1
BY HashMapAssumption

\* The copy or its absence keeps the types.
LEMMA CopiesType ==
  ASSUME TypeOK, NEW o \in Ops, NEW i \in Indexes, NEW e \in EntryType, Copies(o, i, e)
  PROVE  /\ entries' \in [Indexes -> EntryType]
         /\ vdm' \in [Ops -> {"IDLE", "RUNNING", "performed", "COMPLETE"}]
         /\ at' \in [Ops -> {"none", "lookup", "copy", "done"}]
         /\ hme' \in [Ops -> Indexes \cup {NULL}]
         /\ value' \in [Ops -> Ops \cup {NULL}]
         /\ output' \in [Ops -> Ops \cup Keys \cup {NULL}]
<1>1. /\ entries \in [Indexes -> EntryType] /\ e.addr \in Ops \cup {NULL}
      /\ [e EXCEPT !.state = "LOCKED"] \in EntryType
      /\ [e EXCEPT !.state = "PRESENT"] \in EntryType
  BY Zenon DEF TypeOK, EntryType
<1>2. CASE /\ vdm[o] = "IDLE"
           /\ entries' = [entries EXCEPT ![i] = [e EXCEPT !.state = "LOCKED"]]
           /\ vdm' = [vdm EXCEPT ![o] = "RUNNING"]
           /\ hme' = [hme EXCEPT ![o] = i]
           /\ value' = [value EXCEPT ![o] = e.addr]
           /\ at' = [at EXCEPT ![o] = "copy"]
           /\ UNCHANGED output
  BY <1>1, <1>2, Zenon DEF TypeOK
<1>3. CASE /\ vdm[o] = "COMPLETE"
           /\ entries' = [entries EXCEPT ![i] = [e EXCEPT !.state = "PRESENT"]]
           /\ at' = [at EXCEPT ![o] = "done"]
           /\ output' = [output EXCEPT ![o] = e.addr]
           /\ UNCHANGED <<vdm, hme, value>>
  BY <1>1, <1>3, Zenon DEF TypeOK
<1> QED
  BY <1>2, <1>3, Zenon DEF Copies

\* Every step keeps the types.
LEMMA TypeStep ==
  ASSUME HashMapInv, [Next]_vars
  PROVE  TypeOK'
<1>0. TypeOK /\ entries \in [Indexes -> EntryType] /\ \A o \in Ops : OpInv(o)
  BY Zenon DEF HashMapInv, TypeOK, EntryType
<1>1. ASSUME NEW o \in Ops, create(o) PROVE TypeOK'
  <2>1. PICK k \in Keys \cup {NULL}, what \in {"put", "get", "remove"}, v \in {"IDLE", "COMPLETE"} :
          Chain(o, what, k, v)
    BY <1>1, Zenon DEF create, hashmap_put, hashmap_get_copy, hashmap_remove
  <2>2. /\ kind' \in [Ops -> {"none", "put", "get", "remove"}]
        /\ key' \in [Ops -> Keys \cup {NULL}]
        /\ vdm' \in [Ops -> {"IDLE", "RUNNING", "performed", "COMPLETE"}]
        /\ at' \in [Ops -> {"none", "lookup", "copy", "done"}]
    BY <1>0, <2>1, Zenon DEF Chain, TypeOK
  <2> QED
    BY <1>0, <2>1, <2>2, Zenon DEF Chain, TypeOK, table
<1>2. ASSUME NEW o \in Ops, lookup_nothing(o) \/ lookup_contended(o) \/ lookup_spins(o) PROVE TypeOK'
  BY <1>0, <1>2
     DEF lookup_nothing, lookup_contended, lookup_spins, TypeOK, table, call, vars
<1>3. ASSUME NEW o \in Ops, lookup_again(o) PROVE TypeOK'
  <2>1. entries' \in [Indexes -> EntryType]
    <3>1. PICK i : entries' = [entries EXCEPT ![i].state = "LOCKED"]
      BY <1>3, Zenon DEF lookup_again
    <3>2. ASSUME i \in Indexes PROVE [entries[i] EXCEPT !.state = "LOCKED"] \in EntryType
      BY <1>0, <3>2 DEF EntryType
    <3> QED
      BY <1>0, <3>1, <3>2, Zenon
  <2> QED
    BY <1>0, <1>3, <2>1, Zenon DEF lookup_again, TypeOK, call, EntryType
<1>4. ASSUME NEW o \in Ops, put_init(o) PROVE TypeOK'
  <2>1. PICK i \in Locks(o) : Copies(o, i, [key |-> key[o], addr |-> o, state |-> "LOCKED"])
    BY <1>4, Zenon DEF put_init
  <2>2. [key |-> key[o], addr |-> o, state |-> "LOCKED"] \in EntryType
    BY <1>0, Zenon DEF TypeOK, EntryType
  <2>3. length' \in 0..SizeSpace-1 /\ mem' \in [Ops -> {"none", "raw", "copied", "freed"}]
    BY <1>0, <1>4, SizeMod, Zenon DEF put_init, TypeOK
  <2>4. UNCHANGED <<hash, kind, key, rerun, stale, deleted>>
    BY <1>4, Zenon DEF put_init, call
  <2> QED
    BY <1>0, <2>1, <2>2, <2>3, <2>4, CopiesType, Locked, Zenon DEF TypeOK, EntryType
<1>5. ASSUME NEW o \in Ops, put_stale(o) \/ get_start(o) PROVE TypeOK'
  <2>1. PICK i \in Locks(o) : Copies(o, i, entries[i])
    BY <1>5, Zenon DEF put_stale, get_start
  <2>2. entries[i] \in EntryType /\ i \in Indexes
    BY <1>0, Locked, Zenon
  <2>3. UNCHANGED <<hash, length, mem, kind, key, rerun, deleted>> /\ stale' \in BOOLEAN
    BY <1>0, <1>5, Zenon DEF put_stale, get_start, call, TypeOK
  <2> QED
    BY <1>0, <2>1, <2>2, <2>3, CopiesType, Zenon DEF TypeOK, EntryType
<1>6. ASSUME NEW o \in Ops, put_no_memory(o) PROVE TypeOK'
  BY <1>0, <1>6, Zenon DEF put_no_memory, TypeOK, table, call
<1>7. ASSUME NEW o \in Ops, remove_fini(o) PROVE TypeOK'
  <2>1. entries' \in [Indexes -> EntryType]
    <3>1. PICK i \in Locks(o) : entries' = [entries EXCEPT ![i].state = "UNOCCUPIED"]
      BY <1>7, Zenon DEF remove_fini
    <3> QED
      BY <1>0, <3>1, Zenon DEF EntryType
  <2>2. length' \in 0..SizeSpace-1 /\ mem' \in [Ops -> {"none", "raw", "copied", "freed"}]
    BY <1>0, <1>7, SizeMod, Zenon DEF remove_fini, TypeOK
  <2>3. at' \in [Ops -> {"none", "lookup", "copy", "done"}] /\ output' \in [Ops -> Ops \cup Keys \cup {NULL}]
    BY <1>0, <1>7, Zenon DEF remove_fini, TypeOK
  <2> QED
    BY <1>0, <1>7, <2>1, <2>2, <2>3, Zenon DEF remove_fini, TypeOK, call, EntryType
<1>8. ASSUME NEW o \in Ops, mover_copies(o) PROVE TypeOK'
  BY <1>0, <1>8, Zenon DEF mover_copies, TypeOK, call
<1>9. ASSUME NEW o \in Ops, set_state(o) PROVE TypeOK'
  <2>1. hme[o] \in Indexes
    BY <1>0, <1>9, Zenon DEF set_state, TypeOK, OpInv
  <2>2. entries' \in [Indexes -> EntryType]
    BY <1>0, <1>9, <2>1 DEF set_state, EntryType
  <2>3. entries[hme[o]].addr \in Ops \cup {NULL}
    BY <1>0, <2>1, Zenon DEF EntryType
  <2>4. output' \in [Ops -> Ops \cup Keys \cup {NULL}]
    BY <1>0, <1>9, <2>3, Zenon DEF set_state, TypeOK
  <2> QED
    BY <1>0, <1>9, <2>2, <2>4, Zenon DEF set_state, TypeOK, call, EntryType
<1>10. CASE hashmap_delete
  BY <1>0, <1>10, Zenon DEF hashmap_delete, TypeOK, call
<1>11. CASE UNCHANGED vars
  BY <1>0, <1>11, Zenon DEF vars, table, call, TypeOK
<1> QED
  BY <1>1, <1>2, <1>3, <1>4, <1>5, <1>6, <1>7, <1>8, <1>9, <1>10, <1>11, Zenon
     DEF Next, poll, Terminated

-----------------------------------------------------------------------------
\* The compare-and-swap of a put cannot fail: the lookup for it ends at an
\* unoccupied entry, and nothing happens in between.
LEMMA PutNotContended ==
  ASSUME HashMapInv, NEW o \in Ops, lookup_contended(o)
  PROVE  kind[o] # "put"
<1> SUFFICES ASSUME kind[o] = "put" PROVE FALSE
  BY Zenon
<1>1. PICK i \in LookupFinds(o) : i # -1 /\ entries[i].state # Sought(o)
  BY Zenon DEF lookup_contended
<1>2. ~LookupFails(o) /\ i = hashmap_entry_lookup(key[o], "UNOCCUPIED")
  BY <1>1, Zenon DEF LookupFinds, Sought
<1>3. TypeOK /\ key[o] \in Keys
  BY <1>2, Zenon DEF HashMapInv, LookupFails, TypeOK
<1> QED
  BY <1>1, <1>2, <1>3, LookupFree, Zenon DEF Sought

\* A poll that copies or need not copy touches one operation and one entry.
LEMMA Copying ==
  ASSUME HashMapInv, NEW o \in Ops, NEW i \in Indexes, NEW e \in EntryType, Copies(o, i, e)
  PROVE  /\ \A p \in Ops \ {o} : /\ vdm'[p] = vdm[p] /\ at'[p] = at[p] /\ hme'[p] = hme[p]
                                 /\ value'[p] = value[p] /\ output'[p] = output[p]
         /\ \A j \in Indexes \ {i} : entries'[j] = entries[j]
         /\ entries'[i].key = e.key /\ entries'[i].addr = e.addr
         /\ \/ /\ at'[o] = "copy" /\ vdm'[o] = "RUNNING" /\ hme'[o] = i /\ value'[o] = e.addr
               /\ output'[o] = output[o] /\ entries'[i].state = "LOCKED"
            \/ /\ at'[o] = "done" /\ vdm'[o] = "COMPLETE" /\ output'[o] = e.addr
               /\ hme'[o] = hme[o] /\ entries'[i].state = "PRESENT"
<1>1. TypeOK /\ entries \in [Indexes -> EntryType]
  BY Zenon DEF HashMapInv, TypeOK, EntryType
<1>2. CASE /\ vdm[o] = "IDLE"
           /\ entries' = [entries EXCEPT ![i] = [e EXCEPT !.state = "LOCKED"]]
           /\ vdm' = [vdm EXCEPT ![o] = "RUNNING"]
           /\ hme' = [hme EXCEPT ![o] = i]
           /\ value' = [value EXCEPT ![o] = e.addr]
           /\ at' = [at EXCEPT ![o] = "copy"]
           /\ UNCHANGED output
  BY <1>1, <1>2 DEF TypeOK, EntryType
<1>3. CASE /\ vdm[o] = "COMPLETE"
           /\ entries' = [entries EXCEPT ![i] = [e EXCEPT !.state = "PRESENT"]]
           /\ at' = [at EXCEPT ![o] = "done"]
           /\ output' = [output EXCEPT ![o] = e.addr]
           /\ UNCHANGED <<vdm, hme, value>>
  BY <1>1, <1>3 DEF TypeOK, EntryType
<1> QED
  BY <1>2, <1>3, Zenon DEF Copies

\* Every operation goes through its life as OpInv says.
LEMMA OpStep ==
  ASSUME HashMapInv, [Next]_vars, NEW p \in Ops
  PROVE  OpInv(p)'
<1>0. TypeOK /\ OpInv(p) /\ NULL \notin Indexes
  BY HashMapAssumption, Zenon DEF HashMapInv, Indexes
<1>1. ASSUME NEW o \in Ops, create(o) PROVE OpInv(p)'
  <2>0. PICK what \in {"put", "get", "remove"}, k \in Keys \cup {NULL}, v \in {"IDLE", "COMPLETE"} :
          Chain(o, what, k, v)
    BY <1>1, Zenon DEF create, hashmap_put, hashmap_get_copy, hashmap_remove
  <2>1. CASE p = o
    BY <1>0, <2>0, <2>1, Zenon DEF Chain, OpInv, TypeOK
  <2>2. CASE p # o
    BY <1>0, <2>0, <2>2, Zenon DEF Chain, OpInv, TypeOK
  <2> QED
    BY <2>1, <2>2, Zenon
<1>2. ASSUME NEW o \in Ops, lookup_nothing(o) \/ lookup_spins(o) \/ put_no_memory(o) PROVE OpInv(p)'
  <2>1. CASE lookup_nothing(o)
    BY <1>0, <2>1, Zenon DEF lookup_nothing, call, OpInv, TypeOK
  <2>2. CASE lookup_spins(o)
    BY <1>0, <2>2, Zenon DEF lookup_spins, vars, call, OpInv
  <2>3. CASE put_no_memory(o)
    <3>1. at[o] = "lookup" /\ o \notin rerun /\ ~deleted
      BY <2>3, Locked, Zenon DEF put_no_memory
    <3> QED
      BY <1>0, <2>3, <3>1, Zenon DEF put_no_memory, call, OpInv, TypeOK
  <2> QED
    BY <1>2, <2>1, <2>2, <2>3, Zenon
<1>3. ASSUME NEW o \in Ops, lookup_contended(o) \/ lookup_again(o) PROVE OpInv(p)'
  <2>1. CASE lookup_contended(o)
    BY <1>0, <2>1, PutNotContended, Zenon DEF lookup_contended, call, OpInv
  <2>2. CASE lookup_again(o)
    BY <1>0, <2>2, Zenon DEF lookup_again, call, OpInv
  <2> QED
    BY <1>3, <2>1, <2>2, Zenon
<1>4. ASSUME NEW o \in Ops, put_init(o) \/ put_stale(o) \/ get_start(o) PROVE OpInv(p)'
  <2>1. PICK i \in Locks(o), e \in EntryType : Copies(o, i, e)
    <3>1. CASE put_init(o)
      <4>1. [key |-> key[o], addr |-> o, state |-> "LOCKED"] \in EntryType
        BY <1>0, Zenon DEF TypeOK, EntryType
      <4> QED
        BY <3>1, <4>1, Zenon DEF put_init
    <3>2. CASE put_stale(o) \/ get_start(o)
      <4>1. PICK i \in Locks(o) : Copies(o, i, entries[i])
        BY <3>2, Zenon DEF put_stale, get_start
      <4>2. entries[i] \in EntryType
        BY <1>0, Locked DEF TypeOK, EntryType
      <4> QED
        BY <4>1, <4>2, Zenon
    <3> QED
      BY <1>4, <3>1, <3>2, Zenon
  <2>2. kind[o] \in {"put", "get"} /\ UNCHANGED <<kind, rerun, deleted>>
    BY <1>4, Zenon DEF put_init, put_stale, get_start, call
  <2>3. i \in Indexes /\ at[o] = "lookup" /\ o \notin rerun /\ ~deleted /\ hme[o] = NULL /\ output[o] = NULL
    BY Locked, Zenon
  <2>4. i # NULL
    BY <1>0, <2>3, Zenon
  <2>5. CASE p = o
    BY <2>1, <2>2, <2>3, <2>4, <2>5, Copying DEF OpInv
  <2>6. CASE p # o
    <3>1. vdm'[p] = vdm[p] /\ at'[p] = at[p] /\ hme'[p] = hme[p] /\ output'[p] = output[p]
      BY <2>1, <2>3, <2>6, Copying
    <3> QED
      BY <1>0, <2>2, <3>1, Zenon DEF OpInv
  <2> QED
    BY <2>5, <2>6, Zenon
<1>5. ASSUME NEW o \in Ops, remove_fini(o) PROVE OpInv(p)'
  <2>1. at[o] = "lookup" /\ o \notin rerun /\ ~deleted /\ kind[o] = "remove"
    BY <1>5, Locked, Zenon DEF remove_fini
  <2> QED
    BY <1>0, <1>5, <2>1, Zenon DEF remove_fini, call, OpInv, TypeOK
<1>6. ASSUME NEW o \in Ops, mover_copies(o) PROVE OpInv(p)'
  BY <1>0, <1>6, Zenon DEF mover_copies, call, OpInv, TypeOK
<1>7. ASSUME NEW o \in Ops, set_state(o) PROVE OpInv(p)'
  BY <1>0, <1>7, Zenon DEF set_state, call, OpInv, TypeOK
<1>8. CASE hashmap_delete
  BY <1>0, <1>8, Zenon DEF hashmap_delete, call, OpInv
<1>9. CASE UNCHANGED vars
  BY <1>0, <1>9, Zenon DEF vars, call, OpInv
<1> QED
  BY <1>1, <1>2, <1>3, <1>4, <1>5, <1>6, <1>7, <1>8, <1>9, Zenon
     DEF Next, poll, Terminated

-----------------------------------------------------------------------------
\* The puts and the removes that AnswersAddUp counts.
Puts == {o \in Ops : kind[o] = "put" /\ (at[o] = "copy" \/ output[o] # NULL)}
Removes == {o \in Ops : kind[o] = "remove" /\ output[o] # NULL}

\* An entry stays reachable as long as no entry becomes empty.
LEMMA ReachKept ==
  ASSUME TypeOK, NEW i \in Indexes, Reachable(i), entries[i].key \in Keys,
         hash' = hash, entries'[i].key = entries[i].key,
         \A j \in Indexes : hashmap_entry_empty(entries[j])' => hashmap_entry_empty(entries[j])
  PROVE  Reachable(i)'
<1> DEFINE k == entries[i].key
<1>1. PICK d \in Indexes :
        /\ Probe(k, d) = i
        /\ \A j \in 0..d-1 : ~hashmap_entry_empty(entries[Probe(k, j)])
  BY Zenon DEF Reachable
<1>2. \A j \in Indexes : (hash'[k] + j) % Capacity = Probe(k, j)
  BY Zenon DEF Probe
<1>3. ASSUME NEW j \in 0..d-1 PROVE ~hashmap_entry_empty(entries[Probe(k, j)])'
  <2>1. j \in Indexes
    BY <1>3, HashMapAssumption DEF Indexes
  <2>2. Probe(k, j) \in Indexes
    BY <2>1, ProbeInside, Zenon
  <2> QED
    BY <1>1, <1>3, <2>1, <2>2, Zenon DEF Probe
<1> QED
  BY <1>1, <1>3, Zenon DEF Reachable, Probe

\* A step after which every entry has the key and the value it had, and is in
\* use if it was.
LEMMA TableKept ==
  ASSUME HashMapInv, ~stale, hash' = hash, length' = length,
         \A j \in Indexes : /\ entries'[j].key = entries[j].key
                            /\ entries'[j].addr = entries[j].addr
                            /\ entries'[j].state = "UNOCCUPIED" <=> entries[j].state = "UNOCCUPIED",
         \A q \in Ops : at[q] \in {"copy", "done"} => at'[q] \in {"copy", "done"},
         ~deleted' => ~deleted /\ \A q \in Ops : mem[q] \in {"raw", "copied"} => mem'[q] \in {"raw", "copied"},
         \A j \in Occupied : entries'[j].state = "LOCKED" => rerun' # {} \/ \E q \in Ops : hme'[q] = j
  PROVE  /\ \A i \in Occupied' : EntryInv(i)'
         /\ length' = Cardinality(Occupied')
<1>0. TypeOK /\ Stored
  BY Zenon DEF HashMapInv
<1>1. Occupied' = Occupied
  BY Zenon DEF Occupied, hashmap_entry_unoccupied, Indexes
<1>2. \A j \in Indexes : hashmap_entry_empty(entries[j])' => hashmap_entry_empty(entries[j])
  BY Zenon DEF hashmap_entry_empty, hashmap_entry_unoccupied
<1>3. ASSUME NEW i \in Occupied PROVE EntryInv(i)'
  <2>1. EntryInv(i) /\ i \in Indexes
    BY <1>0, Zenon DEF Stored, Occupied
  <2>2. Reachable(i)'
    BY <1>0, <1>2, <2>1, ReachKept, Zenon DEF EntryInv
  <2>3. \A j \in Occupied : j \in Indexes
    BY Zenon DEF Occupied
  <2> QED
    BY <1>1, <2>1, <2>2, <2>3 DEF EntryInv
<1> QED
  BY <1>0, <1>1, <1>3, Zenon DEF Stored

\* A step that changes neither the answers nor length.
LEMMA AnswersKept ==
  ASSUME HashMapInv, ~stale, length' = length,
         \A q \in Ops : (q \in Puts' <=> q \in Puts) /\ (q \in Removes' <=> q \in Removes)
  PROVE  AnswersAddUp'
<1>1. AnswersAddUp
  BY Zenon DEF HashMapInv, Stored
<1>2. Puts' = Puts /\ Removes' = Removes
  BY Zenon DEF Puts, Removes
<1> QED
  BY <1>1, <1>2, Zenon DEF AnswersAddUp, Puts, Removes

\* A step that leaves the table, and what operations have locked in it, alone.
LEMMA QuietKept ==
  ASSUME HashMapInv, ~stale, UNCHANGED <<hash, entries, length, hme, value>>,
         rerun \subseteq rerun',
         \A q \in Ops : /\ at[q] \in {"copy", "done"} => at'[q] \in {"copy", "done"}
                        /\ at'[q] = "copy" <=> at[q] = "copy"
                        /\ q \in Puts' <=> q \in Puts
                        /\ q \in Removes' <=> q \in Removes,
         ~deleted' => ~deleted /\ \A q \in Ops : mem[q] \in {"raw", "copied"} => mem'[q] \in {"raw", "copied"}
  PROVE  Stored'
<1>0. Stored
  BY Zenon DEF HashMapInv
<1>1. \A p \in Ops : CopyInv(p)'
  BY <1>0, Zenon DEF Stored, CopyInv
<1>2. \A j \in Occupied : entries'[j].state = "LOCKED" => rerun' # {} \/ \E q \in Ops : hme'[q] = j
  BY <1>0 DEF Stored, EntryInv
<1>3. (\A i \in Occupied' : EntryInv(i)') /\ length' = Cardinality(Occupied')
  BY <1>2, TableKept, Zenon
<1>4. AnswersAddUp'
  BY AnswersKept, Zenon
<1> QED
  BY <1>1, <1>3, <1>4, Zenon DEF Stored

\* The steps that leave the table alone.
LEMMA QuietStep ==
  ASSUME HashMapInv, ~stale,
         \/ \E o \in Ops : \/ create(o) \/ lookup_nothing(o) \/ lookup_contended(o)
                           \/ lookup_spins(o) \/ put_no_memory(o) \/ mover_copies(o)
         \/ hashmap_delete
         \/ UNCHANGED vars
  PROVE  Stored'
<1>0. TypeOK /\ \A q \in Ops : OpInv(q)
  BY Zenon DEF HashMapInv
<1>1. ASSUME NEW o \in Ops, create(o) PROVE Stored'
  <2>1. PICK what \in {"put", "get", "remove"}, k \in Keys \cup {NULL}, v \in {"IDLE", "COMPLETE"} :
          Chain(o, what, k, v)
    BY <1>1, Zenon DEF create, hashmap_put, hashmap_get_copy, hashmap_remove
  <2>2. /\ UNCHANGED <<hash, entries, length, hme, value, rerun, mem, deleted, output>>
        /\ at[o] = "none" /\ at'[o] = "lookup"
        /\ \A q \in Ops \ {o} : at'[q] = at[q] /\ kind'[q] = kind[q]
    BY <1>0, <2>1, Zenon DEF Chain, table, TypeOK
  <2>3. output[o] = NULL
    BY <1>0, <2>2, Zenon DEF OpInv
  <2>4. \A q \in Ops : /\ at[q] \in {"copy", "done"} => at'[q] \in {"copy", "done"}
                       /\ at'[q] = "copy" <=> at[q] = "copy"
                       /\ q \in Puts' <=> q \in Puts
                       /\ q \in Removes' <=> q \in Removes
    BY <2>2, <2>3, Zenon DEF Puts, Removes
  <2> QED
    BY <2>2, <2>4, QuietKept, Zenon
<1>2. ASSUME NEW o \in Ops, lookup_nothing(o) \/ put_no_memory(o) PROVE Stored'
  <2>1. /\ UNCHANGED <<hash, entries, length, hme, value, rerun, mem, deleted, output, kind>>
        /\ at[o] = "lookup" /\ at'[o] = "done"
        /\ \A q \in Ops \ {o} : at'[q] = at[q]
    <3>1. at[o] = "lookup"
      BY <1>2, Locked, Zenon DEF lookup_nothing, put_no_memory
    <3> QED
      BY <1>0, <1>2, <3>1, ZenonT(30) DEF lookup_nothing, put_no_memory, table, call, TypeOK
  <2>2. \A q \in Ops : /\ at[q] \in {"copy", "done"} => at'[q] \in {"copy", "done"}
                       /\ at'[q] = "copy" <=> at[q] = "copy"
                       /\ q \in Puts' <=> q \in Puts
                       /\ q \in Removes' <=> q \in Removes
    BY <2>1, Zenon DEF Puts, Removes
  <2> QED
    BY <2>1, <2>2, QuietKept, Zenon
<1>3. ASSUME NEW o \in Ops, lookup_contended(o) PROVE Stored'
  <2>1. /\ UNCHANGED <<hash, entries, length, hme, value, at, mem, deleted, output, kind>>
        /\ rerun \subseteq rerun'
    BY <1>3, Zenon DEF lookup_contended, table, call
  <2>2. \A q \in Ops : (q \in Puts' <=> q \in Puts) /\ (q \in Removes' <=> q \in Removes)
    BY <2>1, Zenon DEF Puts, Removes
  <2> QED
    BY <2>1, <2>2, QuietKept, Zenon
<1>4. ASSUME NEW o \in Ops, mover_copies(o) PROVE Stored'
  <2>1. UNCHANGED <<hash, entries, length, hme, value, at, rerun, deleted, output, kind>>
    BY <1>4, Zenon DEF mover_copies, call
  <2>2. \A q \in Ops : mem[q] \in {"raw", "copied"} => mem'[q] \in {"raw", "copied"}
    BY <1>0, <1>4, Zenon DEF mover_copies, TypeOK
  <2>3. \A q \in Ops : (q \in Puts' <=> q \in Puts) /\ (q \in Removes' <=> q \in Removes)
    BY <2>1, Zenon DEF Puts, Removes
  <2> QED
    BY <2>1, <2>2, <2>3, QuietKept, Zenon
<1>5. CASE hashmap_delete
  <2>1. UNCHANGED <<hash, entries, length, hme, value, at, rerun, output, kind>> /\ deleted'
    BY <1>5, Zenon DEF hashmap_delete, call
  <2>2. \A q \in Ops : (q \in Puts' <=> q \in Puts) /\ (q \in Removes' <=> q \in Removes)
    BY <2>1, Zenon DEF Puts, Removes
  <2> QED
    BY <2>1, <2>2, QuietKept, Zenon
<1>6. CASE UNCHANGED vars
  <2>1. UNCHANGED <<hash, entries, length, hme, value, at, rerun, mem, deleted, output, kind>>
    BY <1>6, Zenon DEF vars, table, call
  <2>2. \A q \in Ops : (q \in Puts' <=> q \in Puts) /\ (q \in Removes' <=> q \in Removes)
    BY <2>1, Zenon DEF Puts, Removes
  <2> QED
    BY <2>1, <2>2, QuietKept, Zenon
<1> QED
  BY <1>1, <1>2, <1>3, <1>4, <1>5, <1>6, Zenon DEF lookup_spins

\* An entry that a copy has locked is no other operation's to lock.
LEMMA NotCopied ==
  ASSUME HashMapInv, ~stale, NEW i \in Indexes, entries[i].state # "LOCKED", NEW q \in Ops
  PROVE  hme[q] # i
<1>1. OpInv(q) /\ CopyInv(q)
  BY Zenon DEF HashMapInv, Stored
<1>2. i # NULL
  BY HashMapAssumption, Zenon DEF Indexes
<1> QED
  BY <1>1, <1>2, Zenon DEF OpInv, CopyInv

\* A re-run locks the entry again and leaves it so.
LEMMA AgainStep ==
  ASSUME HashMapInv, ~stale, NEW o \in Ops, lookup_again(o)
  PROVE  Stored'
<1>0. TypeOK /\ Stored /\ OpInv(o)
  BY Zenon DEF HashMapInv
<1>1. PICK i \in LookupFinds(o) :
        /\ i # -1 /\ entries[i].state = Sought(o)
        /\ entries' = [entries EXCEPT ![i].state = "LOCKED"]
  BY Zenon DEF lookup_again
<1>2. /\ o \in rerun /\ kind[o] # "put"
      /\ UNCHANGED <<hash, length, mem, kind, at, hme, value, rerun, output, deleted>>
  BY <1>0, Zenon DEF lookup_again, call, OpInv
<1>3. i = hashmap_entry_lookup(key[o], "PRESENT") /\ key[o] \in Keys /\ entries[i].state = "PRESENT"
  BY <1>0, <1>1, <1>2, Zenon DEF LookupFinds, LookupFails, Sought, TypeOK
<1>4. i \in Indexes
  BY <1>0, <1>1, <1>3, LookupUsed, Zenon
<1>5. /\ \A j \in Indexes \ {i} : entries'[j] = entries[j]
      /\ entries'[i].key = entries[i].key /\ entries'[i].addr = entries[i].addr
      /\ entries'[i].state = "LOCKED"
  BY <1>0, <1>1, <1>4 DEF TypeOK
<1>6. ASSUME NEW p \in Ops PROVE CopyInv(p)'
  <2>1. hme[p] # i /\ CopyInv(p) /\ hme[p] \in Indexes \cup {NULL} /\ OpInv(p)
    BY <1>0, <1>3, <1>4, NotCopied, Zenon DEF Stored, TypeOK, HashMapInv
  <2> QED
    BY <1>2, <1>5, <2>1, Zenon DEF CopyInv, OpInv
<1>7. (\A j \in Occupied' : EntryInv(j)') /\ length' = Cardinality(Occupied')
  <2>1. \A j \in Indexes : /\ entries'[j].key = entries[j].key
                           /\ entries'[j].addr = entries[j].addr
                           /\ entries'[j].state = "UNOCCUPIED" <=> entries[j].state = "UNOCCUPIED"
    BY <1>3, <1>5, Zenon
  <2> QED
    BY <1>2, <2>1, TableKept, Zenon
<1>8. AnswersAddUp'
  <2>1. \A q \in Ops : (q \in Puts' <=> q \in Puts) /\ (q \in Removes' <=> q \in Removes)
    BY <1>2, Zenon DEF Puts, Removes
  <2> QED
    BY <1>2, <2>1, AnswersKept, Zenon
<1> QED
  BY <1>6, <1>7, <1>8, Zenon DEF Stored

\* A get locks a present entry for its copy, or needs no copy.
LEMMA GetStep ==
  ASSUME HashMapInv, ~stale, NEW o \in Ops, get_start(o)
  PROVE  Stored'
<1>0. TypeOK /\ Stored /\ \A q \in Ops : OpInv(q)
  BY Zenon DEF HashMapInv
<1>1. PICK i \in Locks(o) : Copies(o, i, entries[i])
  BY Zenon DEF get_start
<1>2. /\ kind[o] = "get"
      /\ UNCHANGED <<hash, length, mem, kind, rerun, deleted>>
  BY Zenon DEF get_start, call
<1>3. /\ i \in Indexes /\ entries[i].state = "PRESENT"
      /\ at[o] = "lookup" /\ hme[o] = NULL /\ i # NULL
  BY <1>2, Locked, HashMapAssumption, Zenon DEF Indexes
<1>4. entries[i] \in EntryType
  BY <1>0, <1>3, Zenon DEF TypeOK, EntryType
<1>5. /\ \A p \in Ops \ {o} : /\ at'[p] = at[p] /\ hme'[p] = hme[p]
                              /\ value'[p] = value[p] /\ output'[p] = output[p]
      /\ \A j \in Indexes \ {i} : entries'[j] = entries[j]
      /\ entries'[i].key = entries[i].key /\ entries'[i].addr = entries[i].addr
      /\ \/ /\ at'[o] = "copy" /\ hme'[o] = i /\ value'[o] = entries[i].addr
            /\ entries'[i].state = "LOCKED"
         \/ at'[o] = "done" /\ hme'[o] = NULL /\ entries'[i].state = "PRESENT"
  BY <1>1, <1>3, <1>4, Copying
<1>6. ASSUME NEW p \in Ops PROVE CopyInv(p)'
  <2>1. \A q \in Ops : hme[q] # i
    BY <1>3, NotCopied, Zenon
  <2>2. CASE p = o
    BY <1>5, <2>1, <2>2, Zenon DEF CopyInv
  <2>3. CASE p # o
    <3>1. CopyInv(p) /\ OpInv(p) /\ hme[p] \in Indexes \cup {NULL}
      BY <1>0, Zenon DEF Stored, TypeOK
    <3> SUFFICES ASSUME at'[p] = "copy"
                 PROVE  /\ entries'[hme'[p]].state = "LOCKED"
                        /\ entries'[hme'[p]].addr = value'[p]
                        /\ \A q \in Ops : q # p => hme'[q] # hme'[p]
      BY Zenon DEF CopyInv
    <3>2. hme'[p] = hme[p] /\ hme[p] \in Indexes \ {i} /\ hme[p] # NULL /\ CopyInv(p) /\ at[p] = "copy"
      BY <1>5, <2>1, <2>3, <3>1, Zenon DEF OpInv
    <3>3. \A q \in Ops : q # p => hme'[q] # hme'[p]
      BY <1>5, <3>2, Zenon DEF CopyInv
    <3> QED
      BY <1>5, <2>3, <3>2, <3>3, Zenon DEF CopyInv
  <2> QED
    BY <2>2, <2>3, Zenon
<1>7. (\A j \in Occupied' : EntryInv(j)') /\ length' = Cardinality(Occupied')
  <2>1. \A j \in Indexes : /\ entries'[j].key = entries[j].key
                           /\ entries'[j].addr = entries[j].addr
                           /\ entries'[j].state = "UNOCCUPIED" <=> entries[j].state = "UNOCCUPIED"
    BY <1>3, <1>5, Zenon
  <2>2. \A q \in Ops : at[q] \in {"copy", "done"} => at'[q] \in {"copy", "done"}
    BY <1>3, <1>5, Zenon
  <2>3. ASSUME NEW j \in Occupied, entries'[j].state = "LOCKED"
        PROVE  rerun' # {} \/ \E q \in Ops : hme'[q] = j
    <3>1. j \in Indexes /\ EntryInv(j) /\ j # NULL
      BY <1>0, HashMapAssumption, Zenon DEF Stored, Occupied, Indexes
    <3>2. CASE j = i
      BY <1>5, <2>3, <3>2, Zenon
    <3>3. CASE j # i
      BY <1>2, <1>3, <1>5, <2>3, <3>1, <3>3, Zenon DEF EntryInv
    <3> QED
      BY <3>2, <3>3, Zenon
  <2> QED
    BY <1>2, <2>1, <2>2, <2>3, TableKept, Zenon
<1>8. AnswersAddUp'
  <2>1. \A q \in Ops : (q \in Puts' <=> q \in Puts) /\ (q \in Removes' <=> q \in Removes)
    BY <1>2, <1>5, Zenon DEF Puts, Removes
  <2> QED
    BY <1>2, <2>1, AnswersKept, Zenon
<1> QED
  BY <1>6, <1>7, <1>8, Zenon DEF Stored

\* The poll after the copy releases the entry, and answers with its value.
LEMMA SetStateStep ==
  ASSUME HashMapInv, ~stale, NEW o \in Ops, set_state(o)
  PROVE  Stored'
<1>0. TypeOK /\ Stored /\ \A q \in Ops : OpInv(q)
  BY Zenon DEF HashMapInv
<1>1. at[o] = "copy" /\ hme[o] # NULL /\ kind[o] \in {"put", "get"}
  BY <1>0, Zenon DEF set_state, OpInv
<1>2. PICK i \in Indexes : i = hme[o]
  BY <1>0, <1>1, Zenon DEF TypeOK
<1>3. /\ entries[i].state = "LOCKED" /\ i # NULL
      /\ \A q \in Ops \ {o} : hme[q] # i
  BY <1>0, <1>1, <1>2, Zenon DEF Stored, CopyInv
<1>4. i \in Occupied
  BY <1>3, Zenon DEF Occupied, hashmap_entry_unoccupied
<1>5. entries[i].addr \in Ops /\ entries[i].addr # NULL
  BY <1>0, <1>4, HashMapAssumption DEF Stored, EntryInv
<1>6. /\ UNCHANGED <<hash, length, mem, kind, rerun, deleted>>
      /\ \A p \in Ops \ {o} : /\ at'[p] = at[p] /\ hme'[p] = hme[p]
                              /\ value'[p] = value[p] /\ output'[p] = output[p]
      /\ at'[o] = "done" /\ hme'[o] = NULL /\ output'[o] = entries[i].addr
  BY <1>0, <1>2, <1>3, Zenon DEF set_state, call, TypeOK
<1>7. /\ \A j \in Indexes \ {i} : entries'[j] = entries[j]
      /\ entries'[i].key = entries[i].key /\ entries'[i].addr = entries[i].addr
      /\ entries'[i].state = "PRESENT"
  BY <1>0, <1>2, <1>3, ZenonT(30) DEF set_state, TypeOK
<1>8. ASSUME NEW p \in Ops PROVE CopyInv(p)'
  <2> SUFFICES ASSUME at'[p] = "copy"
               PROVE  /\ entries'[hme'[p]].state = "LOCKED"
                      /\ entries'[hme'[p]].addr = value'[p]
                      /\ \A q \in Ops : q # p => hme'[q] # hme'[p]
    BY Zenon DEF CopyInv
  <2>1. p # o /\ at[p] = "copy" /\ hme'[p] = hme[p] /\ value'[p] = value[p]
    BY <1>6, Zenon
  <2>2. CopyInv(p) /\ hme[p] # NULL /\ hme[p] \in Indexes \ {i}
    BY <1>0, <1>3, <2>1, Zenon DEF Stored, TypeOK, OpInv
  <2>3. \A q \in Ops : q # p => hme'[q] # hme'[p]
    BY <1>6, <2>1, <2>2, Zenon DEF CopyInv
  <2> QED
    BY <1>7, <2>1, <2>2, <2>3, Zenon DEF CopyInv
<1>9. (\A j \in Occupied' : EntryInv(j)') /\ length' = Cardinality(Occupied')
  <2>1. \A j \in Indexes : /\ entries'[j].key = entries[j].key
                           /\ entries'[j].addr = entries[j].addr
                           /\ entries'[j].state = "UNOCCUPIED" <=> entries[j].state = "UNOCCUPIED"
    BY <1>3, <1>7, Zenon
  <2>2. \A q \in Ops : at[q] \in {"copy", "done"} => at'[q] \in {"copy", "done"}
    BY <1>6, Zenon
  <2>3. ASSUME NEW j \in Occupied, entries'[j].state = "LOCKED"
        PROVE  rerun' # {} \/ \E q \in Ops : hme'[q] = j
    <3>1. j \in Indexes \ {i} /\ EntryInv(j)
      BY <1>0, <1>7, <2>3, Zenon DEF Stored, Occupied
    <3> QED
      BY <1>2, <1>6, <1>7, <2>3, <3>1, Zenon DEF EntryInv
  <2> QED
    BY <1>6, <2>1, <2>2, <2>3, TableKept, Zenon
<1>10. AnswersAddUp'
  <2>1. \A q \in Ops : (q \in Puts' <=> q \in Puts) /\ (q \in Removes' <=> q \in Removes)
    BY <1>1, <1>5, <1>6, Zenon DEF Puts, Removes
  <2> QED
    BY <1>6, <2>1, AnswersKept, Zenon
<1> QED
  BY <1>8, <1>9, <1>10, Zenon DEF Stored

\* Finite sets whose sizes the invariant counts.
LEMMA Finite ==
  /\ IsFiniteSet(Occupied) /\ Cardinality(Occupied) \in Nat /\ Cardinality(Occupied) <= Capacity
  /\ IsFiniteSet(Puts) /\ Cardinality(Puts) \in Nat
  /\ IsFiniteSet(Removes) /\ Cardinality(Removes) \in Nat
<1>1. IsFiniteSet(Indexes) /\ Cardinality(Indexes) = Capacity
  BY FS_Interval, HashMapAssumption DEF Indexes
<1>2. Occupied \subseteq Indexes /\ Puts \subseteq Ops /\ Removes \subseteq Ops
  BY Zenon DEF Occupied, Puts, Removes
<1>3. IsFiniteSet(Occupied) /\ Cardinality(Occupied) <= Capacity
  BY <1>1, <1>2, FS_Subset, Zenon
<1>4. IsFiniteSet(Puts) /\ IsFiniteSet(Removes)
  BY <1>2, FS_Subset, HashMapAssumption, Zenon
<1> QED
  BY <1>3, <1>4, FS_CardinalityType, Zenon

\* A put takes an unoccupied entry: one more entry, one more put.
LEMMA PutStep ==
  ASSUME HashMapInv, ~stale, NEW o \in Ops, put_init(o)
  PROVE  Stored'
<1> DEFINE e == [key |-> key[o], addr |-> o, state |-> "LOCKED"]
<1>0. TypeOK /\ Stored /\ \A q \in Ops : OpInv(q)
  BY Zenon DEF HashMapInv
<1>1. PICK i \in Locks(o) : Copies(o, i, e)
  BY Zenon DEF put_init
<1>2. /\ kind[o] = "put" /\ UNCHANGED <<hash, kind, rerun, deleted>>
      /\ length' = (length + 1) % SizeSpace
      /\ mem'[o] = "raw" /\ \A q \in Ops \ {o} : mem'[q] = mem[q]
  BY <1>0, Zenon DEF put_init, call, TypeOK
<1>3. /\ i \in Indexes /\ entries[i].state = "UNOCCUPIED" /\ key[o] \in Keys
      /\ at[o] = "lookup" /\ hme[o] = NULL /\ output[o] = NULL /\ length # Capacity
      /\ \A j \in Occupied : entries[j].key # key[o]
  BY <1>2, Locked, Zenon
<1>4. PICK d \in Indexes : /\ Probe(key[o], d) = i
                           /\ \A j \in 0..d-1 : entries[Probe(key[o], j)].state # "UNOCCUPIED"
  BY <1>1, <1>2, Locked, Zenon
<1>5. e \in EntryType /\ e.key = key[o] /\ e.addr = o
  BY <1>3, Zenon DEF EntryType
<1> HIDE DEF e
<1>6. /\ \A p \in Ops \ {o} : /\ at'[p] = at[p] /\ hme'[p] = hme[p]
                              /\ value'[p] = value[p] /\ output'[p] = output[p]
      /\ \A j \in Indexes \ {i} : entries'[j] = entries[j]
      /\ entries'[i].key = key[o] /\ entries'[i].addr = o
      /\ \/ /\ at'[o] = "copy" /\ hme'[o] = i /\ value'[o] = o
            /\ entries'[i].state = "LOCKED"
         \/ at'[o] = "done" /\ hme'[o] = NULL /\ output'[o] = o /\ entries'[i].state = "PRESENT"
  BY <1>1, <1>3, <1>5, Copying
<1>7. i # NULL /\ o # NULL /\ i \notin Occupied /\ \A q \in Ops : hme[q] # i
  BY <1>3, NotCopied, HashMapAssumption, Zenon DEF Indexes, Occupied, hashmap_entry_unoccupied
<1>8. Occupied' = Occupied \cup {i}
  BY <1>3, <1>6 DEF Occupied, hashmap_entry_unoccupied, Indexes
<1>9. length' = length + 1 /\ length' = Cardinality(Occupied')
  <2>1. length = Cardinality(Occupied) /\ length \in 0..SizeSpace-1
    BY <1>0, Zenon DEF Stored, TypeOK
  <2>2. length \in Nat /\ length + 1 < SizeSpace
    BY <1>3, <2>1, Finite, HashMapAssumption
  <2>3. (length + 1) % SizeSpace = length + 1
    BY <2>1, <2>2, SizeMod, Zenon
  <2>4. Cardinality(Occupied') = Cardinality(Occupied) + 1
    BY <1>7, <1>8, Finite, FS_AddElement, Zenon
  <2> QED
    BY <1>2, <2>1, <2>3, <2>4, Zenon
<1>10. ASSUME NEW p \in Ops PROVE CopyInv(p)'
  <2>1. CASE p = o
    BY <1>6, <1>7, <2>1, Zenon DEF CopyInv
  <2>2. CASE p # o
    <3> SUFFICES ASSUME at'[p] = "copy"
                 PROVE  /\ entries'[hme'[p]].state = "LOCKED"
                        /\ entries'[hme'[p]].addr = value'[p]
                        /\ \A q \in Ops : q # p => hme'[q] # hme'[p]
      BY Zenon DEF CopyInv
    <3>1. /\ hme'[p] = hme[p] /\ hme[p] \in Indexes \ {i} /\ hme[p] # NULL
          /\ CopyInv(p) /\ at[p] = "copy" /\ value'[p] = value[p]
      BY <1>0, <1>6, <1>7, <2>2 DEF OpInv, Stored, TypeOK
    <3>2. \A q \in Ops : q # p => hme'[q] # hme'[p]
      BY <1>6, <3>1, Zenon DEF CopyInv
    <3> QED
      BY <1>6, <3>1, <3>2, Zenon DEF CopyInv
  <2> QED
    BY <2>1, <2>2, Zenon
<1>11. \A j \in Occupied : /\ j \in Indexes \ {i} /\ EntryInv(j) /\ entries'[j] = entries[j]
                           /\ entries[j].addr \in Ops \ {o}
  BY <1>0, <1>3, <1>6, <1>7, Zenon DEF Stored, Occupied, EntryInv
<1>12. EntryInv(i)'
  <2>1. Reachable(i)'
    <3>1. PICK k \in Keys : k = key[o]
      BY <1>3, Zenon
    <3>2. \A j \in 0..d-1 : ~hashmap_entry_empty(entries'[(hash'[k] + j) % Capacity])
      <4> SUFFICES ASSUME NEW j \in 0..d-1
                   PROVE  ~hashmap_entry_empty(entries'[(hash'[k] + j) % Capacity])
        BY Zenon
      <4>1. j \in Indexes
        BY HashMapAssumption DEF Indexes
      <4>2. Probe(k, j) \in Indexes \ {i} /\ entries[Probe(k, j)].state # "UNOCCUPIED"
        BY <1>0, <1>3, <1>4, <3>1, <4>1, ProbeInside, Zenon
      <4>3. (hash'[k] + j) % Capacity = Probe(k, j)
        BY <1>2, Zenon DEF Probe
      <4> QED
        BY <1>6, <4>2, <4>3, Zenon DEF hashmap_entry_empty, hashmap_entry_unoccupied
    <3>3. (hash'[k] + d) % Capacity = i /\ entries'[i].key = k
      BY <1>2, <1>4, <1>6, <3>1, Zenon DEF Probe
    <3> QED
      BY <3>2, <3>3, Zenon DEF Reachable, Probe
  <2>2. \A j \in Occupied' : entries'[j].key = entries'[i].key \/ entries'[j].addr = entries'[i].addr => j = i
    BY <1>3, <1>6, <1>8, <1>11
  <2>3. at'[o] \in {"copy", "done"} /\ (entries'[i].state = "LOCKED" => \E q \in Ops : hme'[q] = i)
    BY <1>6, Zenon
  <2> QED
    BY <1>2, <1>3, <1>6, <2>1, <2>2, <2>3, Zenon DEF EntryInv
<1>13. ASSUME NEW j \in Occupied PROVE EntryInv(j)'
  <2>1. \A m \in Indexes : hashmap_entry_empty(entries[m])' => hashmap_entry_empty(entries[m])
    BY <1>6, Zenon DEF hashmap_entry_empty, hashmap_entry_unoccupied
  <2>2. Reachable(j)'
    BY <1>0, <1>2, <1>11, <2>1, ReachKept, Zenon DEF EntryInv
  <2>3. \A m \in Occupied' : entries'[m].key = entries'[j].key \/ entries'[m].addr = entries'[j].addr => m = j
    BY <1>3, <1>6, <1>8, <1>11 DEF EntryInv
  <2>4. entries'[j].state = "LOCKED" => rerun' # {} \/ \E q \in Ops : hme'[q] = j
    <3>1. j # NULL
      BY <1>11, HashMapAssumption, Zenon DEF Indexes
    <3> QED
      BY <1>2, <1>3, <1>6, <1>11, <3>1 DEF EntryInv
  <2> QED
    BY <1>2, <1>6, <1>11, <2>2, <2>3, <2>4 DEF EntryInv
<1>14. AnswersAddUp'
  <2>1. Puts' = Puts \cup {o} /\ o \notin Puts
    BY <1>2, <1>3, <1>6, <1>7 DEF Puts
  <2>2. Removes' = Removes
    BY <1>2, <1>6, Zenon DEF Removes
  <2>3. Cardinality(Puts') = Cardinality(Puts) + 1
    BY <2>1, Finite, FS_AddElement, Zenon
  <2>4. length = Cardinality(Puts) - Cardinality(Removes)
    BY <1>0, Zenon DEF Stored, AnswersAddUp, Puts, Removes
  <2>5. length' = Cardinality(Puts') - Cardinality(Removes')
    BY <1>9, <2>2, <2>3, <2>4, Finite
  <2> QED
    BY <2>5, Zenon DEF AnswersAddUp, Puts, Removes
<1> QED
  BY <1>8, <1>9, <1>10, <1>12, <1>13, <1>14, Zenon DEF Stored

\* A remove gives up a present entry, which keeps its key: one entry less, one
\* more remove.
LEMMA RemoveStep ==
  ASSUME HashMapInv, ~stale, NEW o \in Ops, remove_fini(o)
  PROVE  Stored'
<1>0. TypeOK /\ Stored /\ \A q \in Ops : OpInv(q)
  BY Zenon DEF HashMapInv
<1>1. PICK i \in Locks(o) : /\ entries' = [entries EXCEPT ![i].state = "UNOCCUPIED"]
                            /\ mem' = [mem EXCEPT ![entries[i].addr] = "freed"]
  BY Zenon DEF remove_fini
<1>2. /\ kind[o] = "remove" /\ UNCHANGED <<hash, kind, hme, value, rerun, deleted>>
      /\ length' = (length - 1) % SizeSpace
      /\ at'[o] = "done" /\ output'[o] = key[o]
      /\ \A q \in Ops \ {o} : at'[q] = at[q] /\ output'[q] = output[q]
  BY <1>0, Zenon DEF remove_fini, call, TypeOK
<1>3. /\ i \in Indexes /\ entries[i].state = "PRESENT" /\ key[o] \in Keys /\ key[o] # NULL
      /\ at[o] = "lookup" /\ output[o] = NULL
  BY <1>2, Locked, HashMapAssumption, Zenon
<1>4. /\ i \in Occupied /\ EntryInv(i)
      /\ \A q \in Ops : hme[q] # i
  BY <1>0, <1>3, NotCopied, Zenon DEF Occupied, hashmap_entry_unoccupied, Stored
<1>5. /\ \A j \in Indexes \ {i} : entries'[j] = entries[j]
      /\ entries'[i].key = entries[i].key /\ entries'[i].state = "UNOCCUPIED"
      /\ entries[i].key # NULL
      /\ \A q \in Ops \ {entries[i].addr} : mem'[q] = mem[q]
  BY <1>0, <1>1, <1>3, <1>4, HashMapAssumption DEF TypeOK, EntryInv
<1>6. Occupied' = Occupied \ {i}
  BY <1>3, <1>5, Zenon DEF Occupied, hashmap_entry_unoccupied, Indexes
<1>7. length' = length - 1 /\ length' = Cardinality(Occupied')
  <2>1. length = Cardinality(Occupied) /\ length \in 0..SizeSpace-1
    BY <1>0, Zenon DEF Stored, TypeOK
  <2>2. IsFiniteSet(Occupied') /\ Cardinality(Occupied') = Cardinality(Occupied) - 1
    BY <1>4, <1>6, Finite, FS_RemoveElement, Zenon
  <2>3. Cardinality(Occupied') \in Nat
    BY <2>2, FS_CardinalityType, Zenon
  <2>4. length \in 1..SizeSpace-1
    BY <2>1, <2>2, <2>3, Finite, HashMapAssumption
  <2>5. (length - 1) % SizeSpace = length - 1
    BY <2>4, SizeMod, Zenon
  <2> QED
    BY <1>2, <2>1, <2>2, <2>5, Zenon
<1>8. ASSUME NEW p \in Ops PROVE CopyInv(p)'
  <2> SUFFICES ASSUME at'[p] = "copy"
               PROVE  /\ entries'[hme'[p]].state = "LOCKED"
                      /\ entries'[hme'[p]].addr = value'[p]
                      /\ \A q \in Ops : q # p => hme'[q] # hme'[p]
    BY Zenon DEF CopyInv
  <2>1. at[p] = "copy" /\ CopyInv(p) /\ hme[p] \in Indexes \ {i}
    BY <1>0, <1>2, <1>4 DEF Stored, TypeOK, OpInv
  <2> QED
    BY <1>2, <1>5, <2>1, Zenon DEF CopyInv
<1>9. ASSUME NEW j \in Occupied' PROVE EntryInv(j)'
  <2>1. /\ j \in Indexes \ {i} /\ EntryInv(j) /\ entries'[j] = entries[j]
        /\ entries[j].addr \in Ops \ {entries[i].addr}
    BY <1>0, <1>4, <1>5, <1>6, Zenon DEF Stored, Occupied, EntryInv
  <2>2. \A m \in Indexes : hashmap_entry_empty(entries[m])' => hashmap_entry_empty(entries[m])
    BY <1>5, Zenon DEF hashmap_entry_empty, hashmap_entry_unoccupied
  <2>3. Reachable(j)'
    BY <1>0, <1>2, <2>1, <2>2, ReachKept, Zenon DEF EntryInv
  <2>4. \A m \in Occupied' : entries'[m].key = entries'[j].key \/ entries'[m].addr = entries'[j].addr => m = j
    <3>1. \A m \in Occupied' : m \in Occupied /\ entries'[m] = entries[m]
      BY <1>5, <1>6, Zenon DEF Occupied
    <3> QED
      BY <2>1, <3>1, Zenon DEF EntryInv
  <2>5. at'[entries[j].addr] \in {"copy", "done"}
    BY <1>2, <2>1, Zenon DEF EntryInv
  <2> QED
    BY <1>2, <1>5, <2>1, <2>3, <2>4, <2>5, ZenonT(30) DEF EntryInv
<1>10. AnswersAddUp'
  <2>1. Removes' = Removes \cup {o} /\ o \notin Removes
    BY <1>2, <1>3, Zenon DEF Removes
  <2>2. Puts' = Puts
    BY <1>2, <1>3, Zenon DEF Puts
  <2>3. Cardinality(Removes') = Cardinality(Removes) + 1
    BY <2>1, Finite, FS_AddElement, Zenon
  <2>4. length = Cardinality(Puts) - Cardinality(Removes)
    BY <1>0, Zenon DEF Stored, AnswersAddUp, Puts, Removes
  <2>5. length' = Cardinality(Puts') - Cardinality(Removes')
    BY <1>7, <2>2, <2>3, <2>4, Finite
  <2> QED
    BY <2>5, Zenon DEF AnswersAddUp, Puts, Removes
<1> QED
  BY <1>7, <1>8, <1>9, <1>10, Zenon DEF Stored

-----------------------------------------------------------------------------
\* Every step keeps the invariant. stale is never reset.
LEMMA HashMapStep ==
  ASSUME HashMapInv, [Next]_vars
  PROVE  HashMapInv'
<1>1. TypeOK' /\ \A p \in Ops : OpInv(p)'
  BY TypeStep, OpStep, Zenon
<1>2. ASSUME ~stale' PROVE Stored'
  <2>1. ASSUME NEW o \in Ops, put_stale(o) PROVE FALSE
    BY <1>2, <2>1, Zenon DEF put_stale
  <2>2. ~stale
    BY <1>2, <2>1, ZenonT(30)
       DEF Next, poll, Terminated, vars, create, hashmap_put, hashmap_get_copy, hashmap_remove, Chain,
           lookup_nothing, lookup_contended, lookup_again, lookup_spins, put_init, put_no_memory,
           get_start, remove_fini, set_state, mover_copies, hashmap_delete
  <2> QED
    BY <2>1, <2>2, QuietStep, AgainStep, GetStep, SetStateStep, PutStep, RemoveStep, Zenon
       DEF Next, poll, Terminated
<1> QED
  BY <1>1, <1>2, Zenon DEF HashMapInv

\* The invariant holds in every state.
THEOREM HashMapAlways == Spec => []HashMapInv
<1>1. Init => HashMapInv
  BY HashMapInit, Zenon
<1>2. HashMapInv /\ [Next]_vars => HashMapInv'
  BY HashMapStep, Zenon
<1> QED
  BY <1>1, <1>2, PTL DEF Spec

\* While a data mover copies a value of the table, no poll of another operation
\* takes the entry or frees the value (hashmap_entry_set_state_impl).
THEOREM CopiesAreProtected == Spec => []CopyProtected
<1>1. HashMapInv => CopyProtected
  <2> SUFFICES ASSUME HashMapInv PROVE CopyProtected
    BY Zenon
  <2>1. ASSUME NEW o \in Ops, at[o] = "copy", ~stale
        PROVE  /\ entries[hme[o]].state = "LOCKED"
               /\ entries[hme[o]].addr = value[o]
               /\ mem[value[o]] \in {"raw", "copied"}
               /\ \A p \in Ops : p # o => hme[p] # hme[o]
    <3>1. TypeOK /\ OpInv(o) /\ CopyInv(o) /\ \A i \in Occupied : EntryInv(i)
      BY <2>1, Zenon DEF HashMapInv, Stored
    <3>2. hme[o] \in Indexes /\ entries[hme[o]].state = "LOCKED" /\ ~deleted
      BY <2>1, <3>1, Zenon DEF OpInv, CopyInv, TypeOK
    <3>3. hme[o] \in Occupied
      BY <3>2, Zenon DEF Occupied, hashmap_entry_unoccupied
    <3> QED
      BY <2>1, <3>1, <3>2, <3>3, Zenon DEF CopyInv, EntryInv
  <2> QED
    BY <2>1, Zenon DEF CopyProtected, HashMapInv
<1> QED
  BY <1>1, HashMapAlways, PTL

\* hashmap_entry_lookup finds every stored key at its only entry, whatever the
\* hash function and however entries were removed and reused.
THEOREM StoredKeysAreFound == Spec => []Findable
<1>1. HashMapInv => Findable
  <2> SUFFICES ASSUME HashMapInv, ~stale, NEW i \in Indexes, entries[i].state # "UNOCCUPIED"
               PROVE  hashmap_entry_lookup(entries[i].key, "PRESENT") = i
    BY Zenon DEF Findable
  <2>1. i \in Occupied
    BY Zenon DEF Occupied, hashmap_entry_unoccupied
  <2>2. TypeOK /\ EntryInv(i)
    BY <2>1, Zenon DEF HashMapInv, Stored
  <2> QED
    BY <2>1, <2>2, LookupFinding, Zenon DEF EntryInv
<1> QED
  BY <1>1, HashMapAlways, PTL

\* length is the number of puts that answered or still copy, less the number of
\* removes that answered (hashmap_entry_init_impl, hashmap_entry_fini_impl).
THEOREM AnswersCountTheMap == Spec => []AnswersAddUp
<1>1. HashMapInv => AnswersAddUp
  BY Zenon DEF HashMapInv, Stored, AnswersAddUp
<1> QED
  BY <1>1, HashMapAlways, PTL

\* A function from S onto T that tells the elements of S apart.
LEMMA SameSize ==
  ASSUME NEW S, IsFiniteSet(S), NEW T, NEW f \in [S -> T],
         \A y \in T : \E x \in S : f[x] = y,
         \A x, y \in S : f[x] = f[y] => x = y
  PROVE  Cardinality(T) = Cardinality(S)
<1>1. f \in Bijection(S, T)
  BY Zenon DEF Bijection, Injection, Surjection, IsInjective
<1> QED
  BY <1>1, FS_Bijection, Zenon DEF ExistsBijection

\* When no operation is pending, no entry is locked, and hashmap_foreach visits
\* length entries with different keys and live values.
THEOREM QuietMapIsConsistent == Spec => []Quiescent
<1>1. HashMapInv => Quiescent
  <2> SUFFICES ASSUME HashMapInv, ~stale, ~deleted, \A o \in Ops : at[o] \in {"none", "done"}
               PROVE  /\ \A i \in Indexes : entries[i].state # "LOCKED"
                      /\ \A e \in hashmap_foreach : mem[e.value] \in {"raw", "copied"}
                      /\ length = Cardinality(hashmap_foreach)
                      /\ length = Cardinality({e.key : e \in hashmap_foreach})
    BY Zenon DEF Quiescent
  <2>1. TypeOK /\ (\A o \in Ops : OpInv(o)) /\ (\A i \in Occupied : EntryInv(i)) /\ length = Cardinality(Occupied)
    BY Zenon DEF HashMapInv, Stored
  <2>2. ASSUME NEW i \in Indexes, entries[i].state = "LOCKED" PROVE FALSE
    <3>1. i \in Occupied /\ i # NULL
      BY <2>2, HashMapAssumption, Zenon DEF Occupied, hashmap_entry_unoccupied, Indexes
    <3>2. rerun # {} \/ \E o \in Ops : hme[o] = i
      BY <2>1, <2>2, <3>1, Zenon DEF EntryInv
    <3> QED
      BY <2>1, <3>1, <3>2, Zenon DEF OpInv, TypeOK
  <2>3. hashmap_foreach = {[key |-> entries[i].key, value |-> entries[i].addr] : i \in Occupied}
    BY Zenon DEF hashmap_foreach, Occupied
  <2>4. \A e \in hashmap_foreach : mem[e.value] \in {"raw", "copied"}
    BY <2>1, <2>3 DEF EntryInv
  <2>5. Cardinality(hashmap_foreach) = Cardinality(Occupied)
    <3> DEFINE f == [i \in Occupied |-> [key |-> entries[i].key, value |-> entries[i].addr]]
    <3>1. f \in [Occupied -> hashmap_foreach] /\ \A y \in hashmap_foreach : \E x \in Occupied : f[x] = y
      BY <2>3, Zenon
    <3>2. \A x, y \in Occupied : f[x] = f[y] => x = y
      <4> SUFFICES ASSUME NEW x \in Occupied, NEW y \in Occupied, f[x] = f[y] PROVE x = y
        BY Zenon
      <4>1. f[x].key = entries[x].key /\ f[y].key = entries[y].key
        BY Zenon
      <4> QED
        BY <2>1, <4>1 DEF EntryInv
    <3> HIDE DEF f
    <3> QED
      BY <3>1, <3>2, Finite, SameSize, Zenon
  <2>6. Cardinality({e.key : e \in hashmap_foreach}) = Cardinality(Occupied)
    <3> DEFINE T == {e.key : e \in hashmap_foreach}
               f == [i \in Occupied |-> entries[i].key]
    <3>1. T = {entries[i].key : i \in Occupied}
      <4>1. ASSUME NEW i \in Occupied PROVE entries[i].key \in T
        <5>1. PICK e \in hashmap_foreach : e = [key |-> entries[i].key, value |-> entries[i].addr]
          BY <2>3, Zenon
        <5>2. e.key \in T /\ e.key = entries[i].key
          BY <5>1, Zenon
        <5> QED
          BY <5>2, Zenon
      <4>2. ASSUME NEW y \in T PROVE \E i \in Occupied : y = entries[i].key
        <5>1. PICK e \in hashmap_foreach : y = e.key
          BY <4>2, Zenon
        <5>2. PICK i \in Occupied : e = [key |-> entries[i].key, value |-> entries[i].addr]
          BY <2>3, <5>1, Zenon
        <5> QED
          BY <5>1, <5>2, Zenon
      <4> HIDE DEF T
      <4> QED
        BY <4>1, <4>2, Zenon
    <3>2. f \in [Occupied -> T] /\ \A y \in T : \E x \in Occupied : f[x] = y
      BY <3>1, Zenon
    <3>3. \A x, y \in Occupied : f[x] = f[y] => x = y
      BY <2>1, ZenonT(30) DEF EntryInv
    <3> HIDE DEF f, T
    <3>4. Cardinality(T) = Cardinality(Occupied)
      BY <3>2, <3>3, Finite, SameSize, Zenon
    <3> QED
      BY <3>4, Zenon DEF T
  <2> QED
    BY <2>1, <2>2, <2>4, <2>5, <2>6, Zenon
<1> QED
  BY <1>1, HashMapAlways, PTL
=============================================================================
