------------------------------- MODULE HashMap -------------------------------
(***************************************************************************)
(* The hash map of examples/hashmap/hashmap.c: an open-addressing table    *)
(* whose operations are chained futures. One thread polls any number of    *)
(* them in any order. A poll runs through the entries of a chain until it  *)
(* meets one that is not complete, that is the copy a data mover performs, *)
(* or the re-run of the lookup. In between the table is used by the polls  *)
(* of other operations, so an operation keeps its table entry LOCKED.      *)
(*                                                                         *)
(* A copy that finishes while it is being started is seen by the poll that *)
(* started it; here by the next poll, which may follow at once.            *)
(***************************************************************************)
EXTENDS Integers, FiniteSets, FiniteSetsExt

CONSTANTS
  Ops,       \* operations, each created at most once; also names the memory a put allocates
  Keys,      \* valid keys
  NULL,      \* also the key 0
  Capacity,
  SizeSpace  \* number of values of a size_t

\* hashmap_key_index divides by capacity - 1.
ASSUME HashMapAssumption ==
  /\ IsFiniteSet(Ops) /\ NULL \notin Ops
  /\ IsFiniteSet(Keys) /\ NULL \notin Keys
  /\ Capacity \in Nat /\ Capacity > 1
  /\ NULL \notin 0..Capacity-1
  /\ SizeSpace \in Nat /\ SizeSpace > Capacity

VARIABLES
  hash,     \* hashmap_key_index of every key
  entries,  \* the table
  length,   \* number of entries in use
  mem,      \* memory of values: "none", "raw", "copied", "freed"
  kind, key,\* what an operation was created for
  vdm,      \* state of its copy: "IDLE", "RUNNING", "performed" or "COMPLETE"
  at,       \* the entry of the chain it has reached
  hme,      \* the table entry it has locked for a copy
  value,    \* the memory its copy reads or writes
  rerun,    \* its chain_entries_rerun future was made to re-run the lookup
  output,   \* what it answers: the value put or copied, the key removed, or NULL
  stale,    \* history: malloc failed for an entry that had held a value before
  deleted

table == <<entries, length, mem>>
call == <<kind, key>>
vars == <<hash, table, call, vdm, at, hme, value, rerun, output, stale, deleted>>

Indexes == 0..Capacity-1
Empty == [key |-> NULL, addr |-> NULL, state |-> "UNOCCUPIED"]

\* hashmap_new; the hash function may be any.
Init ==
  /\ hash \in [Keys -> 0..Capacity-2]
  /\ entries = [i \in Indexes |-> Empty]
  /\ length = 0
  /\ mem = [o \in Ops |-> "none"]
  /\ kind = [o \in Ops |-> "none"]
  /\ key = [o \in Ops |-> NULL]
  /\ vdm = [o \in Ops |-> "IDLE"]
  /\ at = [o \in Ops |-> "none"]
  /\ hme = [o \in Ops |-> NULL]
  /\ value = [o \in Ops |-> NULL]
  /\ rerun = {}
  /\ output = [o \in Ops |-> NULL]
  /\ stale = FALSE
  /\ deleted = FALSE

-----------------------------------------------------------------------------
hashmap_entry_unoccupied(e) == e.state = "UNOCCUPIED"
hashmap_entry_empty(e) == hashmap_entry_unoccupied(e) /\ e.key = NULL
hashmap_entry_deleted(e) == hashmap_entry_unoccupied(e) /\ e.key # NULL

\* The i-th entry that the lookup of k looks at.
Probe(k, i) == (hash[k] + i) % Capacity

\* Does the lookup of k end at entry e?
Ends(e, k, state) ==
  IF state = "UNOCCUPIED"
    THEN hashmap_entry_unoccupied(e)
    ELSE hashmap_entry_empty(e) \/ (~hashmap_entry_deleted(e) /\ e.key = k)

\* Mutant of hashmap_entry_lookup: a deleted entry ends the search.
hashmap_entry_lookup_gap(k, state) ==
  LET ends == {i \in Indexes : \/ hashmap_entry_unoccupied(entries[Probe(k, i)])
                               \/ Ends(entries[Probe(k, i)], k, state)} IN
  IF ends = {} \/ (state = "PRESENT" /\ hashmap_entry_unoccupied(entries[Probe(k, Min(ends))]))
    THEN -1
    ELSE Probe(k, Min(ends))

\* The first entry at which the search ends, -1 when there is none or, in the
\* search for a key, when that entry is empty. Whether the entry with the key
\* is LOCKED plays no role.
hashmap_entry_lookup(k, state) ==
  LET ends == {i \in Indexes : Ends(entries[Probe(k, i)], k, state)} IN
  IF ends = {} \/ (state = "PRESENT" /\ hashmap_entry_empty(entries[Probe(k, Min(ends))]))
    THEN -1
    ELSE Probe(k, Min(ends))

-----------------------------------------------------------------------------
\* The chain of an operation, with its copy in state v.
Chain(o, what, k, v) ==
  /\ at[o] = "none" /\ ~deleted
  /\ kind' = [kind EXCEPT ![o] = what]
  /\ key' = [key EXCEPT ![o] = k]
  /\ vdm' = [vdm EXCEPT ![o] = v]
  /\ at' = [at EXCEPT ![o] = "lookup"]
  /\ UNCHANGED <<hash, table, hme, value, rerun, output, stale, deleted>>

\* hashmap_put and hashmap_get_copy create the copy at once; where the mover
\* cannot allocate its data, it is complete from the beginning. hashmap_remove
\* has no copy.
hashmap_put(o, k) == \E v \in {"IDLE", "COMPLETE"} : Chain(o, "put", k, v)
hashmap_get_copy(o, k) == \E v \in {"IDLE", "COMPLETE"} : Chain(o, "get", k, v)
hashmap_remove(o, k) == Chain(o, "remove", k, "COMPLETE")

create(o) == \E k \in Keys \cup {NULL} :
  hashmap_put(o, k) \/ hashmap_get_copy(o, k) \/ hashmap_remove(o, k)

Sought(o) == IF kind[o] = "put" THEN "UNOCCUPIED" ELSE "PRESENT"

\* hashmap_lookup_impl gives up.
LookupFails(o) ==
  \/ key[o] = NULL
  \/ /\ key[o] # NULL
     /\ IF kind[o] = "put"
          THEN length = Capacity \/ hashmap_entry_lookup(key[o], "PRESENT") # -1
          ELSE hashmap_entry_lookup(key[o], "PRESENT") = -1

\* The entry that hashmap_lookup_impl finds, or -1.
LookupFinds(o) == IF LookupFails(o) THEN {} ELSE {hashmap_entry_lookup(key[o], Sought(o))}

\* The poll of hashmap_lookup_lock_entry after a failed lookup: the maps and
\* inits of the entries behind it make them complete, and the chain as well.
lookup_nothing(o) ==
  /\ at[o] = "lookup" /\ o \notin rerun
  /\ LookupFails(o)
  /\ vdm' = [vdm EXCEPT ![o] = "COMPLETE"]
  /\ at' = [at EXCEPT ![o] = "done"]
  /\ UNCHANGED <<hash, table, call, hme, value, rerun, output, stale, deleted>>

\* The compare-and-swap of hashmap_entry_set_state_impl fails. Then
\* chain_entry_rerun_init, which runs once, makes a future that re-runs lookup
\* and set_state in this poll and in every other.
lookup_contended(o) ==
  /\ at[o] = "lookup"
  /\ \E i \in LookupFinds(o) : i # -1 /\ entries[i].state # Sought(o)
  /\ rerun' = rerun \cup {o}
  /\ UNCHANGED <<hash, table, call, vdm, at, hme, value, output, stale, deleted>>

\* The compare-and-swap succeeds in a poll that is a re-run: chain_entries_rerun
\* starts over all the same.
lookup_again(o) ==
  /\ at[o] = "lookup" /\ o \in rerun
  /\ \E i \in LookupFinds(o) :
       /\ i # -1 /\ entries[i].state = Sought(o)
       /\ entries' = [entries EXCEPT ![i].state = "LOCKED"]
  /\ UNCHANGED <<hash, length, mem, call, vdm, at, hme, value, rerun, output, stale, deleted>>

\* The lookup has nothing to find, in a re-run or because every entry is taken
\* although length is smaller: RUNNING.
lookup_spins(o) ==
  /\ at[o] = "lookup"
  /\ \/ o \in rerun /\ LookupFails(o)
     \/ -1 \in LookupFinds(o)
  /\ UNCHANGED vars

\* Mutant of Locks: the compare-and-swap compares nothing.
Locks_blindly(o) == IF at[o] = "lookup" /\ o \notin rerun THEN LookupFinds(o) \ {-1} ELSE {}

\* The entry that is found and can be locked at the first attempt.
Locks(o) ==
  IF at[o] = "lookup" /\ o \notin rerun
    THEN {i \in LookupFinds(o) : i # -1 /\ entries[i].state = Sought(o)}
    ELSE {}

\* The rest of the poll when entry i, with contents e, has a value: the copy is
\* started, or it is complete from the beginning and set_state follows.
Copies(o, i, e) ==
  \/ /\ vdm[o] = "IDLE"
     /\ entries' = [entries EXCEPT ![i] = [e EXCEPT !.state = "LOCKED"]]
     /\ vdm' = [vdm EXCEPT ![o] = "RUNNING"]
     /\ hme' = [hme EXCEPT ![o] = i]
     /\ value' = [value EXCEPT ![o] = e.addr]
     /\ at' = [at EXCEPT ![o] = "copy"]
     /\ UNCHANGED output
  \/ /\ vdm[o] = "COMPLETE"
     /\ entries' = [entries EXCEPT ![i] = [e EXCEPT !.state = "PRESENT"]]
     /\ at' = [at EXCEPT ![o] = "done"]
     /\ output' = [output EXCEPT ![o] = e.addr]
     /\ UNCHANGED <<vdm, hme, value>>

\* hashmap_put: hashmap_entry_init_impl has memory for the value.
put_init(o) ==
  /\ kind[o] = "put"
  /\ \E i \in Locks(o) :
       /\ Copies(o, i, [key |-> key[o], addr |-> o, state |-> "LOCKED"])
  /\ mem' = [mem EXCEPT ![o] = "raw"]
  /\ length' = (length + 1) % SizeSpace
  /\ UNCHANGED <<hash, call, rerun, stale, deleted>>

\* Mutant of put_no_memory: length is increased before malloc.
put_no_memory_counts(o) ==
  /\ kind[o] = "put"
  /\ \E i \in Locks(o) : entries[i].addr = NULL
  /\ vdm' = [vdm EXCEPT ![o] = "COMPLETE"]
  /\ at' = [at EXCEPT ![o] = "done"]
  /\ length' = (length + 1) % SizeSpace
  /\ UNCHANGED <<hash, entries, mem, call, hme, value, rerun, output, stale, deleted>>

\* malloc fails and the entry has no value: nothing is copied and the entry is
\* unoccupied again.
put_no_memory(o) ==
  /\ kind[o] = "put"
  /\ \E i \in Locks(o) : entries[i].addr = NULL
  /\ vdm' = [vdm EXCEPT ![o] = "COMPLETE"]
  /\ at' = [at EXCEPT ![o] = "done"]
  /\ UNCHANGED <<hash, table, call, hme, value, rerun, output, stale, deleted>>

\* malloc fails and the entry still has the pointer to its previous value,
\* which is taken for a new one.
put_stale(o) ==
  /\ kind[o] = "put"
  /\ \E i \in Locks(o) :
       entries[i].addr # NULL /\ Copies(o, i, entries[i])
  /\ stale' = TRUE
  /\ UNCHANGED <<hash, length, mem, call, rerun, deleted>>

\* hashmap_get_copy
get_start(o) ==
  /\ kind[o] = "get"
  /\ \E i \in Locks(o) : Copies(o, i, entries[i])
  /\ UNCHANGED <<hash, length, mem, call, rerun, stale, deleted>>

\* Mutant of remove_fini: length is not decreased.
remove_fini_uncounted(o) ==
  /\ kind[o] = "remove"
  /\ \E i \in Locks(o) :
       /\ entries' = [entries EXCEPT ![i].state = "UNOCCUPIED"]
       /\ mem' = [mem EXCEPT ![entries[i].addr] = "freed"]
  /\ length' = length
  /\ at' = [at EXCEPT ![o] = "done"]
  /\ output' = [output EXCEPT ![o] = key[o]]
  /\ UNCHANGED <<hash, call, vdm, hme, value, rerun, stale, deleted>>

\* hashmap_remove: hashmap_entry_fini_impl and set_state in the same poll. The
\* entry keeps its key and its pointer.
remove_fini(o) ==
  /\ kind[o] = "remove"
  /\ \E i \in Locks(o) :
       /\ entries' = [entries EXCEPT ![i].state = "UNOCCUPIED"]
       /\ mem' = [mem EXCEPT ![entries[i].addr] = "freed"]
  /\ length' = (length - 1) % SizeSpace
  /\ at' = [at EXCEPT ![o] = "done"]
  /\ output' = [output EXCEPT ![o] = key[o]]
  /\ UNCHANGED <<hash, call, vdm, hme, value, rerun, stale, deleted>>

-----------------------------------------------------------------------------
\* A worker of the data mover performs the copy.
mover_copies(o) ==
  /\ vdm[o] = "RUNNING"
  /\ vdm' = [vdm EXCEPT ![o] = "performed"]
  /\ mem' = [mem EXCEPT ![value[o]] =
               IF kind[o] = "put" /\ @ = "raw" THEN "copied" ELSE @]
  /\ UNCHANGED <<hash, entries, length, call, at, hme, value, rerun, output, stale, deleted>>

\* The poll that finds the copy complete, and then sets the state of the entry:
\* set_state_init_for_get, set_state_init_for_put.
set_state(o) ==
  /\ at[o] = "copy" /\ vdm[o] = "performed"
  /\ vdm' = [vdm EXCEPT ![o] = "COMPLETE"]
  /\ entries' = [entries EXCEPT ![hme[o]].state = IF @ = "LOCKED" THEN "PRESENT" ELSE @]
  /\ output' = [output EXCEPT ![o] =
                  IF kind[o] = "put" \/ entries[hme[o]].state = "LOCKED"
                    THEN entries[hme[o]].addr ELSE NULL]
  /\ at' = [at EXCEPT ![o] = "done"]
  /\ hme' = [hme EXCEPT ![o] = NULL]
  /\ value' = [value EXCEPT ![o] = NULL]
  /\ UNCHANGED <<hash, length, mem, call, rerun, stale, deleted>>

\* hashmap_delete, called when every operation has been waited for. The loop
\* over the entries ends at length.
hashmap_delete ==
  /\ ~deleted
  /\ \A o \in Ops : at[o] \in {"none", "done"}
  /\ mem' = [o \in Ops |->
       IF \E i \in Indexes : i < length /\ entries[i].state = "PRESENT" /\ entries[i].addr = o
         THEN "freed" ELSE mem[o]]
  /\ deleted' = TRUE
  /\ UNCHANGED <<hash, entries, length, call, vdm, at, hme, value, rerun, output, stale>>

Terminated == deleted /\ UNCHANGED vars

\* A poll of o. One that finds the copy not complete is not a step.
poll(o) ==
  \/ lookup_nothing(o) \/ lookup_contended(o) \/ lookup_again(o) \/ lookup_spins(o)
  \/ put_init(o) \/ put_no_memory(o) \/ put_stale(o)
  \/ get_start(o) \/ remove_fini(o)
  \/ set_state(o)

Next ==
  \/ \E o \in Ops : create(o) \/ poll(o) \/ mover_copies(o)
  \/ hashmap_delete
  \/ Terminated

Spec == Init /\ [][Next]_vars

-----------------------------------------------------------------------------
\* The type of every variable.
TypeOK ==
  /\ hash \in [Keys -> 0..Capacity-2]
  /\ entries \in [Indexes -> [key : Keys \cup {NULL}, addr : Ops \cup {NULL},
                              state : {"UNOCCUPIED", "LOCKED", "PRESENT"}]]
  /\ length \in 0..SizeSpace-1
  /\ mem \in [Ops -> {"none", "raw", "copied", "freed"}]
  /\ kind \in [Ops -> {"none", "put", "get", "remove"}]
  /\ key \in [Ops -> Keys \cup {NULL}]
  /\ vdm \in [Ops -> {"IDLE", "RUNNING", "performed", "COMPLETE"}]
  /\ at \in [Ops -> {"none", "lookup", "copy", "done"}]
  /\ hme \in [Ops -> Indexes \cup {NULL}]
  /\ value \in [Ops -> Ops \cup {NULL}]
  /\ rerun \subseteq Ops
  /\ output \in [Ops -> Ops \cup Keys \cup {NULL}]
  /\ stale \in BOOLEAN /\ deleted \in BOOLEAN

\* While a mover copies from or to a value, polls of other operations do not
\* take the entry, free the value or start a copy to it: LOCKED protects the
\* copy, even though a lookup finds locked entries as well. (A pointer that
\* outlived its value defeats this.)
CopyProtected ==
  /\ TypeOK
  /\ \A o \in Ops :
       at[o] = "copy" /\ ~stale =>
         /\ entries[hme[o]].state = "LOCKED"
         /\ entries[hme[o]].addr = value[o]
         /\ mem[value[o]] \in {"raw", "copied"}
         /\ \A p \in Ops : p # o => hme[p] # hme[o]

\* Every key that is stored is found by hashmap_entry_lookup, at its only
\* entry, however puts reuse deleted entries in front of it; a put therefore
\* does not store a key twice.
Findable ==
  \A i \in Indexes :
    ~stale /\ entries[i].state # "UNOCCUPIED" =>
      hashmap_entry_lookup(entries[i].key, "PRESENT") = i

\* What hashmap_foreach passes to its callback.
hashmap_foreach ==
  {[key |-> entries[i].key, value |-> entries[i].addr] :
     i \in {j \in Indexes : ~hashmap_entry_unoccupied(entries[j])}}

\* What the caller of a wait relies on: when no operation is pending, no entry
\* is locked, and hashmap_foreach visits as many entries as length says, with
\* different keys and with values that were not freed.
Quiescent ==
  ~stale /\ ~deleted /\ (\A o \in Ops : at[o] \in {"none", "done"}) =>
    /\ \A i \in Indexes : entries[i].state # "LOCKED"
    /\ \A e \in hashmap_foreach : mem[e.value] \in {"raw", "copied"}
    /\ length = Cardinality(hashmap_foreach)
    /\ length = Cardinality({e.key : e \in hashmap_foreach})

\* The answers add up: an operation that answers NULL has not changed the map,
\* one that answers has changed it once. What is in the map are the puts that
\* answered or still copy, less the removes that answered.
AnswersAddUp ==
  ~stale =>
    length = Cardinality({o \in Ops : kind[o] = "put" /\ (at[o] = "copy" \/ output[o] # NULL)})
             - Cardinality({o \in Ops : kind[o] = "remove" /\ output[o] # NULL})
=============================================================================
