------------------------------- MODULE QueueBag -------------------------------
(***************************************************************************)
(* The ring buffer as the data mover sees it: a bag of at most Len         *)
(* elements with atomic operations. An element is in it from the moment    *)
(* the free token is taken until the token is given back, so an enqueue is *)
(* rejected exactly when the bag is full. Nothing enters a closed bag.     *)
(***************************************************************************)
EXTENDS Integers

CONSTANTS Producers, Data, Len

VARIABLES
  contents,   \* how many of each element there are
  size,       \* how many elements there are
  rejected,   \* producers whose last tryenqueue returned -1
  shut

qvars == <<contents, size, rejected, shut>>

QInit ==
  /\ contents = [d \in Data |-> 0]
  /\ size = 0
  /\ rejected = {}
  /\ shut = FALSE

Enqueue(p, d) ==
  /\ ~shut
  /\ size < Len
  /\ contents' = [contents EXCEPT ![d] = @ + 1]
  /\ size' = size + 1
  /\ rejected' = rejected \ {p}
  /\ UNCHANGED shut

Reject(p) ==
  /\ ~shut
  /\ size = Len
  /\ rejected' = rejected \cup {p}
  /\ UNCHANGED <<contents, size, shut>>

Dequeue(d) ==
  /\ contents[d] > 0
  /\ contents' = [contents EXCEPT ![d] = @ - 1]
  /\ size' = size - 1
  /\ UNCHANGED <<rejected, shut>>

Shut ==
  /\ ~shut
  /\ shut' = TRUE
  /\ UNCHANGED <<contents, size, rejected>>

QNext ==
  \/ \E p \in Producers, d \in Data : Enqueue(p, d)
  \/ \E p \in Producers : Reject(p)
  \/ \E d \in Data : Dequeue(d)
  \/ Shut

QSpec == QInit /\ [][QNext]_qvars
=============================================================================
