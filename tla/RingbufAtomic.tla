---------------------------- MODULE RingbufAtomic ----------------------------
(***************************************************************************)
(* The ring buffer's operations appear atomic to the data mover: an        *)
(* enqueue takes effect when it takes the free token, a dequeue when it    *)
(* gives the token back.                                                   *)
(***************************************************************************)
EXTENDS Ringbuf

\* An element is carried by a producer, lies in a slot, or is in the hands of
\* a consumer that has not given the token back.
Offering(S) == {p \in Producers : Offered[p] \in S}
Stored(S) == {s \in Slots : data[s] \in S}
Taken(S) == {c \in Consumers : Got[c] \in S}
Copies(S) == Cardinality(Offering(S)) + Cardinality(Stored(S)) + Cardinality(Taken(S))

Queue == INSTANCE QueueBag WITH
  contents <- [d \in Data |-> Copies({d})],
  size <- Copies(Data),
  rejected <- At(Producers, {"full"}),
  shut <- ~running

\* ringbuf_enqueue, ringbuf_tryenqueue, ringbuf_dequeue and ringbuf_trydequeue
\* act on the ring as if each happened at one instant: tryenqueue fails only
\* when Len elements are in the ring, and no element is lost or duplicated
\* while several threads meet in one slot.
ImplementsQueue == Queue!QSpec
=============================================================================
