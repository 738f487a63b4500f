--------------------------- MODULE RingbufInvariant ---------------------------
(***************************************************************************)
(* The inductive invariant of Ringbuf: an accounting of the tokens of the  *)
(* two semaphores, of the positions and, slot by slot, of the elements.    *)
(***************************************************************************)
EXTENDS Ringbuf

Card(S) == Cardinality(S)

\* How many threads are where.
Claiming == Card(At(Producers, {"claim"}))
Storing  == Card(At(Producers, {"store"}))
Posting  == Card(At(Producers, {"postused"}))
Checking == Card(At(Consumers, {"check", "claim"}))
Reading  == Card(At(Consumers, {"load", "take"}))
Freeing  == Card(At(Consumers, {"postfree"}))

StoringAt(s) == Card(AtSlot(Producers, {"store"}, s))
ReadingAt(s) == Card(AtSlot(Consumers, {"load", "take"}, s))

\* Positions claimed by a producer and not yet by a consumer. Tokens that
\* ringbuf_stop posts to nused stand for no position.
Unread == IF running THEN Storing + Posting + nused + Checking ELSE 0

\* The window of unread positions starts at read_pos and ends at write_pos.
WindowInv == write_pos = (read_pos + Unread) % PosSpace

\* Every slot of the ring is accounted for by a free token, a thread that
\* holds one, or an unread position.
FreeInv == nfree + Claiming + Unread + Reading + Freeing = Len

\* Every element in the ring has a token in nused, or a thread that is going
\* to post one or holds one.
ElementInv == Card(Elements) = Unread - Storing + Reading

\* Slot s belongs to an unread position.
InWindow(s) == \E k \in 0..Unread-1 : (read_pos + k) % Len = s

Indicator(b) == IF b THEN 1 ELSE 0

\* Slot by slot: what is stored or still will be stored by those who claimed
\* the slot is what is still to be read or already claimed by readers.
SlotInv ==
  \A s \in Slots :
    Indicator(data[s] # NULL) + StoringAt(s) = Indicator(InWindow(s)) + ReadingAt(s)

\* A thread carries a pointer exactly from the time it has one to the time it
\* hands it over.
CarryInv ==
  /\ \A p \in Producers : val[p] # NULL <=> pc[p] \in {"claim", "store"}
  /\ \A c \in Consumers : val[c] # NULL <=> pc[c] \in {"take", "postfree"}

\* The phases of ringbuf_stop and what they guarantee. That the comparison was
\* made with a stale read_pos does no harm: the window only shrinks.
StopInv ==
  /\ running <=> stop \in {"idle", "read", "compare", "clear"}
  /\ stop # "idle" => \A p \in Producers : pc[p] \in ProducerReady
  /\ stop = "compare" /\ snap = write_pos => Unread = 0
  /\ stop = "clear" => Unread = 0
  /\ ~running => At(Consumers, {"claim"}) = {}
  /\ stop = "deleted" => \A c \in Consumers : pc[c] = "null"

IInv ==
  /\ TypeOK
  /\ WindowInv
  /\ FreeInv
  /\ ElementInv
  /\ SlotInv
  /\ CarryInv
  /\ StopInv
=============================================================================
