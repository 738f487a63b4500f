---------------------------- MODULE BoundedBuffer ----------------------------
(***************************************************************************)
(* What the ring buffer promises its callers, without positions, tokens or *)
(* loops: a box of Len cells. A producer offers an element and puts it in  *)
(* some empty cell. A consumer is promised an element, never more          *)
(* consumers than there are elements, and takes some element out. No order *)
(* is promised. The box closes only when every element left in it is       *)
(* promised to a consumer, and takes nothing in afterwards.                *)
(***************************************************************************)
EXTENDS Integers, FiniteSets

CONSTANTS Producers, Consumers, Data, NULL, Len

VARIABLES
  cells,      \* contents of the box
  offered,    \* what a producer is about to put
  promised,   \* consumers that are owed an element
  got,        \* the element a consumer has taken and not yet returned
  closed

bvars == <<cells, offered, promised, got, closed>>

Cells == 0..Len-1
Filled == {s \in Cells : cells[s] # NULL}

BInit ==
  /\ cells = [s \in Cells |-> NULL]
  /\ offered = [p \in Producers |-> NULL]
  /\ promised = {}
  /\ got = [c \in Consumers |-> NULL]
  /\ closed = FALSE

Offer(p, d) ==
  /\ ~closed
  /\ offered[p] = NULL
  /\ offered' = [offered EXCEPT ![p] = d]
  /\ UNCHANGED <<cells, promised, got, closed>>

Put(p, s) ==
  /\ ~closed
  /\ offered[p] # NULL
  /\ cells[s] = NULL
  /\ cells' = [cells EXCEPT ![s] = offered[p]]
  /\ offered' = [offered EXCEPT ![p] = NULL]
  /\ UNCHANGED <<promised, got, closed>>

Promise(c) ==
  /\ ~closed
  /\ c \notin promised
  /\ got[c] = NULL
  /\ Cardinality(promised) < Cardinality(Filled)
  /\ promised' = promised \cup {c}
  /\ UNCHANGED <<cells, offered, got, closed>>

Take(c, s) ==
  /\ c \in promised
  /\ cells[s] # NULL
  /\ cells' = [cells EXCEPT ![s] = NULL]
  /\ got' = [got EXCEPT ![c] = cells[s]]
  /\ promised' = promised \ {c}
  /\ UNCHANGED <<offered, closed>>

Return(c) ==
  /\ got[c] # NULL
  /\ got' = [got EXCEPT ![c] = NULL]
  /\ UNCHANGED <<cells, offered, promised, closed>>

Close ==
  /\ ~closed
  /\ \A p \in Producers : offered[p] = NULL
  /\ Cardinality(promised) = Cardinality(Filled)
  /\ closed' = TRUE
  /\ UNCHANGED <<cells, offered, promised, got>>

BNext ==
  \/ \E p \in Producers, d \in Data : Offer(p, d)
  \/ \E p \in Producers, s \in Cells : Put(p, s)
  \/ \E c \in Consumers : Promise(c)
  \/ \E c \in Consumers, s \in Cells : Take(c, s)
  \/ \E c \in Consumers : Return(c)
  \/ Close

BSpec == BInit /\ [][BNext]_bvars
=============================================================================
