---------------------------- MODULE RingbufProofs ----------------------------
(***************************************************************************)
(* Proofs about Ringbuf for every number of threads, every ring length and *)
(* every counter width that is a multiple of it.                           *)
(***************************************************************************)
EXTENDS RingbufInvariant, RingbufAtomic, FiniteSetTheorems, TLAPS

(***************************************************************************)
(* The arithmetic of counters that wrap around, and what a step of one     *)
(* thread does to the counts the ring's invariant is made of.              *)
(***************************************************************************)

\* Division with remainder.
LEMMA DivMod ==
  ASSUME NEW a \in Nat, NEW n \in Nat \ {0}
  PROVE  /\ a % n \in 0..n-1
         /\ a \div n \in Nat
         /\ a = (n * (a \div n)) + (a % n)
  OBVIOUS

\* The remainder is unique.
LEMMA ModUnique ==
  ASSUME NEW a \in Nat, NEW n \in Nat \ {0}, NEW q \in Int, NEW r \in 0..n-1,
         a = (n * q) + r
  PROVE  a % n = r
  OBVIOUS

\* A counter may be reduced before or after something is added to it.
LEMMA ModShift ==
  ASSUME NEW a \in Nat, NEW n \in Nat \ {0}, NEW b \in Nat
  PROVE  ((a % n) + b) % n = (a + b) % n
<1> DEFINE q == a \div n
           c == (a % n) + b
<1>1. /\ q \in Nat
      /\ a = (n * q) + (a % n)
      /\ a % n \in Nat
  BY DivMod
<1>2. /\ c \in Nat
      /\ c \div n \in Nat
      /\ c = (n * (c \div n)) + (c % n)
      /\ c % n \in 0..n-1
  BY <1>1, DivMod
<1>3. a + b = (n * (q + (c \div n))) + (c % n)
  BY <1>1, <1>2
<1>4. q + (c \div n) \in Int /\ a + b \in Nat
  BY <1>1, <1>2
<1> QED
  BY <1>2, <1>3, <1>4, ModUnique, ZenonT(30)

\* A counter of width k * n agrees modulo n with an unbounded counter.
LEMMA ModMod ==
  ASSUME NEW a \in Nat, NEW n \in Nat \ {0}, NEW k \in Nat \ {0}
  PROVE  (a % (k * n)) % n = a % n
<1> DEFINE m == k * n
           q == a \div m
           c == a % m
<1>1. m \in Nat \ {0}
  OBVIOUS
<1> HIDE DEF m
<1>2. /\ q \in Nat
      /\ a = (m * q) + c
      /\ c \in Nat
  BY <1>1, DivMod
<1> HIDE DEF q, c
<1>3. /\ c \div n \in Nat
      /\ c = (n * (c \div n)) + (c % n)
      /\ c % n \in 0..n-1
  BY <1>2, DivMod, ZenonT(30)
<1>4. m * q = n * (k * q)
  BY <1>2 DEF m
<1>5. a = (n * ((k * q) + (c \div n))) + (c % n)
  <2> DEFINE t == k * q
             e == c \div n
             f == c % n
  <2>1. t \in Nat
    BY <1>2
  <2>2. a = (n * t) + ((n * e) + f)
    BY <1>2, <1>3, <1>4, Zenon
  <2>3. e \in Nat /\ f \in Nat
    BY <1>3
  <2> HIDE DEF t, e, f
  <2>4. a = (n * (t + e)) + f
    BY <2>1, <2>2, <2>3
  <2> QED
    BY <2>4, Zenon DEF t, e, f
<1>6. (k * q) + (c \div n) \in Int
  BY <1>2, <1>3
<1>7. a % n = c % n
  BY <1>3, <1>5, <1>6, ModUnique, ZenonT(30)
<1> QED
  BY <1>7, Zenon DEF c, m

\* Two counters less than n apart fall on different remainders.
LEMMA ModDistinct ==
  ASSUME NEW a \in Nat, NEW n \in Nat \ {0}, NEW d \in 1..n-1
  PROVE  (a + d) % n # a % n
<1> DEFINE q1 == a \div n
           q2 == (a + d) \div n
<1>0. a + d \in Nat /\ d \in Nat
  OBVIOUS
<1>1. q1 \in Nat /\ a % n \in Nat /\ a = (n * q1) + (a % n)
  BY DivMod
<1>2. q2 \in Nat /\ a + d = (n * q2) + ((a + d) % n)
  BY <1>0, DivMod, ZenonT(30)
<1> HIDE DEF q1, q2
<1> SUFFICES ASSUME (a + d) % n = a % n PROVE FALSE
  BY Zenon
<1>3. d = n * (q2 - q1)
  BY <1>0, <1>1, <1>2
<1>4. CASE q2 - q1 <= 0
  BY <1>1, <1>2, <1>3, <1>4
<1>5. CASE q2 - q1 >= 1
  BY <1>1, <1>2, <1>3, <1>5
<1> QED
  BY <1>1, <1>2, <1>4, <1>5

-----------------------------------------------------------------------------

\* PosSpace is a positive number.
LEMMA PosSpacePositive == PosSpace \in Nat \ {0}
  BY PosAssumption

\* Two sets that differ at most in t have cardinalities that differ
\* accordingly.
LEMMA CardChange ==
  ASSUME NEW A, NEW B, NEW t, IsFiniteSet(A), A \ {t} = B \ {t}
  PROVE  /\ IsFiniteSet(B)
         /\ Card(A) \in Nat
         /\ Card(B) \in Nat
         /\ Card(B) = Card(A) + Indicator(t \in B) - Indicator(t \in A)
<1>1. IsFiniteSet(A \ {t})
  BY FS_RemoveElement, Zenon
<1>2. B = A \ {t} \/ B = (A \ {t}) \cup {t}
  BY Zenon
<1>3. IsFiniteSet(B)
  BY <1>1, <1>2, FS_AddElement
<1>4. Cardinality(A \ {t}) = IF t \in A THEN Cardinality(A) - 1 ELSE Cardinality(A)
  BY FS_RemoveElement, Zenon
<1>5. Cardinality(B \ {t}) = IF t \in B THEN Cardinality(B) - 1 ELSE Cardinality(B)
  BY <1>3, FS_RemoveElement, Zenon
<1>6. Cardinality(A) \in Nat /\ Cardinality(B) \in Nat
  BY <1>3, FS_CardinalityType, Zenon
<1> QED
  BY <1>3, <1>4, <1>5, <1>6 DEF Card, Indicator

\* A set with a member is counted at least once.
LEMMA CardPositive ==
  ASSUME NEW A, IsFiniteSet(A), NEW t \in A
  PROVE  Card(A) >= 1
  BY FS_EmptySet, FS_CardinalityType DEF Card

\* The sets of threads that are counted are finite.
LEMMA AtFinite ==
  ASSUME NEW S, IsFiniteSet(S)
  PROVE  /\ \A L : IsFiniteSet(At(S, L)) /\ Card(At(S, L)) \in Nat
         /\ \A L, s : IsFiniteSet(AtSlot(S, L, s)) /\ Card(AtSlot(S, L, s)) \in Nat
<1>1. \A L : At(S, L) \in SUBSET S
  BY Zenon DEF At
<1>2. \A L, s : AtSlot(S, L, s) \in SUBSET S
  BY Zenon DEF At, AtSlot
<1> QED
  BY <1>1, <1>2, FS_Subset, FS_CardinalityType, Zenon DEF Card

\* Only thread t moves, and no other thread's claimed slot changes.
OnlyMoves(t) == \A u \in Threads \ {t} : pc'[u] = pc[u] /\ pos'[u] = pos[u]

\* A step that assigns to the entries of t alone.
LEMMA OnlyMovesIntro ==
  ASSUME TypeOK, NEW t \in Threads, NEW l, pc' = [pc EXCEPT ![t] = l],
         pos' = pos \/ \E q : pos' = [pos EXCEPT ![t] = q]
  PROVE  OnlyMoves(t) /\ pc'[t] = l
  BY Zenon DEF TypeOK, OnlyMoves

\* When thread t of role S moves, the counts of the role change by whether it
\* is counted before and after.
LEMMA Move ==
  ASSUME NEW S, IsFiniteSet(S), S \subseteq Threads, NEW t \in S, OnlyMoves(t), NEW L
  PROVE  /\ Card(At(S, L))' =
              Card(At(S, L)) + Indicator(t \in At(S, L)') - Indicator(t \in At(S, L))
         /\ \A s : Card(AtSlot(S, L, s))' =
              Card(AtSlot(S, L, s)) + Indicator(t \in AtSlot(S, L, s)')
                                    - Indicator(t \in AtSlot(S, L, s))
<1>1. \A u \in S \ {t} : pc'[u] = pc[u] /\ pos'[u] = pos[u]
  BY Zenon DEF OnlyMoves
<1>2. At(S, L)' \ {t} = At(S, L) \ {t}
  BY <1>1, Zenon DEF At
<1>3. \A s : AtSlot(S, L, s)' \ {t} = AtSlot(S, L, s) \ {t}
  BY <1>1, Zenon DEF At, AtSlot
<1>4. IsFiniteSet(At(S, L)) /\ \A s : IsFiniteSet(AtSlot(S, L, s))
  BY AtFinite, Zenon
<1>5. Card(At(S, L)') =
        Card(At(S, L)) + Indicator(t \in At(S, L)') - Indicator(t \in At(S, L))
  BY <1>2, <1>4, CardChange, Zenon
<1>6. \A s : Card(AtSlot(S, L, s)') =
        Card(AtSlot(S, L, s)) + Indicator(t \in AtSlot(S, L, s)')
                              - Indicator(t \in AtSlot(S, L, s))
  BY <1>3, <1>4, CardChange, Zenon
<1> QED
  BY <1>5, <1>6, Zenon DEF Card

\* The threads of the other role stay where they are.
LEMMA OtherRole ==
  ASSUME NEW S, S \subseteq Threads, NEW t \in Threads \ S, OnlyMoves(t), NEW L
  PROVE  /\ At(S, L)' = At(S, L)
         /\ \A s : AtSlot(S, L, s)' = AtSlot(S, L, s)
<1>1. \A u \in S : pc'[u] = pc[u] /\ pos'[u] = pos[u]
  BY Zenon DEF OnlyMoves
<1> QED
  BY <1>1, Zenon DEF At, AtSlot

\* Reducing a position to the counter's width does not change its slot.
LEMMA SlotOfPosition ==
  ASSUME NEW a \in Nat
  PROVE  (a % PosSpace) % Len = a % Len
<1>1. PICK k \in 2..PosSpace : PosSpace = k * Len
  BY PosAssumption, Zenon
<1>2. k \in Nat \ {0}
  BY <1>1, PosAssumption
<1> QED
  BY <1>1, <1>2, LenAssumption, ModMod, ZenonT(30)

\* The counts are natural numbers.
LEMMA CountsNat ==
  /\ Claiming \in Nat /\ Storing \in Nat /\ Posting \in Nat
  /\ Checking \in Nat /\ Reading \in Nat /\ Freeing \in Nat
  /\ \A s : StoringAt(s) \in Nat /\ ReadingAt(s) \in Nat
  BY ThreadsAssumption, AtFinite, Zenon
     DEF Claiming, Storing, Posting, Checking, Reading, Freeing, StoringAt, ReadingAt

\* Unread counts positions, at most Len of them.
LEMMA UnreadBound ==
  ASSUME TypeOK, FreeInv
  PROVE  Unread \in 0..Len
<1>1. Unread \in Nat
  BY CountsNat DEF TypeOK, Unread
<1> QED
  BY <1>1, CountsNat, LenAssumption DEF TypeOK, FreeInv

\* What a step of a producer does to the counts.
LEMMA ProducerMove ==
  ASSUME NEW p \in Producers, OnlyMoves(p)
  PROVE  /\ Claiming' = Claiming + Indicator(pc'[p] \in {"claim"}) - Indicator(pc[p] \in {"claim"})
         /\ Storing' = Storing + Indicator(pc'[p] \in {"store"}) - Indicator(pc[p] \in {"store"})
         /\ Posting' = Posting + Indicator(pc'[p] \in {"postused"}) - Indicator(pc[p] \in {"postused"})
         /\ Checking' = Checking
         /\ Reading' = Reading
         /\ Freeing' = Freeing
<1>1. /\ p \in Threads \ Consumers
      /\ Producers \subseteq Threads
      /\ Consumers \subseteq Threads
  BY ThreadsAssumption, Zenon DEF Threads
<1>2. \A L : Card(At(Producers, L))' =
        Card(At(Producers, L)) + Indicator(p \in At(Producers, L)') - Indicator(p \in At(Producers, L))
  BY <1>1, ThreadsAssumption, Move, Zenon
<1>3. \A L : Indicator(p \in At(Producers, L)') = Indicator(pc'[p] \in L)
  BY Zenon DEF At, Indicator
<1>4. \A L : Indicator(p \in At(Producers, L)) = Indicator(pc[p] \in L)
  BY Zenon DEF At, Indicator
<1>5. \A L : At(Consumers, L)' = At(Consumers, L)
  BY <1>1, OtherRole, Zenon
<1>6. Claiming' = Claiming + Indicator(pc'[p] \in {"claim"}) - Indicator(pc[p] \in {"claim"})
  BY <1>2, <1>3, <1>4, Zenon DEF Claiming
<1>7. Storing' = Storing + Indicator(pc'[p] \in {"store"}) - Indicator(pc[p] \in {"store"})
  BY <1>2, <1>3, <1>4, Zenon DEF Storing
<1>8. Posting' = Posting + Indicator(pc'[p] \in {"postused"}) - Indicator(pc[p] \in {"postused"})
  BY <1>2, <1>3, <1>4, Zenon DEF Posting
<1> QED
  BY <1>5, <1>6, <1>7, <1>8, Zenon DEF Checking, Reading, Freeing, Card

\* What a step of a producer does to the counts of a slot.
LEMMA ProducerMoveSlot ==
  ASSUME NEW p \in Producers, OnlyMoves(p), NEW s
  PROVE  /\ StoringAt(s)' = StoringAt(s) + Indicator(pc'[p] = "store" /\ pos'[p] = s)
                                         - Indicator(pc[p] = "store" /\ pos[p] = s)
         /\ ReadingAt(s)' = ReadingAt(s)
<1>1. /\ p \in Threads \ Consumers
      /\ Producers \subseteq Threads
      /\ Consumers \subseteq Threads
  BY ThreadsAssumption, Zenon DEF Threads
<1> DEFINE A == AtSlot(Producers, {"store"}, s)
<1>2. Card(A)' = Card(A) + Indicator(p \in A') - Indicator(p \in A)
  BY <1>1, ThreadsAssumption, Move
<1>3. AtSlot(Consumers, {"load", "take"}, s)' = AtSlot(Consumers, {"load", "take"}, s)
  BY <1>1, OtherRole, Zenon
<1>4. p \in A' <=> pc'[p] = "store" /\ pos'[p] = s
  BY Zenon DEF At, AtSlot
<1>5. p \in A <=> pc[p] = "store" /\ pos[p] = s
  BY Zenon DEF At, AtSlot
<1> QED
  BY <1>2, <1>3, <1>4, <1>5, Zenon DEF StoringAt, ReadingAt, Card, Indicator

\* What a step of a consumer does to the counts.
LEMMA ConsumerMove ==
  ASSUME NEW c \in Consumers, OnlyMoves(c)
  PROVE  /\ Checking' = Checking + Indicator(pc'[c] \in {"check", "claim"}) - Indicator(pc[c] \in {"check", "claim"})
         /\ Reading' = Reading + Indicator(pc'[c] \in {"load", "take"}) - Indicator(pc[c] \in {"load", "take"})
         /\ Freeing' = Freeing + Indicator(pc'[c] \in {"postfree"}) - Indicator(pc[c] \in {"postfree"})
         /\ Claiming' = Claiming
         /\ Storing' = Storing
         /\ Posting' = Posting
<1>1. /\ c \in Threads \ Producers
      /\ Producers \subseteq Threads
      /\ Consumers \subseteq Threads
  BY ThreadsAssumption, Zenon DEF Threads
<1>2. \A L : Card(At(Consumers, L))' =
        Card(At(Consumers, L)) + Indicator(c \in At(Consumers, L)') - Indicator(c \in At(Consumers, L))
  BY <1>1, ThreadsAssumption, Move, Zenon
<1>3. \A L : Indicator(c \in At(Consumers, L)') = Indicator(pc'[c] \in L)
  BY Zenon DEF At, Indicator
<1>4. \A L : Indicator(c \in At(Consumers, L)) = Indicator(pc[c] \in L)
  BY Zenon DEF At, Indicator
<1>5. \A L : At(Producers, L)' = At(Producers, L)
  BY <1>1, OtherRole, Zenon
<1>6. Checking' = Checking + Indicator(pc'[c] \in {"check", "claim"}) - Indicator(pc[c] \in {"check", "claim"})
  BY <1>2, <1>3, <1>4, Zenon DEF Checking
<1>7. Reading' = Reading + Indicator(pc'[c] \in {"load", "take"}) - Indicator(pc[c] \in {"load", "take"})
  BY <1>2, <1>3, <1>4, Zenon DEF Reading
<1>8. Freeing' = Freeing + Indicator(pc'[c] \in {"postfree"}) - Indicator(pc[c] \in {"postfree"})
  BY <1>2, <1>3, <1>4, Zenon DEF Freeing
<1> QED
  BY <1>5, <1>6, <1>7, <1>8, Zenon DEF Claiming, Storing, Posting, Card

\* What a step of a consumer does to the counts of a slot.
LEMMA ConsumerMoveSlot ==
  ASSUME NEW c \in Consumers, OnlyMoves(c), NEW s
  PROVE  /\ StoringAt(s)' = StoringAt(s)
         /\ ReadingAt(s)' =
              ReadingAt(s) + Indicator(pc'[c] \in {"load", "take"} /\ pos'[c] = s)
                           - Indicator(pc[c] \in {"load", "take"} /\ pos[c] = s)
<1>1. /\ c \in Threads \ Producers
      /\ Producers \subseteq Threads
      /\ Consumers \subseteq Threads
  BY ThreadsAssumption, Zenon DEF Threads
<1> DEFINE A == AtSlot(Consumers, {"load", "take"}, s)
<1>2. Card(A)' = Card(A) + Indicator(c \in A') - Indicator(c \in A)
  BY <1>1, ThreadsAssumption, Move
<1>3. AtSlot(Producers, {"store"}, s)' = AtSlot(Producers, {"store"}, s)
  BY <1>1, OtherRole, Zenon
<1>4. c \in A' <=> pc'[c] \in {"load", "take"} /\ pos'[c] = s
  BY Zenon DEF At, AtSlot
<1>5. c \in A <=> pc[c] \in {"load", "take"} /\ pos[c] = s
  BY Zenon DEF At, AtSlot
<1> QED
  BY <1>2, <1>3, <1>4, <1>5, Zenon DEF StoringAt, ReadingAt, Card, Indicator

\* A consumer that goes from one label to another at its slot changes no count.
LEMMA ConsumerStays ==
  ASSUME NEW c \in Consumers, OnlyMoves(c), pos'[c] = pos[c],
         pc[c] \in {"load", "take"}, pc'[c] \in {"load", "take"}
  PROVE  /\ Claiming' = Claiming /\ Storing' = Storing /\ Posting' = Posting
         /\ Checking' = Checking /\ Reading' = Reading /\ Freeing' = Freeing
         /\ \A s : StoringAt(s)' = StoringAt(s) /\ ReadingAt(s)' = ReadingAt(s)
<1>1. /\ Claiming' = Claiming /\ Storing' = Storing /\ Posting' = Posting
      /\ Checking' = Checking /\ Reading' = Reading /\ Freeing' = Freeing
  BY ConsumerMove, CountsNat DEF Indicator
<1>2. \A s : StoringAt(s)' = StoringAt(s) /\ ReadingAt(s)' = ReadingAt(s)
  BY ConsumerMoveSlot, CountsNat DEF Indicator
<1> QED
  BY <1>1, <1>2, Zenon

\* A consumer that takes its element no longer reads its slot.
LEMMA ConsumerTakes ==
  ASSUME NEW c \in Consumers, OnlyMoves(c), pc[c] = "take", pc'[c] = "postfree"
  PROVE  /\ Claiming' = Claiming /\ Storing' = Storing /\ Posting' = Posting
         /\ Checking' = Checking /\ Reading' = Reading - 1 /\ Freeing' = Freeing + 1
         /\ \A s : /\ StoringAt(s)' = StoringAt(s)
                   /\ ReadingAt(s)' = ReadingAt(s) - Indicator(s = pos[c])
<1>1. /\ Claiming' = Claiming /\ Storing' = Storing /\ Posting' = Posting
      /\ Checking' = Checking /\ Reading' = Reading - 1 /\ Freeing' = Freeing + 1
  BY ConsumerMove, CountsNat DEF Indicator
<1>2. \A s : /\ StoringAt(s)' = StoringAt(s)
             /\ ReadingAt(s)' = ReadingAt(s) - Indicator(s = pos[c])
  BY ConsumerMoveSlot, CountsNat DEF Indicator
<1> QED
  BY <1>1, <1>2, Zenon

\* A producer that claims a position extends the window by a slot that was
\* not in it.
LEMMA WindowGrows ==
  ASSUME TypeOK, WindowInv, Unread \in 0..Len-1,
         Unread' = Unread + 1, read_pos' = read_pos,
         NEW s \in Slots
  PROVE  /\ ~InWindow(write_pos % Len)
         /\ InWindow(s)' <=> InWindow(s) \/ s = write_pos % Len
<1> USE LenAssumption
<1>1. read_pos \in Nat /\ read_pos + Unread \in Nat
  BY PosSpacePositive DEF TypeOK, Positions
<1>2. write_pos % Len = (read_pos + Unread) % Len
  BY <1>1, SlotOfPosition, Zenon DEF WindowInv
<1>3. ASSUME NEW k \in 0..Unread-1, (read_pos + k) % Len = (read_pos + Unread) % Len
      PROVE  FALSE
  <2>1. read_pos + k \in Nat /\ Unread - k \in 1..Len-1
    BY <1>1
  <2>2. (read_pos + k) + (Unread - k) = read_pos + Unread
    BY <1>1
  <2> QED
    BY <1>3, <2>1, <2>2, ModDistinct, ZenonT(30)
<1>4. 0..Unread'-1 = (0..Unread-1) \cup {Unread}
  OBVIOUS
<1>5. InWindow(s)' <=> \E k \in 0..Unread'-1 : (read_pos + k) % Len = s
  BY Zenon DEF InWindow
<1> QED
  BY <1>2, <1>3, <1>4, <1>5, Zenon DEF InWindow

\* A consumer that claims a position takes its slot out of the window.
LEMMA WindowShrinks ==
  ASSUME TypeOK, Unread \in 1..Len,
         Unread' = Unread - 1, read_pos' = Advance(read_pos),
         NEW s \in Slots
  PROVE  /\ InWindow(read_pos % Len)
         /\ InWindow(s)' <=> InWindow(s) /\ s # read_pos % Len
<1> USE LenAssumption
<1>1. read_pos \in Nat
  BY PosSpacePositive DEF TypeOK, Positions
<1>2. InWindow(read_pos % Len)
  <2>1. 0 \in 0..Unread-1 /\ (read_pos + 0) % Len = read_pos % Len
    BY <1>1
  <2> QED
    BY <2>1, Zenon DEF InWindow
<1>3. ASSUME NEW k \in Nat
      PROVE  (read_pos' + k) % Len = (read_pos + (k + 1)) % Len
  <2> DEFINE a == read_pos + 1
             b == a % PosSpace
  <2>1. a \in Nat /\ b \in Nat /\ read_pos' = b
    BY <1>1, PosSpacePositive, DivMod DEF Advance
  <2>2. b % Len = a % Len
    BY <2>1, SlotOfPosition, Zenon
  <2> HIDE DEF b
  <2>3. (b + k) % Len = ((b % Len) + k) % Len
    BY <2>1, ModShift, Zenon
  <2>4. (a + k) % Len = ((a % Len) + k) % Len
    BY <2>1, ModShift, Zenon
  <2>5. a + k = read_pos + (k + 1)
    BY <1>1
  <2> QED
    BY <2>1, <2>2, <2>3, <2>4, <2>5, Zenon
<1>4. InWindow(s)' <=> \E k \in 1..Unread-1 : (read_pos + k) % Len = s
  <2>1. InWindow(s)' <=> \E k \in 0..Unread-2 : (read_pos' + k) % Len = s
    <3>1. Unread' - 1 = Unread - 2
      OBVIOUS
    <3> QED
      BY <3>1, Zenon DEF InWindow
  <2>2. ASSUME NEW k \in 0..Unread-2, (read_pos' + k) % Len = s
        PROVE  \E j \in 1..Unread-1 : (read_pos + j) % Len = s
    <3>1. k \in Nat /\ k + 1 \in 1..Unread-1
      OBVIOUS
    <3> QED
      BY <1>3, <2>2, <3>1, Zenon
  <2>3. ASSUME NEW j \in 1..Unread-1, (read_pos + j) % Len = s
        PROVE  \E k \in 0..Unread-2 : (read_pos' + k) % Len = s
    <3>1. j - 1 \in Nat /\ j - 1 \in 0..Unread-2 /\ (j - 1) + 1 = j
      OBVIOUS
    <3> QED
      BY <1>3, <2>3, <3>1, Zenon
  <2> QED
    BY <2>1, <2>2, <2>3, Zenon
<1>5. ASSUME NEW k \in 1..Unread-1
      PROVE  (read_pos + k) % Len # read_pos % Len
  <2>1. k \in 1..Len-1
    OBVIOUS
  <2> QED
    BY <1>1, <2>1, ModDistinct, ZenonT(30)
<1>6. 0..Unread-1 = {0} \cup (1..Unread-1)
  OBVIOUS
<1>7. (read_pos + 0) % Len = read_pos % Len
  BY <1>1
<1> QED
  BY <1>2, <1>4, <1>5, <1>6, <1>7, Zenon DEF InWindow

\* The window does not depend on anything else.
LEMMA WindowStays ==
  ASSUME Unread' = Unread, read_pos' = read_pos, NEW s
  PROVE  InWindow(s)' = InWindow(s)
  BY Zenon DEF InWindow

\* Nothing about a slot changes for its threads.
SlotsQuiet == \A s \in Slots : StoringAt(s)' = StoringAt(s) /\ ReadingAt(s)' = ReadingAt(s)

\* Steps that touch neither the slots nor the window keep the accounts of
\* elements and positions.
LEMMA Quiet ==
  ASSUME IInv, UNCHANGED <<read_pos, write_pos, data>>, Unread' = Unread,
         Storing' = Storing, Reading' = Reading, SlotsQuiet
  PROVE  WindowInv' /\ ElementInv' /\ SlotInv'
<1>1. WindowInv'
  BY Zenon DEF IInv, WindowInv
<1>2. ElementInv'
  BY Zenon DEF IInv, ElementInv, Elements, Card
<1>3. \A s \in Slots : InWindow(s)' = InWindow(s)
  BY WindowStays, Zenon
<1>4. SlotInv'
  BY <1>3, Zenon DEF IInv, SlotInv, SlotsQuiet, Indicator
<1> QED
  BY <1>1, <1>2, <1>4, Zenon

\* The occupied slots are finitely many.
LEMMA ElementsFinite == IsFiniteSet(Elements)
<1>1. IsFiniteSet(Slots) /\ Elements \in SUBSET Slots
  BY LenAssumption, FS_Interval DEF Slots, Elements
<1> QED
  BY <1>1, FS_Subset, Zenon

-----------------------------------------------------------------------------
(***************************************************************************)
(* The steps of a producer preserve the ring's invariant.                  *)
(***************************************************************************)

\* ringbuf_enqueue and ringbuf_tryenqueue take a free token.
LEMMA TakeFreeStep ==
  ASSUME IInv, TypeOK', NEW p \in Producers, NEW d \in Data,
         MayEnqueue(p), nfree > 0, TakeFree(p, d)
  PROVE  IInv'
<1>1. /\ pc' = [pc EXCEPT ![p] = "claim"]
      /\ pc[p] \in {"idle", "full"}
      /\ stop = "idle" /\ running /\ TypeOK
      /\ UNCHANGED <<read_pos, write_pos, nused, running, data, pos, stop>>
      /\ nfree' = nfree - 1
      /\ val' = [val EXCEPT ![p] = d]
  BY Zenon DEF TakeFree, Goto, MayEnqueue, ProducerReady, IInv, StopInv, stopper
<1>0. OnlyMoves(p) /\ pc'[p] = "claim"
  BY <1>1, OnlyMovesIntro, ZenonT(30) DEF Threads
<1>2. /\ Claiming' = Claiming + 1 /\ Storing' = Storing /\ Posting' = Posting
      /\ Checking' = Checking /\ Reading' = Reading /\ Freeing' = Freeing
  BY <1>1, <1>0, ProducerMove, CountsNat, SMTT(60) DEF Indicator
<1>3. SlotsQuiet
  BY <1>1, <1>0, ProducerMoveSlot, CountsNat, SMTT(60) DEF Indicator, SlotsQuiet
<1>4. Unread' = Unread
  BY <1>1, <1>2, Zenon DEF Unread
<1>5. WindowInv' /\ ElementInv' /\ SlotInv'
  BY <1>1, <1>2, <1>3, <1>4, Quiet, Zenon
<1>6. FreeInv'
  BY <1>1, <1>2, <1>4, CountsNat, UnreadBound DEF IInv, FreeInv, TypeOK
<1>7. CarryInv'
  BY <1>1, ThreadsAssumption, NullAssumption, Zenon DEF IInv, CarryInv, TypeOK, Threads
<1>8. StopInv'
  BY <1>1, Zenon DEF StopInv
<1> QED
  BY <1>5, <1>6, <1>7, <1>8, ZenonT(30) DEF IInv

\* ringbuf_tryenqueue finds no token; only the label changes.
LEMMA FullStep ==
  ASSUME IInv, TypeOK', NEW p \in Producers, MayEnqueue(p),
         Goto(p, "full"), UNCHANGED <<ring, pos, val, stopper>>
  PROVE  IInv'
<1>1. /\ pc' = [pc EXCEPT ![p] = "full"]
      /\ pc[p] \in {"idle", "full"}
      /\ stop = "idle" /\ running /\ TypeOK
      /\ UNCHANGED <<read_pos, write_pos, nfree, nused, running, data, pos, val, stop>>
  BY Zenon DEF Goto, MayEnqueue, ProducerReady, IInv, StopInv, ring, stopper
<1>0. OnlyMoves(p) /\ pc'[p] = "full"
  BY <1>1, OnlyMovesIntro, ZenonT(30) DEF Threads
<1>2. /\ Claiming' = Claiming /\ Storing' = Storing /\ Posting' = Posting
      /\ Checking' = Checking /\ Reading' = Reading /\ Freeing' = Freeing
  BY <1>1, <1>0, ProducerMove, CountsNat, SMTT(60) DEF Indicator
<1>3. SlotsQuiet
  BY <1>1, <1>0, ProducerMoveSlot, CountsNat, SMTT(60) DEF Indicator, SlotsQuiet
<1>4. Unread' = Unread
  BY <1>1, <1>2, Zenon DEF Unread
<1>5. WindowInv' /\ ElementInv' /\ SlotInv'
  BY <1>1, <1>2, <1>3, <1>4, Quiet, Zenon
<1>6. FreeInv'
  BY <1>1, <1>2, <1>4, Zenon DEF IInv, FreeInv
<1>7. CarryInv'
  BY <1>1, ThreadsAssumption, Zenon DEF IInv, CarryInv, TypeOK, Threads
<1>8. StopInv'
  BY <1>1, Zenon DEF StopInv
<1> QED
  BY <1>5, <1>6, <1>7, <1>8, ZenonT(30) DEF IInv

\* A producer claims a position: the window grows by its slot.
LEMMA EnqueueClaimStep ==
  ASSUME IInv, TypeOK', NEW p \in Producers, enqueue_claim(p)
  PROVE  IInv'
<1>1. /\ pc[p] = "claim"
      /\ pc' = [pc EXCEPT ![p] = "store"]
      /\ pos' = [pos EXCEPT ![p] = write_pos % Len]
      /\ write_pos' = Advance(write_pos)
      /\ UNCHANGED <<read_pos, nfree, nused, running, data, val, stop, snap>>
      /\ TypeOK
      /\ stop = "idle" /\ running
  BY Zenon DEF enqueue_claim, Goto, stopper, IInv, StopInv, ProducerReady
<1>2. OnlyMoves(p) /\ pc'[p] = "store" /\ pos'[p] = write_pos % Len
  BY <1>1, OnlyMovesIntro, ZenonT(30) DEF Threads, TypeOK
<1>3. /\ Claiming' = Claiming - 1 /\ Storing' = Storing + 1 /\ Posting' = Posting
      /\ Checking' = Checking /\ Reading' = Reading /\ Freeing' = Freeing
  BY <1>1, <1>2, ProducerMove, CountsNat, SMTT(60) DEF Indicator
<1>4. \A s \in Slots : /\ StoringAt(s)' = StoringAt(s) + Indicator(s = write_pos % Len)
                       /\ ReadingAt(s)' = ReadingAt(s)
  BY <1>1, <1>2, ProducerMoveSlot, CountsNat, SMTT(60) DEF Indicator
<1>5. Unread' = Unread + 1
  BY <1>1, <1>3, CountsNat DEF Unread, TypeOK
<1>6. FreeInv'
  BY <1>1, <1>3, <1>5, CountsNat, UnreadBound DEF IInv, FreeInv, TypeOK
<1>7. Unread \in 0..Len-1
  <2>1. Claiming >= 1
    <3>1. p \in At(Producers, {"claim"})
      BY <1>1, Zenon DEF At
    <3> QED
      BY <3>1, ThreadsAssumption, AtFinite, CardPositive, Zenon DEF Claiming
  <2>2. Unread \in Nat /\ nfree + Claiming + Unread + Reading + Freeing = Len
    BY UnreadBound, LenAssumption DEF IInv, FreeInv
  <2> QED
    BY <1>1, <2>1, <2>2, CountsNat, LenAssumption DEF TypeOK
<1>8. WindowInv'
  <2>1. read_pos + Unread \in Nat
    BY <1>7, LenAssumption, PosSpacePositive DEF IInv, TypeOK, Positions
  <2>2. (((read_pos + Unread) % PosSpace) + 1) % PosSpace
          = ((read_pos + Unread) + 1) % PosSpace
    BY <2>1, PosSpacePositive, ModShift, Zenon
  <2>3. (read_pos + Unread) + 1 = read_pos + (Unread + 1)
    BY <1>1, <1>7, LenAssumption, PosSpacePositive DEF TypeOK, Positions
  <2> QED
    BY <1>1, <1>5, <2>2, <2>3, Zenon DEF IInv, WindowInv, Advance
<1>9. ElementInv'
  BY <1>1, <1>3, <1>5, <1>7, CountsNat, LenAssumption DEF IInv, ElementInv, Elements, Card
<1>10. SlotInv'
  <2>1. \A s \in Slots : InWindow(s)' <=> InWindow(s) \/ s = write_pos % Len
    BY <1>1, <1>5, <1>7, WindowGrows, Zenon DEF IInv
  <2>2. ~InWindow(write_pos % Len)
    BY <1>1, <1>5, <1>7, WindowGrows, LenAssumption, SMTT(30) DEF IInv, Slots
  <2> QED
    BY <1>1, <1>4, <2>1, <2>2, CountsNat DEF IInv, SlotInv, Indicator
<1>11. CarryInv'
  BY <1>1, ThreadsAssumption, Zenon DEF IInv, CarryInv, TypeOK, Threads
<1>12. StopInv'
  BY <1>1, Zenon DEF StopInv
<1> QED
  BY <1>6, <1>8, <1>9, <1>10, <1>11, <1>12, ZenonT(30) DEF IInv

\* A producer stores its element in the slot it has claimed.
LEMMA EnqueueStoreStep ==
  ASSUME IInv, TypeOK', NEW p \in Producers, enqueue_store(p)
  PROVE  IInv'
<1>1. /\ pc[p] = "store"
      /\ pc' = [pc EXCEPT ![p] = "postused"]
      /\ data[pos[p]] = NULL
      /\ data' = [data EXCEPT ![pos[p]] = val[p]]
      /\ val' = [val EXCEPT ![p] = NULL]
      /\ pos' = [pos EXCEPT ![p] = 0]
      /\ UNCHANGED <<read_pos, write_pos, nfree, nused, running, stop, snap>>
      /\ TypeOK
      /\ stop = "idle" /\ running
  BY Zenon DEF enqueue_store, Goto, stopper, IInv, StopInv, ProducerReady
<1>2. OnlyMoves(p) /\ pc'[p] = "postused"
  BY <1>1, OnlyMovesIntro, ZenonT(30) DEF Threads
<1>3. /\ Claiming' = Claiming /\ Storing' = Storing - 1 /\ Posting' = Posting + 1
      /\ Checking' = Checking /\ Reading' = Reading /\ Freeing' = Freeing
  BY <1>1, <1>2, ProducerMove, CountsNat, SMTT(60) DEF Indicator
<1>4. \A s \in Slots : /\ StoringAt(s)' = StoringAt(s) - Indicator(s = pos[p])
                       /\ ReadingAt(s)' = ReadingAt(s)
  BY <1>1, <1>2, ProducerMoveSlot, CountsNat, SMTT(60) DEF Indicator
<1>5. Unread' = Unread
  BY <1>1, <1>3, CountsNat DEF Unread, TypeOK
<1>6. val[p] # NULL /\ pos[p] \in Slots
  BY <1>1, Zenon DEF IInv, CarryInv, TypeOK, Threads
<1>7. WindowInv' /\ FreeInv'
  BY <1>1, <1>3, <1>5, Zenon DEF IInv, WindowInv, FreeInv
<1>8. ElementInv'
  <2>1. Elements' \ {pos[p]} = Elements \ {pos[p]}
    BY <1>1, Zenon DEF TypeOK, Elements
  <2>2. pos[p] \in Elements' /\ pos[p] \notin Elements
    BY <1>1, <1>6, SMTT(60) DEF TypeOK, Elements
  <2>3. IsFiniteSet(Elements)
    BY ElementsFinite, Zenon
  <2>4. Card(Elements') = Card(Elements) + 1 /\ Card(Elements) \in Nat
    BY <2>1, <2>2, <2>3, CardChange DEF Indicator
  <2>5. Card(Elements)' = Card(Elements')
    BY Zenon DEF Card
  <2> QED
    BY <1>3, <1>5, <2>4, <2>5, CountsNat, UnreadBound, LenAssumption DEF IInv, ElementInv
<1>9. SlotInv'
  <2>1. \A s \in Slots : InWindow(s)' = InWindow(s)
    BY <1>1, <1>5, WindowStays, Zenon
  <2>2. \A s \in Slots : data'[s] = IF s = pos[p] THEN val[p] ELSE data[s]
    BY <1>1, Zenon DEF TypeOK
  <2> QED
    BY <1>1, <1>4, <1>6, <2>1, <2>2, CountsNat DEF IInv, SlotInv, Indicator
<1>10. CarryInv'
  BY <1>1, ThreadsAssumption, Zenon DEF IInv, CarryInv, TypeOK, Threads
<1>11. StopInv'
  BY <1>1, Zenon DEF StopInv
<1> QED
  BY <1>7, <1>8, <1>9, <1>10, <1>11, ZenonT(30) DEF IInv

\* A producer posts nused: the position is still unread.
LEMMA EnqueuePostStep ==
  ASSUME IInv, TypeOK', NEW p \in Producers, enqueue_post(p)
  PROVE  IInv'
<1>1. /\ pc[p] = "postused"
      /\ pc' = [pc EXCEPT ![p] = "idle"]
      /\ nused' = nused + 1
      /\ UNCHANGED <<read_pos, write_pos, nfree, running, data, pos, val, stop, snap>>
      /\ TypeOK
      /\ stop = "idle" /\ running
  BY Zenon DEF enqueue_post, Goto, stopper, IInv, StopInv, ProducerReady
<1>2. OnlyMoves(p) /\ pc'[p] = "idle"
  BY <1>1, OnlyMovesIntro, ZenonT(30) DEF Threads
<1>3. /\ Claiming' = Claiming /\ Storing' = Storing /\ Posting' = Posting - 1
      /\ Checking' = Checking /\ Reading' = Reading /\ Freeing' = Freeing
  BY <1>1, <1>2, ProducerMove, CountsNat, SMTT(60) DEF Indicator
<1>4. SlotsQuiet
  BY <1>1, <1>2, ProducerMoveSlot, CountsNat, SMTT(60) DEF Indicator, SlotsQuiet
<1>5. Unread' = Unread
  BY <1>1, <1>3, CountsNat DEF Unread, TypeOK
<1>6. WindowInv' /\ ElementInv' /\ SlotInv'
  BY <1>1, <1>3, <1>4, <1>5, Quiet, Zenon
<1>7. FreeInv'
  BY <1>1, <1>3, <1>5, SMTT(30) DEF IInv, FreeInv
<1>8. CarryInv'
  BY <1>1, ThreadsAssumption, Zenon DEF IInv, CarryInv, TypeOK, Threads
<1>9. StopInv'
  BY <1>1, Zenon DEF StopInv
<1> QED
  BY <1>6, <1>7, <1>8, <1>9, ZenonT(30) DEF IInv

-----------------------------------------------------------------------------
(***************************************************************************)
(* The steps of a consumer preserve the ring's invariant.                  *)
(***************************************************************************)

\* ringbuf_trydequeue finds no token; only the label changes.
LEMMA EmptyStep ==
  ASSUME IInv, TypeOK', NEW c \in Consumers, pc[c] \in ConsumerReady,
         Goto(c, "empty"), UNCHANGED <<ring, pos, val, stopper>>
  PROVE  IInv'
<1>1. /\ pc' = [pc EXCEPT ![c] = "empty"]
      /\ pc[c] \in {"idle", "empty"}
      /\ TypeOK
      /\ UNCHANGED <<read_pos, write_pos, nfree, nused, running, data, pos, val, stop, snap>>
  BY Zenon DEF Goto, ConsumerReady, IInv, ring, stopper
<1>0. OnlyMoves(c) /\ pc'[c] = "empty"
  BY <1>1, OnlyMovesIntro, ZenonT(30) DEF Threads
<1>2. /\ Claiming' = Claiming /\ Storing' = Storing /\ Posting' = Posting
      /\ Checking' = Checking /\ Reading' = Reading /\ Freeing' = Freeing
  BY <1>1, <1>0, ConsumerMove, CountsNat, SMTT(60) DEF Indicator
<1>3. SlotsQuiet
  BY <1>1, <1>0, ConsumerMoveSlot, CountsNat, SMTT(60) DEF Indicator, SlotsQuiet
<1>4. Unread' = Unread
  BY <1>1, <1>2, Zenon DEF Unread
<1>5. WindowInv' /\ ElementInv' /\ SlotInv'
  BY <1>1, <1>2, <1>3, <1>4, Quiet, Zenon
<1>6. FreeInv'
  BY <1>1, <1>2, <1>4, Zenon DEF IInv, FreeInv
<1>7. CarryInv'
  BY <1>1, ThreadsAssumption, Zenon DEF IInv, CarryInv, TypeOK, Threads
<1>8. StopInv'
  BY <1>1, <1>4, ThreadsAssumption, Zenon
     DEF IInv, StopInv, TypeOK, Threads, At, ProducerReady
<1> QED
  BY <1>5, <1>6, <1>7, <1>8, ZenonT(30) DEF IInv

\* ringbuf_dequeue and ringbuf_trydequeue take a token of nused.
LEMMA TakeUsedStep ==
  ASSUME IInv, TypeOK', NEW c \in Consumers, pc[c] \in ConsumerReady,
         nused > 0, TakeUsed(c)
  PROVE  IInv'
<1>1. /\ pc[c] \in {"idle", "empty"}
      /\ pc' = [pc EXCEPT ![c] = "check"]
      /\ nused' = nused - 1
      /\ UNCHANGED <<read_pos, write_pos, nfree, running, data, pos, val, stop, snap>>
      /\ TypeOK
  BY Zenon DEF TakeUsed, Goto, stopper, IInv, ConsumerReady
<1>2. OnlyMoves(c) /\ pc'[c] = "check"
  BY <1>1, OnlyMovesIntro, ZenonT(30) DEF Threads
<1>3. /\ Claiming' = Claiming /\ Storing' = Storing /\ Posting' = Posting
      /\ Checking' = Checking + 1 /\ Reading' = Reading /\ Freeing' = Freeing
  BY <1>1, <1>2, ConsumerMove, CountsNat, SMTT(60) DEF Indicator
<1>4. SlotsQuiet
  BY <1>1, <1>2, ConsumerMoveSlot, CountsNat, SMTT(60) DEF Indicator, SlotsQuiet
<1>5. Unread' = Unread
  BY <1>1, <1>3, CountsNat DEF Unread, TypeOK
<1>6. WindowInv' /\ ElementInv' /\ SlotInv'
  BY <1>1, <1>3, <1>4, <1>5, Quiet, Zenon
<1>7. FreeInv'
  BY <1>1, <1>3, <1>5, Zenon DEF IInv, FreeInv
<1>8. CarryInv'
  BY <1>1, ThreadsAssumption, Zenon DEF IInv, CarryInv, TypeOK, Threads
<1>9. StopInv'
  BY <1>1, <1>5, ThreadsAssumption, ZenonT(30)
     DEF IInv, StopInv, TypeOK, Threads, At, ProducerReady
<1> QED
  BY <1>6, <1>7, <1>8, <1>9, ZenonT(30) DEF IInv

\* A consumer that holds a token looks at running.
LEMMA DequeueCheckStep ==
  ASSUME IInv, TypeOK', NEW c \in Consumers, dequeue_check(c)
  PROVE  IInv'
<1> DEFINE l == IF running THEN "claim" ELSE "null"
<1>1. /\ pc[c] = "check"
      /\ pc' = [pc EXCEPT ![c] = l]
      /\ UNCHANGED <<read_pos, write_pos, nfree, nused, running, data, pos, val, stop, snap>>
      /\ TypeOK
  BY Zenon DEF dequeue_check, Goto, ring, stopper, IInv
<1>2. OnlyMoves(c) /\ pc'[c] = l
  BY <1>1, Zenon DEF Threads, TypeOK, OnlyMoves
<1>3. /\ Claiming' = Claiming /\ Storing' = Storing /\ Posting' = Posting
      /\ running => Checking' = Checking
      /\ Reading' = Reading /\ Freeing' = Freeing
  BY <1>1, <1>2, ConsumerMove, CountsNat, SMTT(60) DEF Indicator
<1>4. SlotsQuiet
  BY <1>1, <1>2, ConsumerMoveSlot, CountsNat, SMTT(60) DEF Indicator, SlotsQuiet
<1>5. Unread' = Unread
  BY <1>1, <1>3, Zenon DEF Unread
<1>6. WindowInv' /\ ElementInv' /\ SlotInv'
  BY <1>1, <1>3, <1>4, <1>5, Quiet, Zenon
<1>7. FreeInv'
  BY <1>1, <1>3, <1>5, Zenon DEF IInv, FreeInv
<1>8. CarryInv'
  BY <1>1, ThreadsAssumption DEF IInv, CarryInv, TypeOK, Threads
<1>9. StopInv'
  BY <1>1, <1>5, ThreadsAssumption, ZenonT(30)
     DEF IInv, StopInv, TypeOK, Threads, At, ProducerReady
<1> QED
  BY <1>6, <1>7, <1>8, <1>9, ZenonT(30) DEF IInv

\* A consumer claims a position: the window shrinks by its slot.
LEMMA DequeueClaimStep ==
  ASSUME IInv, TypeOK', NEW c \in Consumers, dequeue_claim(c)
  PROVE  IInv'
<1>1. /\ pc[c] = "claim"
      /\ pc' = [pc EXCEPT ![c] = "load"]
      /\ pos' = [pos EXCEPT ![c] = read_pos % Len]
      /\ read_pos' = Advance(read_pos)
      /\ UNCHANGED <<write_pos, nfree, nused, running, data, val, stop, snap>>
      /\ TypeOK
  BY Zenon DEF dequeue_claim, Goto, stopper, IInv
<1>2. OnlyMoves(c) /\ pc'[c] = "load" /\ pos'[c] = read_pos % Len
  BY <1>1, OnlyMovesIntro, ZenonT(30) DEF Threads, TypeOK
<1>3. /\ Claiming' = Claiming /\ Storing' = Storing /\ Posting' = Posting
      /\ Checking' = Checking - 1 /\ Reading' = Reading + 1 /\ Freeing' = Freeing
  BY <1>1, <1>2, ConsumerMove, CountsNat, SMTT(60) DEF Indicator
<1>4. \A s \in Slots : /\ StoringAt(s)' = StoringAt(s)
                       /\ ReadingAt(s)' = ReadingAt(s) + Indicator(s = read_pos % Len)
  BY <1>1, <1>2, ConsumerMoveSlot, CountsNat, SMTT(60) DEF Indicator
<1>5. running /\ Checking >= 1
  <2>1. c \in At(Consumers, {"claim"}) /\ c \in At(Consumers, {"check", "claim"})
    BY <1>1, Zenon DEF At
  <2>2. running
    BY <2>1, Zenon DEF IInv, StopInv
  <2> QED
    BY <2>1, <2>2, ThreadsAssumption, AtFinite, CardPositive, Zenon DEF Checking
<1>6. Unread' = Unread - 1 /\ Unread \in 1..Len
  <2>1. Unread \in 0..Len /\ Unread >= 1
    BY <1>5, CountsNat, UnreadBound DEF IInv, TypeOK, Unread
  <2>2. Unread' = Unread - 1
    BY <1>1, <1>3, <1>5, CountsNat DEF Unread, TypeOK
  <2> QED
    BY <2>1, <2>2, LenAssumption
<1>7. FreeInv'
  BY <1>1, <1>3, <1>6, CountsNat, LenAssumption DEF IInv, FreeInv, TypeOK
<1>8. WindowInv'
  <2>1. read_pos + 1 \in Nat /\ Unread - 1 \in Nat
    BY <1>1, <1>6, LenAssumption, PosSpacePositive DEF TypeOK, Positions
  <2>2. (((read_pos + 1) % PosSpace) + (Unread - 1)) % PosSpace
          = ((read_pos + 1) + (Unread - 1)) % PosSpace
    BY <2>1, PosSpacePositive, ModShift, Zenon
  <2>3. (read_pos + 1) + (Unread - 1) = read_pos + Unread
    BY <1>1, <1>6, LenAssumption, PosSpacePositive DEF TypeOK, Positions
  <2> QED
    BY <1>1, <1>6, <2>2, <2>3, Zenon DEF IInv, WindowInv, Advance
<1>9. ElementInv'
  BY <1>1, <1>3, <1>6, CountsNat, LenAssumption DEF IInv, ElementInv, Elements, Card
<1>10. SlotInv'
  <2>1. \A s \in Slots : InWindow(s)' <=> InWindow(s) /\ s # read_pos % Len
    BY <1>1, <1>6, WindowShrinks, Zenon
  <2>2. InWindow(read_pos % Len)
    BY <1>1, <1>6, WindowShrinks, LenAssumption DEF Slots
  <2> QED
    BY <1>1, <1>4, <2>1, <2>2, CountsNat DEF IInv, SlotInv, Indicator
<1>11. CarryInv'
  BY <1>1, ThreadsAssumption, ZenonT(30) DEF IInv, CarryInv, TypeOK, Threads
<1>12. StopInv'
  BY <1>1, <1>5, <1>6, LenAssumption, ThreadsAssumption, SMTT(30)
     DEF IInv, StopInv, TypeOK, Threads, At, ProducerReady
<1> QED
  BY <1>7, <1>8, <1>9, <1>10, <1>11, <1>12, ZenonT(30) DEF IInv

\* Loading, and failing to take, keep the consumer at its slot.
LEMMA DequeueLoadStep ==
  ASSUME IInv, TypeOK', NEW c \in Consumers, NEW l,
         \/ pc[c] = "load" /\ l = "take" /\ val'[c] # NULL
         \/ pc[c] = "take" /\ l = "load" /\ val'[c] = NULL,
         \A u \in Threads \ {c} : val'[u] = val[u],
         Goto(c, l), UNCHANGED <<ring, pos, stopper>>
  PROVE  IInv'
<1>1. /\ pc' = [pc EXCEPT ![c] = l]
      /\ pc[c] \in {"load", "take"} /\ l \in {"load", "take"}
      /\ UNCHANGED <<read_pos, write_pos, nfree, nused, running, data, pos, stop, snap>>
      /\ TypeOK
  <2>1. pc' = [pc EXCEPT ![c] = l]
    BY Zenon DEF Goto
  <2>2. pc[c] \in {"load", "take"} /\ l \in {"load", "take"}
    BY Zenon
  <2>3. UNCHANGED <<read_pos, write_pos, nfree, nused, running, data, pos, stop, snap>>
    BY Zenon DEF ring, stopper
  <2>4. TypeOK
    BY Zenon DEF IInv
  <2> QED
    BY <2>1, <2>2, <2>3, <2>4, Zenon
<1>2. OnlyMoves(c) /\ pc'[c] = l
  BY <1>1, OnlyMovesIntro, ZenonT(30) DEF Threads
<1>3. /\ Claiming' = Claiming /\ Storing' = Storing /\ Posting' = Posting
      /\ Checking' = Checking /\ Reading' = Reading /\ Freeing' = Freeing
  <2>1. pos'[c] = pos[c] /\ pc'[c] \in {"load", "take"} /\ pc[c] \in {"load", "take"}
    BY <1>1, <1>2, Zenon
  <2> QED
    BY <1>2, <2>1, ConsumerStays, Zenon
<1>4. SlotsQuiet
  <2>1. pos'[c] = pos[c] /\ pc'[c] \in {"load", "take"} /\ pc[c] \in {"load", "take"}
    BY <1>1, <1>2, Zenon
  <2> QED
    BY <1>2, <2>1, ConsumerStays, Zenon DEF SlotsQuiet
<1>5. Unread' = Unread
  BY <1>1, <1>3, Zenon DEF Unread
<1>6. WindowInv' /\ ElementInv' /\ SlotInv'
  BY <1>1, <1>3, <1>4, <1>5, Quiet, Zenon
<1>7. FreeInv'
  BY <1>1, <1>3, <1>5, ZenonT(30) DEF IInv, FreeInv
<1>8. CarryInv'
  BY <1>1, ThreadsAssumption, SMTT(30) DEF IInv, CarryInv, TypeOK, Threads
<1>9. StopInv'
  BY <1>1, <1>5, ThreadsAssumption, SMTT(30)
     DEF IInv, StopInv, TypeOK, Threads, At, ProducerReady
<1> QED
  BY <1>6, <1>7, <1>8, <1>9, ZenonT(30) DEF IInv

TakesElement(c) ==
  /\ pc[c] = "take" /\ data[pos[c]] = val[c]
  /\ data' = [data EXCEPT ![pos[c]] = NULL]
  /\ pos' = [pos EXCEPT ![c] = 0] /\ Goto(c, "postfree")
  /\ UNCHANGED <<val, read_pos, write_pos, nfree, nused, running, stopper>>

\* A slot loses its element together with the consumer that had claimed it.
LEMMA BothOneLess ==
  ASSUME NEW w \in Nat, NEW st \in Nat, NEW re \in Nat
  PROVE  (1 + st = w + re => 0 + st = w + (re - 1)) /\ re - 0 = re
  OBVIOUS

\* A consumer takes the element out of the slot it has claimed.
LEMMA DequeueTakeStep ==
  ASSUME IInv, TypeOK', NEW c \in Consumers, TakesElement(c)
  PROVE  IInv'
<1>0. data[pos[c]] = val[c] /\ data' = [data EXCEPT ![pos[c]] = NULL]
  BY Zenon DEF TakesElement
<1>1. /\ pc[c] = "take" /\ pc' = [pc EXCEPT ![c] = "postfree"] /\ pos' = [pos EXCEPT ![c] = 0]
      /\ UNCHANGED <<val, read_pos, write_pos, nfree, nused, running, stop, snap>>
      /\ TypeOK
  BY Zenon DEF TakesElement, Goto, stopper, IInv
<1>2. OnlyMoves(c) /\ pc'[c] = "postfree"
  BY <1>1, OnlyMovesIntro, ZenonT(30) DEF Threads
<1>3. /\ Claiming' = Claiming /\ Storing' = Storing /\ Posting' = Posting
      /\ Checking' = Checking /\ Reading' = Reading - 1 /\ Freeing' = Freeing + 1
  BY <1>1, <1>2, ConsumerTakes, Zenon
<1>4. \A s \in Slots : /\ StoringAt(s)' = StoringAt(s)
                       /\ ReadingAt(s)' = ReadingAt(s) - Indicator(s = pos[c])
  BY <1>1, <1>2, ConsumerTakes, Zenon
<1>5. Unread' = Unread
  <2>1. nused' = nused /\ running' = running
    BY <1>1, Zenon
  <2> QED
    BY <1>3, <2>1, Zenon DEF Unread
<1>6. val[c] # NULL /\ pos[c] \in Slots
  BY <1>1, Zenon DEF IInv, CarryInv, TypeOK, Threads
<1>7. WindowInv' /\ FreeInv'
  <2>1. WindowInv'
    BY <1>1, <1>5, SMTT(30) DEF IInv, WindowInv
  <2>2. FreeInv'
    BY <1>1, <1>3, <1>5, CountsNat, UnreadBound, LenAssumption, SMTT(30) DEF IInv, FreeInv, TypeOK
  <2> QED
    BY <2>1, <2>2, Zenon
<1>8. ElementInv'
  <2>1. Elements' \ {pos[c]} = Elements \ {pos[c]}
    BY <1>0, <1>1, Zenon DEF TypeOK, Elements
  <2>2. pos[c] \notin Elements' /\ pos[c] \in Elements
    BY <1>0, <1>1, <1>6, SMTT(60) DEF TypeOK, Elements
  <2>3. Card(Elements') = Card(Elements) - 1 /\ Card(Elements) \in Nat
    BY <2>1, <2>2, ElementsFinite, CardChange DEF Indicator
  <2>4. Card(Elements)' = Card(Elements')
    BY Zenon DEF Card
  <2> QED
    BY <1>3, <1>5, <2>3, <2>4, CountsNat, UnreadBound, LenAssumption, SMTT(30) DEF IInv, ElementInv
<1>9. SlotInv'
  <2>1. \A s \in Slots : InWindow(s)' = InWindow(s)
    BY <1>1, <1>5, WindowStays, Zenon
  <2>2. \A s \in Slots : data'[s] = IF s = pos[c] THEN NULL ELSE data[s]
    BY <1>0, <1>1, Zenon DEF TypeOK
  <2> SUFFICES ASSUME NEW s \in Slots
               PROVE  Indicator(data'[s] # NULL) + StoringAt(s)' = Indicator(InWindow(s)') + ReadingAt(s)'
    BY Zenon DEF SlotInv, Indicator
  <2>3. Indicator(data[s] # NULL) + StoringAt(s) = Indicator(InWindow(s)) + ReadingAt(s)
    BY Zenon DEF IInv, SlotInv
  <2>4. /\ StoringAt(s)' = StoringAt(s) /\ InWindow(s)' = InWindow(s)
        /\ ReadingAt(s)' = ReadingAt(s) - Indicator(s = pos[c])
        /\ StoringAt(s) \in Nat /\ ReadingAt(s) \in Nat
    BY <1>4, <2>1, CountsNat, ZenonT(30)
  <2>5. CASE s = pos[c]
    <3>1. data[s] # NULL /\ data'[s] = NULL
      BY <1>0, <1>6, <2>2, <2>5, Zenon
    <3> QED
      <4>1. /\ Indicator(data[s] # NULL) = 1 /\ Indicator(data'[s] # NULL) = 0
            /\ Indicator(s = pos[c]) = 1 /\ Indicator(InWindow(s)) \in Nat
            /\ Indicator(InWindow(s)') = Indicator(InWindow(s))
        BY <2>4, <2>5, <3>1, Zenon DEF Indicator
      <4>2. 1 + StoringAt(s) = Indicator(InWindow(s)) + ReadingAt(s)
        BY <2>3, <4>1, Zenon
      <4>3. 0 + StoringAt(s) = Indicator(InWindow(s)) + (ReadingAt(s) - 1)
        BY <2>4, <4>1, <4>2, BothOneLess, Zenon
      <4>4. StoringAt(s)' = StoringAt(s) /\ ReadingAt(s)' = ReadingAt(s) - 1
        BY <2>4, <4>1, Zenon
      <4> QED
        BY <4>1, <4>3, <4>4, Zenon
  <2>6. CASE s # pos[c]
    <3>1. data'[s] = data[s]
      BY <2>2, <2>6, ZenonT(30)
    <3> QED
      <4>1. /\ Indicator(data'[s] # NULL) = Indicator(data[s] # NULL)
            /\ Indicator(s = pos[c]) = 0 /\ Indicator(InWindow(s)) \in Nat
            /\ Indicator(InWindow(s)') = Indicator(InWindow(s))
        BY <2>4, <2>6, <3>1, Zenon DEF Indicator
      <4>2. ReadingAt(s)' = ReadingAt(s) - 0
        BY <2>4, <4>1, Zenon
      <4>3. ReadingAt(s) - 0 = ReadingAt(s)
        BY <2>4, <4>1, BothOneLess, Zenon
      <4> QED
        BY <2>3, <2>4, <4>1, <4>2, <4>3, Zenon
  <2> QED
    BY <2>5, <2>6, Zenon
<1>10. CarryInv'
  BY <1>1, <1>6, ThreadsAssumption, SMTT(30) DEF IInv, CarryInv, TypeOK, Threads
<1>11. StopInv'
  BY <1>1, <1>5, ThreadsAssumption, ZenonT(30)
     DEF IInv, StopInv, TypeOK, Threads, At, ProducerReady
<1> QED
  BY <1>7, <1>8, <1>9, <1>10, <1>11, ZenonT(30) DEF IInv

\* A consumer gives its free token back.
LEMMA DequeuePostStep ==
  ASSUME IInv, TypeOK', NEW c \in Consumers, dequeue_post(c)
  PROVE  IInv'
<1>1. /\ pc[c] = "postfree"
      /\ pc' = [pc EXCEPT ![c] = "idle"]
      /\ nfree' = nfree + 1
      /\ val' = [val EXCEPT ![c] = NULL]
      /\ UNCHANGED <<read_pos, write_pos, nused, running, data, pos, stop, snap>>
      /\ TypeOK
  BY Zenon DEF dequeue_post, Goto, stopper, IInv
<1>2. OnlyMoves(c) /\ pc'[c] = "idle"
  BY <1>1, OnlyMovesIntro, ZenonT(30) DEF Threads
<1>3. /\ Claiming' = Claiming /\ Storing' = Storing /\ Posting' = Posting
      /\ Checking' = Checking /\ Reading' = Reading /\ Freeing' = Freeing - 1
  BY <1>1, <1>2, ConsumerMove, CountsNat, SMTT(60) DEF Indicator
<1>4. SlotsQuiet
  BY <1>1, <1>2, ConsumerMoveSlot, CountsNat, SMTT(60) DEF Indicator, SlotsQuiet
<1>5. Unread' = Unread
  BY <1>1, <1>3, Zenon DEF Unread
<1>6. WindowInv' /\ ElementInv' /\ SlotInv'
  BY <1>1, <1>3, <1>4, <1>5, Quiet, ZenonT(30)
<1>7. FreeInv'
  BY <1>1, <1>3, <1>5, CountsNat, UnreadBound, LenAssumption, SMTT(30) DEF IInv, FreeInv, TypeOK
<1>8. CarryInv'
  BY <1>1, ThreadsAssumption, SMTT(30) DEF IInv, CarryInv, TypeOK, Threads
<1>9. StopInv'
  BY <1>1, <1>5, ThreadsAssumption, ZenonT(30)
     DEF IInv, StopInv, TypeOK, Threads, At, ProducerReady
<1> QED
  BY <1>6, <1>7, <1>8, <1>9, ZenonT(30) DEF IInv

-----------------------------------------------------------------------------
(***************************************************************************)
(* Types, the stop, and the theorems.                                      *)
(***************************************************************************)

\* Every step of every thread keeps the types.
LEMMA TypeStep == TypeOK /\ [Next]_vars => TypeOK'
<1> USE LenAssumption, MaxAssumption DEF TypeOK, Threads, Slots, Positions
<1>0. PosSpace \in Nat \ {0}
  BY PosSpacePositive, Zenon
<1> SUFFICES ASSUME TypeOK, [Next]_vars PROVE TypeOK'
  BY Zenon
<1> USE ThreadsAssumption DEF ProducerPc, ConsumerPc, ProducerReady, ConsumerReady,
      StopPc, Goto, ring, stopper
<1>1. \A x \in Positions : Advance(x) \in Positions /\ x % Len \in Slots
  BY <1>0, DivMod DEF Advance
<1>2. ASSUME NEW p \in Producers, ProducerStep(p) PROVE TypeOK'
  <2>1. ASSUME NEW d \in Data, ringbuf_enqueue(p, d) \/ ringbuf_tryenqueue(p, d)
        PROVE  TypeOK'
    <3>1. CASE nfree > 0 /\ TakeFree(p, d)
      BY <3>1 DEF TakeFree
    <3>2. CASE Goto(p, "full") /\ UNCHANGED <<ring, pos, val, stopper>>
      BY <3>2, Zenon
    <3> QED
      BY <2>1, <3>1, <3>2, ZenonT(30) DEF ringbuf_enqueue, ringbuf_tryenqueue
  <2>2. CASE enqueue_claim(p)
    BY <1>1, <2>2, ZenonT(30) DEF enqueue_claim
  <2>3. CASE enqueue_store(p)
    BY <2>3 DEF enqueue_store
  <2>4. CASE enqueue_post(p)
    BY <2>4 DEF enqueue_post
  <2> QED
    BY <1>2, <2>1, <2>2, <2>3, <2>4, ZenonT(30) DEF ProducerStep
<1>3. ASSUME NEW c \in Consumers, ConsumerStep(c) PROVE TypeOK'
  <2>1. CASE ringbuf_dequeue(c) \/ ringbuf_trydequeue(c)
    <3>1. CASE nused > 0 /\ TakeUsed(c)
      BY <3>1 DEF TakeUsed
    <3>2. CASE Goto(c, "empty") /\ UNCHANGED <<ring, pos, val, stopper>>
      BY <3>2, Zenon
    <3> QED
      BY <2>1, <3>1, <3>2, ZenonT(30) DEF ringbuf_dequeue, ringbuf_trydequeue
  <2>2. CASE dequeue_check(c)
    BY <2>2, Zenon DEF dequeue_check
  <2>3. CASE dequeue_claim(c)
    BY <1>1, <2>3, ZenonT(30) DEF dequeue_claim
  <2>4. CASE dequeue_load(c)
    BY <2>4, ZenonT(30) DEF dequeue_load
  <2>5. CASE dequeue_take(c)
    <3>1. CASE data[pos[c]] = val[c]
      <4>1. /\ data' = [data EXCEPT ![pos[c]] = NULL]
            /\ pos' = [pos EXCEPT ![c] = 0]
            /\ pc' = [pc EXCEPT ![c] = "postfree"]
            /\ UNCHANGED <<read_pos, write_pos, nfree, nused, running, val, stopper>>
        BY <2>5, <3>1, Zenon DEF dequeue_take
      <4> QED
        BY <4>1
    <3>2. CASE data[pos[c]] # val[c]
      BY <2>5, <3>2, ZenonT(30) DEF dequeue_take
    <3> QED
      BY <3>1, <3>2, SMTT(30)
  <2>6. CASE dequeue_post(c)
    BY <2>6 DEF dequeue_post
  <2> QED
    BY <1>3, <2>1, <2>2, <2>3, <2>4, <2>5, <2>6, ZenonT(60) DEF ConsumerStep, DequeueStep
<1>4. CASE ringbuf_stop
  BY <1>4, Zenon DEF ringbuf_stop
<1>5. CASE StopStep
  <2>1. CASE stop_read
    BY <2>1, Zenon DEF stop_read
  <2>2. CASE stop_compare
    BY <1>0, <2>2 DEF stop_compare
  <2>3. CASE stop_clear
    BY <2>3, ZenonT(30) DEF stop_clear
  <2>4. CASE stop_post
    BY <2>4 DEF stop_post
  <2>5. CASE ringbuf_delete
    BY <2>5, Zenon DEF ringbuf_delete
  <2> QED
    BY <1>5, <2>1, <2>2, <2>3, <2>4, <2>5, ZenonT(30) DEF StopStep
<1>6. CASE Terminated \/ UNCHANGED vars
  BY <1>6, Zenon DEF Terminated, vars
<1> QED
  BY <1>2, <1>3, <1>4, <1>5, <1>6, ZenonT(30) DEF Next

\* The variables keep their types through every step of every thread.
THEOREM Typing == Spec => []TypeOK
<1>1. Init => TypeOK
  BY PosSpacePositive, LenAssumption, MaxAssumption
     DEF Init, TypeOK, Threads, Slots, Positions, ProducerPc, ConsumerPc,
         ProducerReady, ConsumerReady, StopPc
<1> QED
  BY <1>1, TypeStep, PTL DEF Spec

\* A step in which no thread moves changes no count.
LEMMA NoMove ==
  ASSUME UNCHANGED <<pc, pos>>
  PROVE  /\ Claiming' = Claiming /\ Storing' = Storing /\ Posting' = Posting
         /\ Checking' = Checking /\ Reading' = Reading /\ Freeing' = Freeing
         /\ SlotsQuiet
<1>1. \A S, L : At(S, L)' = At(S, L)
  BY Zenon DEF At
<1>2. \A S, L, s : AtSlot(S, L, s)' = AtSlot(S, L, s)
  BY Zenon DEF At, AtSlot
<1>3. \A S, L : Card(At(S, L))' = Card(At(S, L))
  BY <1>1, Zenon DEF Card
<1>4. \A S, L, s : Card(AtSlot(S, L, s))' = Card(AtSlot(S, L, s))
  BY <1>2, Zenon DEF Card
<1>5. SlotsQuiet
  BY <1>4, Zenon DEF SlotsQuiet, StoringAt, ReadingAt
<1> QED
  BY <1>3, <1>5, Zenon DEF Claiming, Storing, Posting, Checking, Reading, Freeing

\* A step of the stopper that keeps the number of unread positions.
LEMMA StopperQuiet ==
  ASSUME IInv, TypeOK', Unread' = Unread, StopInv',
         UNCHANGED <<read_pos, write_pos, nfree, data, pc, pos, val>>
  PROVE  IInv'
<1>1. /\ Claiming' = Claiming /\ Storing' = Storing /\ Posting' = Posting
      /\ Checking' = Checking /\ Reading' = Reading /\ Freeing' = Freeing
      /\ SlotsQuiet
  BY NoMove, Zenon
<1>2. WindowInv' /\ ElementInv' /\ SlotInv'
  BY <1>1, Quiet, Zenon
<1>3. FreeInv'
  BY <1>1, Zenon DEF IInv, FreeInv
<1>4. CarryInv'
  BY Zenon DEF IInv, CarryInv
<1> QED
  BY <1>2, <1>3, <1>4, Zenon DEF IInv

\* The counters agree only when nothing is unread: the window is shorter than
\* the counters' range.
LEMMA WindowEmpty ==
  ASSUME TypeOK, FreeInv, WindowInv, read_pos = write_pos
  PROVE  Unread = 0
<1>1. Unread \in 0..Len /\ read_pos \in 0..PosSpace-1
  BY UnreadBound, Zenon DEF TypeOK, Positions
<1>2. PICK k \in 2..PosSpace : PosSpace = k * Len
  BY PosAssumption, Zenon
<1>3. PosSpace \in Nat \ {0} /\ Len < PosSpace
  BY <1>2, PosSpacePositive, LenAssumption
<1>4. read_pos % PosSpace = read_pos
  BY <1>1, <1>3
<1>5. ASSUME Unread # 0 PROVE FALSE
  <2>1. Unread \in 1..PosSpace-1 /\ read_pos \in Nat
    BY <1>1, <1>3, <1>5, LenAssumption
  <2> QED
    BY <1>3, <1>4, <2>1, ModDistinct, ZenonT(30) DEF WindowInv
<1> QED
  BY <1>5, Zenon

\* The steps of ringbuf_stop and ringbuf_delete.
LEMMA StopperStep ==
  ASSUME IInv, TypeOK', ringbuf_stop \/ StopStep
  PROVE  IInv'
<1> USE DEF ring, stopper
<1>1. CASE ringbuf_stop
  <2>1. /\ stop = "idle" /\ stop' = "read"
        /\ \A p \in Producers : pc[p] \in ProducerReady
        /\ UNCHANGED <<read_pos, write_pos, nfree, nused, running, data, pc, pos, val, snap>>
    BY <1>1, Zenon DEF ringbuf_stop
  <2>2. Unread' = Unread
    BY <2>1, NoMove, Zenon DEF Unread
  <2>3. StopInv'
    BY <2>1, <2>2, Zenon DEF IInv, StopInv, At
  <2> QED
    BY <2>1, <2>2, <2>3, StopperQuiet, Zenon
<1>2. CASE stop_read
  <2>1. /\ stop = "read" /\ stop' = "compare" /\ snap' = read_pos
        /\ UNCHANGED <<read_pos, write_pos, nfree, nused, running, data, pc, pos, val>>
    BY <1>2, Zenon DEF stop_read
  <2>2. Unread' = Unread
    BY <2>1, NoMove, Zenon DEF Unread
  <2>3. snap' = write_pos' => Unread' = 0
    BY <2>1, <2>2, WindowEmpty, Zenon DEF IInv
  <2>4. StopInv'
    BY <2>1, <2>2, <2>3, Zenon DEF IInv, StopInv, At
  <2> QED
    BY <2>1, <2>2, <2>4, StopperQuiet, Zenon
<1>3. CASE stop_compare
  <2>1. /\ stop = "compare" /\ stop' = IF snap = write_pos THEN "clear" ELSE "read"
        /\ UNCHANGED <<read_pos, write_pos, nfree, nused, running, data, pc, pos, val>>
    BY <1>3, Zenon DEF stop_compare
  <2>2. Unread' = Unread
    BY <2>1, NoMove, Zenon DEF Unread
  <2>3. StopInv'
    BY <2>1, <2>2, Zenon DEF IInv, StopInv, At
  <2> QED
    BY <2>1, <2>2, <2>3, StopperQuiet, Zenon
<1>4. CASE stop_clear
  <2>1. /\ stop = "clear" /\ stop' = "post" /\ running' = FALSE
        /\ UNCHANGED <<read_pos, write_pos, nfree, nused, data, pc, pos, val>>
    BY <1>4, Zenon DEF stop_clear
  <2>2. running /\ Unread = 0 /\ Unread' = 0
    BY <2>1, Zenon DEF IInv, StopInv, Unread
  <2>3. At(Consumers, {"claim"}) = {}
    <3>1. Checking = 0
      BY <2>2, CountsNat DEF Unread, IInv, TypeOK
    <3>2. At(Consumers, {"check", "claim"}) = {}
      BY <3>1, CardPositive, AtFinite, ThreadsAssumption DEF Checking
    <3> QED
      BY <3>2, Zenon DEF At
  <2>4. StopInv'
    BY <2>1, <2>2, <2>3, Zenon DEF IInv, StopInv, At
  <2> QED
    BY <2>1, <2>2, <2>4, StopperQuiet, Zenon
<1>5. CASE stop_post
  <2>1. /\ stop = "post" /\ stop' \in {"post", "stopped"}
        /\ UNCHANGED <<read_pos, write_pos, nfree, running, data, pc, pos, val, snap>>
    BY <1>5, Zenon DEF stop_post
  <2>2. ~running /\ Unread' = Unread
    BY <2>1, Zenon DEF IInv, StopInv, Unread
  <2>3. StopInv'
    BY <2>1, <2>2, Zenon DEF IInv, StopInv, At
  <2> QED
    BY <2>1, <2>2, <2>3, StopperQuiet, Zenon
<1>6. CASE ringbuf_delete
  <2>1. /\ stop = "stopped" /\ stop' = "deleted"
        /\ \A c \in Consumers : pc[c] = "null"
        /\ UNCHANGED <<read_pos, write_pos, nfree, nused, running, data, pc, pos, val, snap>>
    BY <1>6, Zenon DEF ringbuf_delete
  <2>2. Unread' = Unread
    BY <2>1, NoMove, Zenon DEF Unread
  <2>3. StopInv'
    BY <2>1, <2>2, Zenon DEF IInv, StopInv, At
  <2> QED
    BY <2>1, <2>2, <2>3, StopperQuiet, Zenon
<1> QED
  BY <1>1, <1>2, <1>3, <1>4, <1>5, <1>6, Zenon DEF StopStep

\* A new ring satisfies the invariant.
LEMMA InvariantInit == Init => IInv
<1> SUFFICES ASSUME Init PROVE IInv
  BY Zenon
<1> USE LenAssumption
<1>1. TypeOK
  BY PosSpacePositive, MaxAssumption
     DEF Init, TypeOK, Threads, Slots, Positions, ProducerPc, ConsumerPc,
         ProducerReady, ConsumerReady, StopPc
<1>2. \A t \in Threads : pc[t] = "idle"
  BY Zenon DEF Init
<1>3. \A S \in SUBSET Threads : \A L : "idle" \notin L =>
        At(S, L) = {} /\ \A s : AtSlot(S, L, s) = {}
  BY <1>2, Zenon DEF At, AtSlot
<1>4. Producers \in SUBSET Threads /\ Consumers \in SUBSET Threads
  BY Zenon DEF Threads
<1>5. Card({}) = 0
  BY FS_EmptySet, Zenon DEF Card
<1>6. /\ Claiming = 0 /\ Storing = 0 /\ Posting = 0
      /\ Checking = 0 /\ Reading = 0 /\ Freeing = 0
      /\ \A s : StoringAt(s) = 0 /\ ReadingAt(s) = 0
  <2>1. /\ At(Producers, {"claim"}) = {}
        /\ At(Producers, {"store"}) = {}
        /\ At(Producers, {"postused"}) = {}
    BY <1>3, <1>4, Zenon
  <2>2. /\ At(Consumers, {"check", "claim"}) = {}
        /\ At(Consumers, {"load", "take"}) = {}
        /\ At(Consumers, {"postfree"}) = {}
    BY <1>3, <1>4, Zenon
  <2>3. /\ \A s : AtSlot(Producers, {"store"}, s) = {}
        /\ \A s : AtSlot(Consumers, {"load", "take"}, s) = {}
    BY <2>1, <2>2, Zenon DEF AtSlot
  <2> QED
    BY <1>5, <2>1, <2>2, <2>3, Zenon
       DEF Claiming, Storing, Posting, Checking, Reading, Freeing, StoringAt, ReadingAt
<1>7. Unread = 0
  BY <1>6 DEF Init, Unread
<1>8. WindowInv
  BY <1>7, PosSpacePositive DEF Init, WindowInv
<1>9. FreeInv
  BY <1>6, <1>7 DEF Init, FreeInv
<1>10. ElementInv
  <2>1. Elements = {}
    BY Zenon DEF Init, Elements
  <2> QED
    BY <1>5, <1>6, <1>7, <2>1 DEF ElementInv
<1>11. SlotInv
  <2>1. \A s \in Slots : ~InWindow(s) /\ data[s] = NULL
    BY <1>7 DEF Init, InWindow
  <2> QED
    BY <1>6, <2>1, Zenon DEF SlotInv, Indicator
<1>12. CarryInv
  BY Zenon DEF Init, CarryInv, Threads
<1>13. StopInv
  BY Zenon DEF Init, StopInv
<1> QED
  BY <1>1, <1>8, <1>9, <1>10, <1>11, <1>12, <1>13, Zenon DEF IInv

\* Every step preserves the invariant.
LEMMA InvariantStep == IInv /\ [Next]_vars => IInv'
<1> SUFFICES ASSUME IInv, [Next]_vars PROVE IInv'
  BY Zenon
<1>1. TypeOK'
  BY TypeStep, Zenon DEF IInv
<1>2. ASSUME NEW p \in Producers, ProducerStep(p) PROVE IInv'
  <2>1. ASSUME NEW d \in Data, ringbuf_enqueue(p, d) \/ ringbuf_tryenqueue(p, d)
        PROVE  IInv'
    <3>1. CASE MayEnqueue(p) /\ nfree > 0 /\ TakeFree(p, d)
      BY <1>1, <3>1, TakeFreeStep, Zenon
    <3>2. CASE MayEnqueue(p) /\ Goto(p, "full") /\ UNCHANGED <<ring, pos, val, stopper>>
      BY <1>1, <3>2, FullStep, Zenon
    <3> QED
      BY <2>1, <3>1, <3>2, Zenon DEF ringbuf_enqueue, ringbuf_tryenqueue
  <2> QED
    BY <1>1, <1>2, <2>1, EnqueueClaimStep, EnqueueStoreStep, EnqueuePostStep, Zenon DEF ProducerStep
<1>3. ASSUME NEW c \in Consumers, ConsumerStep(c) PROVE IInv'
  <2>1. CASE ringbuf_dequeue(c) \/ ringbuf_trydequeue(c)
    <3>1. CASE pc[c] \in ConsumerReady /\ nused > 0 /\ TakeUsed(c)
      BY <1>1, <3>1, TakeUsedStep, Zenon
    <3>2. CASE pc[c] \in ConsumerReady /\ Goto(c, "empty") /\ UNCHANGED <<ring, pos, val, stopper>>
      BY <1>1, <3>2, EmptyStep, Zenon
    <3> QED
      BY <2>1, <3>1, <3>2, Zenon DEF ringbuf_dequeue, ringbuf_trydequeue
  <2>2. CASE dequeue_load(c)
    <3>1. /\ pc[c] = "load" /\ Goto(c, "take") /\ UNCHANGED <<ring, pos, stopper>>
          /\ data[pos[c]] # NULL /\ val' = [val EXCEPT ![c] = data[pos[c]]]
      BY <2>2, Zenon DEF dequeue_load
    <3>2. val'[c] # NULL /\ \A u \in Threads \ {c} : val'[u] = val[u]
      BY <3>1, Zenon DEF IInv, TypeOK, Threads
    <3> QED
      BY <1>1, <3>1, <3>2, DequeueLoadStep, Zenon
  <2>3. CASE dequeue_take(c)
    <3>1. CASE data[pos[c]] = val[c]
      BY <1>1, <2>3, <3>1, DequeueTakeStep, Zenon DEF dequeue_take, TakesElement
    <3>2. CASE data[pos[c]] # val[c]
      <4>1. /\ pc[c] = "take" /\ Goto(c, "load") /\ UNCHANGED <<ring, pos, stopper>>
            /\ val' = [val EXCEPT ![c] = NULL]
        BY <2>3, <3>2, Zenon DEF dequeue_take, ring
      <4>2. val'[c] = NULL /\ \A u \in Threads \ {c} : val'[u] = val[u]
        BY <4>1, Zenon DEF IInv, TypeOK, Threads
      <4> QED
        BY <1>1, <4>1, <4>2, DequeueLoadStep, SMTT(30)
    <3> QED
      BY <3>1, <3>2, Zenon
  <2> QED
    BY <1>1, <1>3, <2>1, <2>2, <2>3, DequeueCheckStep, DequeueClaimStep, DequeuePostStep, SMTT(30)
       DEF ConsumerStep, DequeueStep
<1>4. CASE UNCHANGED vars
  <2>1. UNCHANGED <<read_pos, write_pos, nfree, nused, running, data, pc, pos, val, stop, snap>>
    BY <1>4, Zenon DEF vars, ring, stopper
  <2>2. Unread' = Unread
    BY <2>1, NoMove, Zenon DEF Unread
  <2>3. StopInv'
    BY <2>1, <2>2, Zenon DEF IInv, StopInv, At
  <2> QED
    BY <1>1, <2>1, <2>2, <2>3, StopperQuiet, Zenon
<1> QED
  BY <1>1, <1>2, <1>3, <1>4, StopperStep, Zenon DEF Next, Terminated

\* The accounts of tokens, positions and elements hold in every state of every
\* ring.
THEOREM Accounting == Spec => []IInv
  BY InvariantInit, InvariantStep, PTL DEF Spec

\* The busy loops of ringbuf_enqueue_atomic and ringbuf_dequeue_atomic always
\* wait for a thread that is on its way.
THEOREM SpinningIsHelped == Spec => []SpinPartner
<1>1. IInv => SpinPartner
  <2> SUFFICES ASSUME IInv PROVE SpinPartner
    BY Zenon
  <2>1. ASSUME NEW p \in At(Producers, {"store"}), data[pos[p]] # NULL
        PROVE  AtSlot(Consumers, {"load", "take"}, pos[p]) # {}
    <3>1. p \in Producers /\ pos[p] \in Slots
      BY Zenon DEF At, IInv, TypeOK, Threads
    <3>2. StoringAt(pos[p]) >= 1
      <4>1. p \in AtSlot(Producers, {"store"}, pos[p])
        BY Zenon DEF AtSlot
      <4>2. IsFiniteSet(AtSlot(Producers, {"store"}, pos[p]))
        BY ThreadsAssumption, AtFinite, Zenon
      <4> QED
        BY <4>1, <4>2, CardPositive, Zenon DEF StoringAt
    <3>3. ReadingAt(pos[p]) >= 1
      BY <2>1, <3>1, <3>2, CountsNat DEF IInv, SlotInv, Indicator
    <3> QED
      BY <3>3, FS_EmptySet DEF ReadingAt, Card
  <2>2. ASSUME NEW c \in At(Consumers, {"load", "take"}), data[pos[c]] = NULL
        PROVE  AtSlot(Producers, {"store"}, pos[c]) # {}
    <3>1. c \in Consumers /\ pos[c] \in Slots
      BY Zenon DEF At, IInv, TypeOK, Threads
    <3>2. ReadingAt(pos[c]) >= 1
      <4>1. c \in AtSlot(Consumers, {"load", "take"}, pos[c])
        BY Zenon DEF AtSlot
      <4>2. IsFiniteSet(AtSlot(Consumers, {"load", "take"}, pos[c]))
        BY ThreadsAssumption, AtFinite, Zenon
      <4> QED
        BY <4>1, <4>2, CardPositive, Zenon DEF ReadingAt
    <3>3. StoringAt(pos[c]) >= 1
      BY <2>2, <3>1, <3>2, CountsNat DEF IInv, SlotInv, Indicator
    <3> QED
      BY <3>3, FS_EmptySet DEF StoringAt, Card
  <2> QED
    BY <2>1, <2>2, Zenon DEF SpinPartner
<1> QED
  BY <1>1, Accounting, PTL

\* Stopping leaves no enqueue under way, and a deleted ring is empty, has its
\* counters equal and all its free tokens back.
THEOREM StopIsClean == Spec => []StopClean
<1>1. IInv => StopClean
  <2> SUFFICES ASSUME IInv PROVE StopClean
    BY Zenon
  <2>1. ~running => \A p \in Producers : pc[p] \in ProducerReady
    BY Zenon DEF IInv, StopInv, TypeOK, StopPc
  <2>2. ASSUME stop = "deleted"
        PROVE  read_pos = write_pos /\ Elements = {} /\ nfree = Len
    <3>1. ~running /\ Unread = 0 /\ \A c \in Consumers : pc[c] = "null"
      BY <2>2, Zenon DEF IInv, StopInv, Unread
    <3>2. \A p \in Producers : pc[p] \in {"idle", "full"}
      BY <2>1, <3>1, Zenon DEF ProducerReady
    <3>3. Claiming = 0 /\ Storing = 0 /\ Reading = 0 /\ Freeing = 0
      <4>1. /\ At(Producers, {"claim"}) = {} /\ At(Producers, {"store"}) = {}
            /\ At(Consumers, {"load", "take"}) = {} /\ At(Consumers, {"postfree"}) = {}
        BY <3>1, <3>2, Zenon DEF At
      <4> QED
        BY <4>1, FS_EmptySet, Zenon DEF Claiming, Storing, Reading, Freeing, Card
    <3>4. nfree = Len
      BY <3>1, <3>3 DEF IInv, FreeInv, TypeOK
    <3>5. Elements = {}
      BY <3>1, <3>3, ElementsFinite, CardPositive DEF IInv, ElementInv
    <3>6. read_pos = write_pos
      BY <3>1, PosSpacePositive DEF IInv, WindowInv, TypeOK, Positions
    <3> QED
      BY <3>4, <3>5, <3>6, Zenon
  <2> QED
    BY <2>1, <2>2, Zenon DEF StopClean
<1> QED
  BY <1>1, Accounting, PTL

------------------------------------------------------------------------------
(***************************************************************************)
(* The ring buffer implements the box of BoundedBuffer, for every number   *)
(* of threads, every length and every counter width: each step of a thread *)
(* is a step of the box or leaves the box alone. From the steps of the box *)
(* follows that it implements the bag of QueueBag too.                     *)
(***************************************************************************)

\* The box counts with the same Cardinality as the ring.
LEMMA BoxCardinality ==
  ASSUME NEW S
  PROVE  Box!Cardinality(S) = Cardinality(S)
  BY Zenon DEF Box!Cardinality, Cardinality, Box!IsFiniteSet, IsFiniteSet

\* While the ring runs, the consumers that are promised an element are those
\* that hold a token of nused.
LEMMA PromisedCount ==
  ASSUME running
  PROVE  Cardinality(Promised) = Checking + Reading
<1> DEFINE A == At(Consumers, {"check", "claim"})
           B == At(Consumers, {"load", "take"})
<1>1. Promised = A \cup B /\ A \cap B = {}
  BY Zenon DEF Promised, At
<1>2. IsFiniteSet(A) /\ IsFiniteSet(B)
  BY ThreadsAssumption, AtFinite, Zenon
<1>3. Cardinality(A \cup B) = Cardinality(A) + Cardinality(B) - Cardinality(A \cap B)
  BY <1>2, FS_Union, Zenon
<1>4. Cardinality(A \cap B) = 0 /\ Cardinality(A) \in Nat /\ Cardinality(B) \in Nat
  BY <1>1, <1>2, FS_EmptySet, FS_CardinalityType, Zenon
<1> QED
  BY <1>1, <1>3, <1>4 DEF Checking, Reading, Card

\* A step that changes neither the slots nor the flag, and no thread in a way
\* the box can see, is a stutter of the box.
LEMMA BoxStutter ==
  ASSUME UNCHANGED <<data, running>>,
         \A p \in Producers : val'[p] = val[p],
         \A c \in Consumers : /\ c \in Promised' <=> c \in Promised
                              /\ Got'[c] = Got[c]
  PROVE  UNCHANGED Box!bvars
<1>1. Offered' = Offered
  BY Zenon DEF Offered
<1>2. Promised' = Promised
  BY Zenon DEF Promised, At
<1>3. Got' = Got
  BY Zenon DEF Got
<1> QED
  BY <1>1, <1>2, <1>3, Zenon DEF Box!bvars

\* The steps of a producer: taking a free token offers the element, storing
\* puts it in the box.
LEMMA ProducerRefines ==
  ASSUME IInv, NEW p \in Producers, ProducerStep(p)
  PROVE  [Box!BNext]_(Box!bvars)
<1> USE ThreadsAssumption DEF ring, stopper
<1>0. TypeOK /\ CarryInv /\ StopInv
  BY Zenon DEF IInv
<1>1. ASSUME NEW l, pc' = [pc EXCEPT ![p] = l], UNCHANGED running
      PROVE  Promised' = Promised /\ ((\A c \in Consumers : val'[c] = val[c]) => Got' = Got)
  <2>1. \A c \in Consumers : pc'[c] = pc[c]
    BY <1>0, <1>1, Zenon DEF TypeOK, Threads
  <2>2. Promised' = Promised
    BY <1>1, <2>1, Zenon DEF Promised, At
  <2>3. (\A c \in Consumers : val'[c] = val[c]) => Got' = Got
    BY <2>1, Zenon DEF Got
  <2> QED
    BY <2>2, <2>3, Zenon
<1>2. ASSUME NEW d \in Data, MayEnqueue(p), TakeFree(p, d)
      PROVE  Box!Offer(p, d)
  <2>1. /\ pc' = [pc EXCEPT ![p] = "claim"] /\ val' = [val EXCEPT ![p] = d]
        /\ UNCHANGED <<data, running>> /\ stop = "idle" /\ pc[p] \in {"idle", "full"}
    BY <1>2, Zenon DEF MayEnqueue, TakeFree, Goto, ProducerReady
  <2>2. Promised' = Promised /\ Got' = Got
    BY <1>0, <1>1, <2>1, ZenonT(30) DEF TypeOK, Threads
  <2>3. running /\ val[p] = NULL
    BY <1>0, <2>1, Zenon DEF StopInv, CarryInv
  <2>4. Offered[p] = NULL /\ Offered' = [Offered EXCEPT ![p] = d]
    BY <1>0, <2>1, <2>3, ZenonT(30) DEF Offered, TypeOK, Threads
  <2> QED
    BY <2>1, <2>2, <2>3, <2>4, Zenon DEF Box!Offer
<1>3. ASSUME NEW l, pc' = [pc EXCEPT ![p] = l], UNCHANGED <<data, running, val>>
      PROVE  UNCHANGED Box!bvars
  <2>1. Promised' = Promised /\ Got' = Got
    BY <1>1, <1>3, ZenonT(30)
  <2> QED
    BY <1>3, <2>1, BoxStutter, Zenon
<1>4. CASE enqueue_store(p)
  <2>1. /\ pc[p] = "store" /\ pc' = [pc EXCEPT ![p] = "postused"]
        /\ data[pos[p]] = NULL /\ data' = [data EXCEPT ![pos[p]] = val[p]]
        /\ val' = [val EXCEPT ![p] = NULL] /\ UNCHANGED running
    BY <1>4, Zenon DEF enqueue_store, Goto
  <2>2. Promised' = Promised /\ Got' = Got
    BY <1>0, <1>1, <2>1, ZenonT(30) DEF TypeOK, Threads
  <2>3. running /\ val[p] # NULL /\ pos[p] \in Slots
    BY <1>0, <2>1, Zenon DEF StopInv, CarryInv, TypeOK, Threads, ProducerReady, StopPc
  <2>4. Offered[p] = val[p] /\ Offered' = [Offered EXCEPT ![p] = NULL]
    BY <1>0, <2>1, ZenonT(30) DEF Offered, TypeOK, Threads
  <2>5. Box!Put(p, pos[p])
    BY <2>1, <2>2, <2>3, <2>4, Zenon DEF Box!Put
  <2> QED
    BY <2>3, <2>5, Zenon DEF Box!BNext, Box!Cells, Slots
<1>5. ASSUME NEW d \in Data, ringbuf_enqueue(p, d) \/ ringbuf_tryenqueue(p, d)
      PROVE  [Box!BNext]_(Box!bvars)
  <2>1. CASE MayEnqueue(p) /\ TakeFree(p, d)
    BY <1>2, <2>1, Zenon DEF Box!BNext
  <2>2. CASE Goto(p, "full") /\ UNCHANGED <<ring, pos, val, stopper>>
    BY <1>3, <2>2, ZenonT(30) DEF Goto
  <2> QED
    BY <1>5, <2>1, <2>2, Zenon DEF ringbuf_enqueue, ringbuf_tryenqueue
<1>6. CASE enqueue_claim(p)
  BY <1>3, <1>6, ZenonT(30) DEF enqueue_claim, Goto
<1>7. CASE enqueue_post(p)
  BY <1>3, <1>7, ZenonT(30) DEF enqueue_post, Goto
<1> QED
  BY <1>4, <1>5, <1>6, <1>7, Zenon DEF ProducerStep
\* Consumer c moves alone and leaves the flag as it is.
ConsumerAlone(c) ==
  /\ \A t \in Threads \ {c} : pc'[t] = pc[t] /\ val'[t] = val[t]
  /\ UNCHANGED running

\* What the box sees of a consumer.
LEMMA ConsumerView ==
  ASSUME NEW c \in Consumers
  PROVE  /\ (c \in Promised) <=> (pc[c] \in {"claim", "load", "take"} \/ (running /\ pc[c] = "check"))
         /\ Got[c] = IF pc[c] = "postfree" THEN val[c] ELSE NULL
  BY Zenon DEF Promised, At, Got

\* The box does not see the other threads change.
LEMMA OthersView ==
  ASSUME NEW c \in Consumers, ConsumerAlone(c)
  PROVE  /\ Offered' = Offered
         /\ Promised' \ {c} = Promised \ {c}
         /\ \A e \in Consumers \ {c} : Got'[e] = Got[e]
<1>1. \A e \in Consumers \ {c} : pc'[e] = pc[e] /\ val'[e] = val[e]
  BY Zenon DEF ConsumerAlone, Threads
<1>2. \A p \in Producers : val'[p] = val[p]
  BY ThreadsAssumption, Zenon DEF ConsumerAlone, Threads
<1>3. Offered' = Offered
  BY <1>2, Zenon DEF Offered
<1>4. Promised' \ {c} = Promised \ {c}
  BY <1>1, Zenon DEF Promised, At, ConsumerAlone
<1>5. \A e \in Consumers \ {c} : Got'[e] = Got[e]
  BY <1>1, Zenon DEF Got
<1> QED
  BY <1>3, <1>4, <1>5, Zenon

\* What the box sees of a consumer after a step.
LEMMA ConsumerViewNext ==
  ASSUME NEW c \in Consumers, ConsumerAlone(c)
  PROVE  /\ (c \in Promised') <=> (pc'[c] \in {"claim", "load", "take"} \/ (running /\ pc'[c] = "check"))
         /\ Got'[c] = IF pc'[c] = "postfree" THEN val'[c] ELSE NULL
  BY Zenon DEF Promised, At, Got, ConsumerAlone

\* A consumer that is owed as much as before, and has returned from no take,
\* has left the box alone.
LEMMA ConsumerStutter ==
  ASSUME NEW c \in Consumers, ConsumerAlone(c), UNCHANGED data,
         (c \in Promised') <=> (c \in Promised),
         pc[c] # "postfree", pc'[c] # "postfree"
  PROVE  UNCHANGED Box!bvars
<1>1. Offered' = Offered /\ Promised' \ {c} = Promised \ {c}
  BY OthersView, Zenon
<1>2. Got'[c] = Got[c]
  BY ConsumerView, ConsumerViewNext, Zenon
<1>3. \A e \in Consumers : Got'[e] = Got[e]
  BY <1>2, OthersView, Zenon
<1>4. Got' = Got
  BY <1>3, Zenon DEF Got
<1>5. Promised' = Promised
  BY <1>1
<1> QED
  BY <1>1, <1>4, <1>5, Zenon DEF Box!bvars, ConsumerAlone

\* The steps of a consumer: a token of nused promises it an element, the CAS
\* that succeeds takes one, the return hands it to the caller.
LEMMA ConsumerRefines ==
  ASSUME IInv, NEW c \in Consumers, ConsumerStep(c)
  PROVE  [Box!BNext]_(Box!bvars)
<1> USE ThreadsAssumption DEF ring, stopper
<1>0. TypeOK /\ CarryInv /\ StopInv
  BY Zenon DEF IInv
<1>1. ASSUME NEW l, Goto(c, l), UNCHANGED running,
             val' = val \/ \E v : val' = [val EXCEPT ![c] = v]
      PROVE  ConsumerAlone(c) /\ pc'[c] = l
  BY <1>0, <1>1, Zenon DEF TypeOK, Threads, Goto, ConsumerAlone
<1>2. (c \in Promised) <=> (pc[c] \in {"claim", "load", "take"} \/ (running /\ pc[c] = "check"))
  BY ConsumerView, Zenon
<1>4. CASE pc[c] \in ConsumerReady /\ nused > 0 /\ TakeUsed(c)
  <2>1. /\ pc[c] \in {"idle", "empty"} /\ Goto(c, "check")
        /\ UNCHANGED <<data, running, val>>
    BY <1>4, Zenon DEF TakeUsed, ConsumerReady
  <2>2. ConsumerAlone(c) /\ pc'[c] = "check"
    BY <1>1, <2>1, ZenonT(30)
  <2>3. CASE running
    <3>1. c \in Promised' /\ c \notin Promised
      BY <1>2, <2>1, <2>2, <2>3, ConsumerViewNext, Zenon
    <3>2. Promised' = Promised \cup {c}
      BY <2>2, <3>1, OthersView, Zenon
    <3>3. Got' = Got /\ Got[c] = NULL
      <4>1. Got'[c] = NULL /\ Got[c] = NULL
        BY <2>1, <2>2, ConsumerView, ConsumerViewNext, Zenon
      <4>2. \A e \in Consumers : Got'[e] = Got[e]
        BY <2>2, <4>1, OthersView, ZenonT(30)
      <4> QED
        BY <4>1, <4>2, Zenon DEF Got
    <3>4. Cardinality(Promised) < Cardinality(Elements)
      BY <1>4, <2>3, PromisedCount, CountsNat, SMTT(30)
         DEF IInv, TypeOK, ElementInv, Unread, Card
    <3>5. Box!Filled = Elements
      BY Zenon DEF Box!Filled, Box!Cells, Elements, Slots
    <3>6. Offered' = Offered
      BY <2>2, OthersView, Zenon
    <3> QED
      <4>1. Box!Promise(c)
        BY <2>1, <2>3, <3>1, <3>2, <3>3, <3>4, <3>5, <3>6, BoxCardinality, Zenon DEF Box!Promise
      <4> QED
        BY <4>1, Zenon DEF Box!BNext
  <2>4. CASE ~running
    BY <1>2, <2>1, <2>2, <2>4, ConsumerViewNext, ConsumerStutter, ZenonT(30)
  <2> QED
    BY <2>3, <2>4, Zenon
<1>5. CASE ringbuf_dequeue(c) \/ ringbuf_trydequeue(c)
  <2>1. CASE pc[c] \in ConsumerReady /\ Goto(c, "empty") /\ UNCHANGED <<ring, pos, val, stopper>>
    <3>1. ConsumerAlone(c) /\ pc'[c] = "empty" /\ UNCHANGED data
      BY <1>1, <2>1, Zenon
    <3> QED
      BY <1>2, <2>1, <3>1, ConsumerViewNext, ConsumerStutter, ZenonT(30) DEF ConsumerReady
  <2> QED
    BY <1>4, <1>5, <2>1, Zenon DEF ringbuf_dequeue, ringbuf_trydequeue
<1>6. CASE dequeue_check(c)
  <2> DEFINE l == IF running THEN "claim" ELSE "null"
  <2>1. pc[c] = "check" /\ Goto(c, l) /\ UNCHANGED <<data, running, val>>
    BY <1>6, Zenon DEF dequeue_check
  <2>2. ConsumerAlone(c) /\ pc'[c] = l
    BY <1>1, <2>1, Zenon
  <2> QED
    BY <1>2, <2>1, <2>2, ConsumerViewNext, ConsumerStutter, Zenon
<1>7. CASE dequeue_claim(c)
  <2>1. pc[c] = "claim" /\ Goto(c, "load") /\ UNCHANGED <<data, running, val>>
    BY <1>7, Zenon DEF dequeue_claim
  <2>2. ConsumerAlone(c) /\ pc'[c] = "load"
    BY <1>1, <2>1, Zenon
  <2> QED
    BY <1>2, <2>1, <2>2, ConsumerViewNext, ConsumerStutter, Zenon
<1>8. CASE dequeue_load(c)
  <2>1. /\ pc[c] = "load" /\ Goto(c, "take")
        /\ UNCHANGED <<data, running>> /\ val' = [val EXCEPT ![c] = data[pos[c]]]
    BY <1>8, Zenon DEF dequeue_load
  <2>2. ConsumerAlone(c) /\ pc'[c] = "take"
    BY <1>1, <2>1, ZenonT(30)
  <2> QED
    BY <1>2, <2>1, <2>2, ConsumerViewNext, ConsumerStutter, Zenon
<1>9. CASE dequeue_take(c)
  <2>1. CASE data[pos[c]] = val[c]
    <3>1. /\ pc[c] = "take" /\ Goto(c, "postfree")
          /\ data' = [data EXCEPT ![pos[c]] = NULL]
          /\ UNCHANGED <<running, val>>
      BY <1>9, <2>1, Zenon DEF dequeue_take
    <3>2. ConsumerAlone(c) /\ pc'[c] = "postfree"
      BY <1>1, <3>1, Zenon
    <3>3. val[c] # NULL /\ pos[c] \in Slots
      BY <1>0, <3>1, Zenon DEF CarryInv, TypeOK, Threads
    <3>4. c \in Promised /\ c \notin Promised'
      BY <1>2, <3>1, <3>2, ConsumerViewNext, Zenon
    <3>5. Promised' = Promised \ {c}
      BY <3>2, <3>4, OthersView, Zenon
    <3>6. Got'[c] = data[pos[c]] /\ \A e \in Consumers \ {c} : Got'[e] = Got[e]
      BY <2>1, <3>1, <3>2, ConsumerViewNext, OthersView, Zenon
    <3>7. Got' = [Got EXCEPT ![c] = data[pos[c]]]
      BY <3>6, ZenonT(30) DEF Got
    <3>8. Offered' = Offered
      BY <3>2, OthersView, Zenon
    <3>9. Box!Take(c, pos[c])
      BY <2>1, <3>1, <3>3, <3>4, <3>5, <3>7, <3>8, ZenonT(30) DEF Box!Take
    <3> QED
      BY <3>3, <3>9, Zenon DEF Box!BNext, Box!Cells, Slots
  <2>2. CASE data[pos[c]] # val[c]
    <3>1. /\ pc[c] = "take" /\ Goto(c, "load")
          /\ UNCHANGED <<data, running>> /\ val' = [val EXCEPT ![c] = NULL]
      BY <1>9, <2>2, Zenon DEF dequeue_take
    <3>2. ConsumerAlone(c) /\ pc'[c] = "load"
      BY <1>1, <3>1, ZenonT(30)
    <3> QED
      BY <1>2, <3>1, <3>2, ConsumerViewNext, ConsumerStutter, Zenon
  <2> QED
    BY <2>1, <2>2, Zenon
<1>10. CASE dequeue_post(c)
  <2>1. /\ pc[c] = "postfree" /\ Goto(c, "idle")
        /\ val' = [val EXCEPT ![c] = NULL] /\ UNCHANGED <<data, running>>
    BY <1>10, Zenon DEF dequeue_post
  <2>2. ConsumerAlone(c) /\ pc'[c] = "idle"
    BY <1>1, <2>1, ZenonT(30)
  <2>3. Promised' = Promised /\ Offered' = Offered
    BY <1>2, <2>1, <2>2, ConsumerViewNext, OthersView, Zenon
  <2>4. Got[c] # NULL
    BY <1>0, <2>1, ConsumerView, Zenon DEF CarryInv
  <2>5. Got'[c] = NULL /\ \A e \in Consumers \ {c} : Got'[e] = Got[e]
    BY <2>2, ConsumerViewNext, OthersView, Zenon
  <2>6. Got' = [Got EXCEPT ![c] = NULL]
    BY <2>5, ZenonT(30) DEF Got
  <2> QED
    BY <2>1, <2>3, <2>4, <2>6, ZenonT(30) DEF Box!BNext, Box!Return
<1> QED
  BY <1>5, <1>6, <1>7, <1>8, <1>9, <1>10, ZenonT(30) DEF ConsumerStep, DequeueStep

\* The steps of the stopper: clearing the flag closes the box.
LEMMA StopperRefines ==
  ASSUME IInv, ringbuf_stop \/ StopStep
  PROVE  [Box!BNext]_(Box!bvars)
<1> USE DEF ring, stopper
<1>1. ASSUME UNCHANGED <<data, running, pc, val>>
      PROVE  UNCHANGED Box!bvars
  BY <1>1, BoxStutter, Zenon DEF Promised, At, Got
<1>2. CASE stop_clear
  <2>1. /\ stop = "clear" /\ running' = FALSE
        /\ UNCHANGED <<data, pc, val>>
    BY <1>2, Zenon DEF stop_clear
  <2>2. running /\ Unread = 0
    BY <2>1, Zenon DEF IInv, StopInv
  <2>3. Checking = 0 /\ Storing = 0
    BY <2>2, CountsNat DEF Unread, IInv, TypeOK
  <2>4. At(Consumers, {"check", "claim"}) = {}
    BY <2>3, CardPositive, AtFinite, ThreadsAssumption DEF Checking
  <2>5. Promised' = Promised /\ Offered' = Offered /\ Got' = Got
    BY <2>1, <2>4, Zenon DEF Promised, At, Offered, Got
  <2>6. \A p \in Producers : Offered[p] = NULL
    BY <2>1, Zenon DEF IInv, StopInv, CarryInv, ProducerReady, Offered
  <2>7. Cardinality(Promised) = Cardinality(Elements)
    <3>1. Cardinality(Promised) = Checking + Reading
      BY <2>2, PromisedCount, Zenon
    <3>2. Cardinality(Elements) = Unread - Storing + Reading
      BY Zenon DEF IInv, ElementInv, Card
    <3> QED
      BY <2>2, <2>3, <3>1, <3>2, CountsNat
  <2>8. Box!Filled = Elements
    BY Zenon DEF Box!Filled, Box!Cells, Elements, Slots
  <2> QED
    BY <2>1, <2>2, <2>5, <2>6, <2>7, <2>8, BoxCardinality, Zenon
       DEF Box!BNext, Box!Close
<1> QED
  BY <1>1, <1>2, Zenon
     DEF StopStep, ringbuf_stop, stop_read, stop_compare, stop_post, ringbuf_delete

\* Every step of the ring is a step of the box or leaves it alone.
LEMMA BoxStep ==
  ASSUME IInv, [Next]_vars
  PROVE  [Box!BNext]_(Box!bvars)
<1>1. CASE UNCHANGED vars
  BY <1>1, BoxStutter, Zenon DEF vars, ring, Promised, At, Got
<1> QED
  BY <1>1, ProducerRefines, ConsumerRefines, StopperRefines, Zenon DEF Next, Terminated

\* The ring implements the box.
THEOREM Refinement == Spec => ImplementsBox
<1>1. Init => Box!BInit
  BY Zenon DEF Init, Box!BInit, Box!Cells, Slots, Offered, Promised, At, Got, Threads
<1>2. IInv /\ [Next]_vars => [Box!BNext]_(Box!bvars)
  BY BoxStep, Zenon
<1> QED
  BY <1>1, <1>2, Accounting, PTL DEF Spec, ImplementsBox, Box!BSpec

-----------------------------------------------------------------------------
\* What the two abstractions of the ring see has its type.
LEMMA ViewTypes ==
  ASSUME TypeOK
  PROVE  /\ Offered \in [Producers -> Data \cup {NULL}]
         /\ data \in [Slots -> Data \cup {NULL}]
         /\ Got \in [Consumers -> Data \cup {NULL}]
  BY Zenon DEF TypeOK, Threads, Offered, Got

\* The arguments that f maps into S.
Into(X, f, S) == {x \in X : f[x] \in S}

\* g is f, a function on X, with the value v at x.
Changed(X, f, g, x, v) ==
  /\ DOMAIN f = X
  /\ g = [f EXCEPT ![x] = v]

\* When a function is changed at one argument, the number of arguments it maps
\* into S changes by whether that one is mapped into S.
LEMMA CountChange ==
  ASSUME NEW X, IsFiniteSet(X), NEW f, NEW g, NEW x \in X, NEW v, Changed(X, f, g, x, v),
         NEW S
  PROVE  Cardinality(Into(X, g, S))
           = Cardinality(Into(X, f, S)) + Indicator(v \in S) - Indicator(f[x] \in S)
<1> DEFINE A == Into(X, f, S)
           B == Into(X, g, S)
<1>1. IsFiniteSet(A)
  BY FS_Subset, Zenon DEF Into
<1>2. A \ {x} = B \ {x}
  BY Zenon DEF Into, Changed
<1>3. Card(B) = Card(A) + Indicator(x \in B) - Indicator(x \in A)
  BY <1>1, <1>2, CardChange, Zenon
<1>4. (x \in B <=> v \in S) /\ (x \in A <=> f[x] \in S)
  BY Zenon DEF Into, Changed
<1> QED
  BY <1>3, <1>4, Zenon DEF Card, Indicator

\* The elements that are counted are finitely many.
LEMMA CopiesNat ==
  ASSUME NEW S
  PROVE  /\ Cardinality(Offering(S)) \in Nat
         /\ Cardinality(Stored(S)) \in Nat
         /\ Cardinality(Taken(S)) \in Nat
         /\ Copies(S) \in Nat
<1>1. IsFiniteSet(Slots)
  BY LenAssumption, FS_Interval DEF Slots
<1>2. /\ IsFiniteSet(Offering(S))
      /\ IsFiniteSet(Stored(S))
      /\ IsFiniteSet(Taken(S))
  BY <1>1, ThreadsAssumption, FS_Subset, Zenon DEF Offering, Stored, Taken
<1> QED
  BY <1>2, FS_CardinalityType DEF Copies

\* The elements there are fill what the free tokens leave of the ring.
CopiesInv == Copies(Data) = Len - nfree

\* The accounting of the tokens says so.
LEMMA CopiesAreTokens ==
  ASSUME IInv
  PROVE  CopiesInv
<1> DEFINE A == At(Producers, {"claim"})
           B == At(Producers, {"store"})
<1>0. TypeOK /\ CarryInv
  BY Zenon DEF IInv
<1>1. Offering(Data) = A \cup B /\ A \cap B = {}
  BY <1>0, NullAssumption, Zenon DEF TypeOK, Threads, CarryInv, Offering, Offered, At
<1>2. IsFiniteSet(A) /\ IsFiniteSet(B)
  BY ThreadsAssumption, AtFinite, Zenon
<1>3. Cardinality(A \cup B) = Cardinality(A) + Cardinality(B) - Cardinality(A \cap B)
  BY <1>2, FS_Union, Zenon
<1>4. Cardinality(A \cap B) = 0
  BY <1>1, FS_EmptySet, Zenon
<1>5. Cardinality(Offering(Data)) = Claiming + Storing
  BY <1>1, <1>3, <1>4, CountsNat DEF Claiming, Storing, Card
<1>6. Stored(Data) = Elements
  BY <1>0, NullAssumption, Zenon DEF TypeOK, Stored, Elements
<1>7. Taken(Data) = At(Consumers, {"postfree"})
  BY <1>0, NullAssumption, Zenon DEF TypeOK, Threads, CarryInv, Taken, Got, At
<1>8. nfree + Claiming + Unread + Reading + Freeing = Len
  BY Zenon DEF IInv, FreeInv
<1>9. Cardinality(Elements) = Unread - Storing + Reading
  BY Zenon DEF IInv, ElementInv, Card
<1>10. Unread \in Nat /\ nfree \in Nat
  BY UnreadBound DEF IInv, TypeOK
<1> QED
  BY <1>5, <1>6, <1>7, <1>8, <1>9, <1>10, CountsNat, LenAssumption
     DEF CopiesInv, Copies, Freeing, Card

\* The three places an element can be in change one argument at a time. What
\* the producers carry.
LEMMA OfferingChange ==
  ASSUME NEW p \in Producers, NEW v, Changed(Producers, Offered, Offered', p, v),
         NEW CONSTANT S
  PROVE  Cardinality(Offering(S))'
           = Cardinality(Offering(S)) + Indicator(v \in S) - Indicator(Offered[p] \in S)
<1>1. IsFiniteSet(Producers)
  BY ThreadsAssumption, Zenon
<1>2. Offering(S) = Into(Producers, Offered, S) /\ Offering(S)' = Into(Producers, Offered', S)
  BY Zenon DEF Offering, Into
<1>3. \A f, g : Changed(Producers, f, g, p, v) =>
        Cardinality(Into(Producers, g, S))
          = Cardinality(Into(Producers, f, S)) + Indicator(v \in S) - Indicator(f[p] \in S)
  BY <1>1, CountChange
<1> QED
  BY <1>2, <1>3, Zenon

\* What lies in the slots.
LEMMA StoredChange ==
  ASSUME NEW s \in Slots, NEW v, Changed(Slots, data, data', s, v),
         NEW CONSTANT S
  PROVE  Cardinality(Stored(S))'
           = Cardinality(Stored(S)) + Indicator(v \in S) - Indicator(data[s] \in S)
<1>1. IsFiniteSet(Slots)
  BY LenAssumption, FS_Interval DEF Slots
<1>2. Stored(S) = Into(Slots, data, S) /\ Stored(S)' = Into(Slots, data', S)
  BY Zenon DEF Stored, Into
<1>3. Cardinality(Into(Slots, data', S))
        = Cardinality(Into(Slots, data, S)) + Indicator(v \in S) - Indicator(data[s] \in S)
  BY <1>1, CountChange
<1> QED
  BY <1>2, <1>3, Zenon

\* What the consumers have got.
LEMMA TakenChange ==
  ASSUME NEW c \in Consumers, NEW v, Changed(Consumers, Got, Got', c, v),
         NEW CONSTANT S
  PROVE  Cardinality(Taken(S))'
           = Cardinality(Taken(S)) + Indicator(v \in S) - Indicator(Got[c] \in S)
<1>1. IsFiniteSet(Consumers)
  BY ThreadsAssumption, ZenonT(30)
<1>2. Taken(S) = Into(Consumers, Got, S) /\ Taken(S)' = Into(Consumers, Got', S)
  BY Zenon DEF Taken, Into
<1>3. \A f, g : Changed(Consumers, f, g, c, v) =>
        Cardinality(Into(Consumers, g, S))
          = Cardinality(Into(Consumers, f, S)) + Indicator(v \in S) - Indicator(f[c] \in S)
  BY <1>1, CountChange
<1> QED
  BY <1>2, <1>3, Zenon

\* What each step of the box does to the number of copies. Offering an element
\* adds one.
LEMMA OfferCopies ==
  ASSUME TypeOK, NEW p \in Producers, NEW d, Box!Offer(p, d),
         NEW CONSTANT S, NULL \notin S
  PROVE  Copies(S)' = Copies(S) + Indicator(d \in S)
<1>1. Stored(S)' = Stored(S) /\ Taken(S)' = Taken(S)
  BY Zenon DEF Box!Offer, Stored, Taken
<1>2. Offered[p] = NULL /\ Changed(Producers, Offered, Offered', p, d)
  BY ViewTypes, Zenon DEF Box!Offer, Changed
<1>3. Cardinality(Offering(S))' = Cardinality(Offering(S)) + Indicator(d \in S)
                                    - Indicator(Offered[p] \in S)
  BY <1>2, OfferingChange, ZenonT(30)
<1> QED
  BY <1>1, <1>2, <1>3, CopiesNat DEF Copies, Indicator

\* Putting it in a cell moves it.
LEMMA PutCopies ==
  ASSUME TypeOK, NEW p \in Producers, NEW s \in Slots, Box!Put(p, s),
         NEW CONSTANT S, NULL \notin S
  PROVE  Copies(S)' = Copies(S)
<1>1. Taken(S)' = Taken(S)
  BY Zenon DEF Box!Put, Taken
<1>2. /\ Changed(Producers, Offered, Offered', p, NULL)
      /\ data[s] = NULL /\ Changed(Slots, data, data', s, Offered[p])
  BY ViewTypes, Zenon DEF Box!Put, Changed
<1>3. Cardinality(Offering(S))' = Cardinality(Offering(S)) + Indicator(NULL \in S)
                                    - Indicator(Offered[p] \in S)
  BY <1>2, OfferingChange, Zenon
<1>4. Cardinality(Stored(S))' = Cardinality(Stored(S)) + Indicator(Offered[p] \in S)
                                  - Indicator(data[s] \in S)
  BY <1>2, StoredChange, ZenonT(30)
<1> QED
  BY <1>1, <1>2, <1>3, <1>4, CopiesNat DEF Copies, Indicator

\* Taking it out moves it too.
LEMMA TakeCopies ==
  ASSUME TypeOK, NEW c \in Consumers, NEW s \in Slots, Box!Take(c, s), Got[c] = NULL,
         NEW CONSTANT S, NULL \notin S
  PROVE  Copies(S)' = Copies(S)
<1>1. Offering(S)' = Offering(S)
  BY Zenon DEF Box!Take, Offering
<1>2. /\ Changed(Consumers, Got, Got', c, data[s])
      /\ Changed(Slots, data, data', s, NULL)
  BY ViewTypes, Zenon DEF Box!Take, Changed
<1>3. Cardinality(Stored(S))' = Cardinality(Stored(S)) + Indicator(NULL \in S)
                                  - Indicator(data[s] \in S)
  BY <1>2, StoredChange, Zenon
<1>4. Cardinality(Taken(S))' = Cardinality(Taken(S)) + Indicator(data[s] \in S)
                                 - Indicator(Got[c] \in S)
  BY <1>2, TakenChange, ZenonT(30)
<1> QED
  BY <1>1, <1>3, <1>4, CopiesNat DEF Copies, Indicator

\* Returning it to the caller removes one.
LEMMA ReturnCopies ==
  ASSUME TypeOK, NEW c \in Consumers, Box!Return(c), NEW CONSTANT S, NULL \notin S
  PROVE  Copies(S)' = Copies(S) - Indicator(Got[c] \in S)
<1>1. Offering(S)' = Offering(S) /\ Stored(S)' = Stored(S)
  BY Zenon DEF Box!Return, Offering, Stored
<1>2. Changed(Consumers, Got, Got', c, NULL)
  BY ViewTypes, Zenon DEF Box!Return, Changed
<1>3. Cardinality(Taken(S))' = Cardinality(Taken(S)) + Indicator(NULL \in S)
                                 - Indicator(Got[c] \in S)
  BY <1>2, TakenChange, Zenon
<1> QED
  BY <1>1, <1>3, CopiesNat DEF Copies, Indicator

\* The other steps touch no element.
LEMMA OtherCopies ==
  ASSUME UNCHANGED <<data, Offered, Got>>, NEW CONSTANT S
  PROVE  Copies(S)' = Copies(S)
  BY Zenon DEF Copies, Offering, Stored, Taken

\* Nobody is told that the ring is full, and who was told that and no longer
\* is has an element to enqueue.
NobodyRejected ==
  \A q \in Producers :
    /\ pc'[q] = "full" => pc[q] = "full"
    /\ pc[q] = "full" /\ pc'[q] # "full" => Offered'[q] # NULL

\* Producer p, and nobody else, is told that the ring is full; it is.
OneRejected(p) ==
  /\ running
  /\ nfree = 0
  /\ At(Producers, {"full"})' = At(Producers, {"full"}) \cup {p}
  /\ UNCHANGED <<data, running, Offered, Got>>

\* Only a ringbuf_tryenqueue that found no free token makes a producer one
\* that was rejected, and a new enqueue makes it forget that.
LEMMA RejectedChange ==
  ASSUME IInv, [Next]_vars
  PROVE  NobodyRejected \/ \E p \in Producers : OneRejected(p)
<1> USE ThreadsAssumption DEF ring, stopper
<1>0. TypeOK /\ StopInv
  BY Zenon DEF IInv
<1>1. ASSUME NEW t \in Threads, NEW l, l # "full", Goto(t, l), pc[t] # "full"
      PROVE  NobodyRejected
  BY <1>0, <1>1, ZenonT(30) DEF TypeOK, Threads, Goto, NobodyRejected
<1>2. ASSUME pc' = pc
      PROVE  NobodyRejected
  BY <1>2, Zenon DEF NobodyRejected
<1>3. ASSUME NEW p \in Producers, ProducerStep(p)
      PROVE  NobodyRejected \/ OneRejected(p)
  <2>1. ASSUME NEW d \in Data, TakeFree(p, d)
        PROVE  NobodyRejected
    <3>1. pc' = [pc EXCEPT ![p] = "claim"] /\ val' = [val EXCEPT ![p] = d]
      BY <2>1, Zenon DEF TakeFree, Goto
    <3>2. pc'[p] = "claim" /\ Offered'[p] = d /\ d # NULL
      BY <1>0, <3>1, NullAssumption, ZenonT(30) DEF TypeOK, Threads, Offered
    <3>3. \A q \in Producers \ {p} : pc'[q] = pc[q]
      BY <1>0, <3>1, Zenon DEF TypeOK, Threads
    <3> QED
      BY <3>2, <3>3, Zenon DEF NobodyRejected
  <2>2. ASSUME MayEnqueue(p), nfree = 0, Goto(p, "full"), UNCHANGED <<ring, pos, val, stopper>>
        PROVE  OneRejected(p)
    <3>1. running
      BY <1>0, <2>2, ZenonT(30) DEF MayEnqueue, StopInv
    <3>2. At(Producers, {"full"})' = At(Producers, {"full"}) \cup {p}
      BY <1>0, <2>2, Zenon DEF TypeOK, Threads, Goto, At
    <3>3. Offered' = Offered
      BY <2>2, Zenon DEF Offered
    <3>4. Got' = Got
      <4>1. \A c \in Consumers : pc'[c] = pc[c] /\ val'[c] = val[c]
        BY <1>0, <2>2, Zenon DEF TypeOK, Threads, Goto
      <4> QED
        BY <4>1, Zenon DEF Got
    <3> QED
      BY <2>2, <3>1, <3>2, <3>3, <3>4, ZenonT(30) DEF OneRejected
  <2>3. CASE enqueue_claim(p) \/ enqueue_store(p) \/ enqueue_post(p)
    BY <1>1, <2>3, Zenon DEF Threads, enqueue_claim, enqueue_store, enqueue_post
  <2> QED
    BY <1>3, <2>1, <2>2, <2>3, ZenonT(30) DEF ProducerStep, ringbuf_enqueue, ringbuf_tryenqueue
<1>4. ASSUME NEW c \in Consumers, ConsumerStep(c)
      PROVE  NobodyRejected
  <2>1. \E l : Goto(c, l)
    BY <1>4, Zenon DEF ConsumerStep, DequeueStep, ringbuf_dequeue, ringbuf_trydequeue, TakeUsed,
                dequeue_check, dequeue_claim, dequeue_load, dequeue_take, dequeue_post
  <2>2. \A p \in Producers : pc'[p] = pc[p]
    BY <1>0, <2>1, Zenon DEF TypeOK, Threads, Goto
  <2> QED
    BY <2>2, Zenon DEF NobodyRejected
<1>5. CASE ringbuf_stop \/ StopStep
  <2>1. pc' = pc
    BY <1>5, Zenon DEF ringbuf_stop, StopStep, stop_read, stop_compare, stop_clear, stop_post, ringbuf_delete
  <2> QED
    BY <1>2, <2>1, Zenon
<1>6. CASE UNCHANGED vars
  BY <1>2, <1>6, Zenon DEF vars
<1> QED
  BY <1>3, <1>4, <1>5, <1>6, ZenonT(30) DEF Next, Terminated

\* The contents of the bag.
Contents == [d \in Data |-> Copies({d})]

\* What a step that adds, removes or keeps copies does to the bag. One copy
\* more.
LEMMA ContentsAdd ==
  ASSUME NEW d \in Data, \A e \in Data : Copies({e})' = Copies({e}) + Indicator(d \in {e})
  PROVE  Contents' = [Contents EXCEPT ![d] = Contents[d] + 1]
<1>1. \A e \in Data : Copies({e})' = IF e = d THEN Copies({e}) + 1 ELSE Copies({e})
  BY CopiesNat DEF Indicator
<1> QED
  BY <1>1, Zenon DEF Contents

\* One copy fewer.
LEMMA ContentsRemove ==
  ASSUME NEW d \in Data, \A e \in Data : Copies({e})' = Copies({e}) - Indicator(d \in {e})
  PROVE  Contents' = [Contents EXCEPT ![d] = Contents[d] - 1]
<1>1. \A e \in Data : Copies({e})' = IF e = d THEN Copies({e}) - 1 ELSE Copies({e})
  BY CopiesNat DEF Indicator
<1> QED
  BY <1>1, Zenon DEF Contents

\* The same copies.
LEMMA ContentsKeep ==
  ASSUME \A e \in Data : Copies({e})' = Copies({e})
  PROVE  Contents' = Contents
  BY Zenon DEF Contents

\* A step of the box at which nobody is rejected is a step of the bag: to
\* offer is to enqueue, to return is to dequeue, to close is to shut.
LEMMA BagSeesBox ==
  ASSUME IInv, IInv', CopiesInv', NobodyRejected, [Box!BNext]_(Box!bvars)
  PROVE  [Queue!QNext]_(Queue!qvars)
<1> DEFINE Rejected == At(Producers, {"full"})
<1>0. TypeOK /\ CarryInv /\ CarryInv' /\ NULL \notin Data /\ \A e \in Data : NULL \notin {e}
  BY NullAssumption, Zenon DEF IInv
<1>1. \A q \in Rejected : Offered[q] = NULL
  BY <1>0, Zenon DEF CarryInv, Offered, At
<1>2. \A q \in Rejected' : Offered'[q] = NULL
  BY <1>0, Zenon DEF CarryInv, Offered, At
<1>3. ASSUME \A q \in Producers : Offered[q] = NULL => Offered'[q] = NULL
      PROVE  Rejected' = Rejected
  BY <1>1, <1>3, Zenon DEF NobodyRejected, At
<1>4. ASSUME Rejected' = Rejected, UNCHANGED running, Contents' = Contents,
             Copies(Data)' = Copies(Data)
      PROVE  UNCHANGED Queue!qvars
  BY <1>4, Zenon DEF Queue!qvars, Contents
<1>5. UNCHANGED (~running) => UNCHANGED running
  <2>1. running \in BOOLEAN /\ running' \in BOOLEAN
    BY Zenon DEF IInv, TypeOK
  <2> QED
    BY <2>1, Zenon
<1>6. ASSUME UNCHANGED <<data, running, Offered, Got>>
      PROVE  UNCHANGED Queue!qvars
  <2>1. Contents' = Contents /\ Copies(Data)' = Copies(Data)
    BY <1>6, OtherCopies, ContentsKeep, Zenon
  <2> QED
    BY <1>3, <1>4, <1>6, <2>1, Zenon
<1>7. ASSUME NEW p \in Producers, NEW d \in Data, Box!Offer(p, d)
      PROVE  Queue!Enqueue(p, d)
  <2>1. /\ running /\ UNCHANGED running
        /\ Changed(Producers, Offered, Offered', p, d)
    BY <1>0, <1>7, ViewTypes, Zenon DEF Box!Offer, Changed
  <2>2. Offered'[p] = d /\ d # NULL /\ \A q \in Producers \ {p} : Offered'[q] = Offered[q]
    BY <1>0, <2>1, Zenon DEF Changed
  <2>3. Rejected' = Rejected \ {p}
    <3>1. p \notin Rejected'
      BY <1>2, <2>2, Zenon
    <3>2. \A q \in Producers \ {p} : q \in Rejected' <=> q \in Rejected
      BY <1>1, <2>2, Zenon DEF NobodyRejected, At
    <3>3. Rejected' \subseteq Producers /\ Rejected \subseteq Producers
      BY Zenon DEF At
    <3> QED
      BY <3>1, <3>2, <3>3, Zenon
  <2>4. \A e \in Data : Copies({e})' = Copies({e}) + Indicator(d \in {e})
    BY <1>0, <1>7, OfferCopies, Zenon
  <2>5. Contents' = [Contents EXCEPT ![d] = Contents[d] + 1]
    BY <2>4, ContentsAdd, Zenon
  <2>6. Copies(Data)' = Copies(Data) + 1
    BY <1>0, <1>7, OfferCopies, Zenon DEF Indicator
  <2>7. Copies(Data) < Len
    <3>1. Copies(Data)' = Len - nfree' /\ nfree' \in Nat
      BY Zenon DEF CopiesInv, IInv, TypeOK
    <3> QED
      BY <2>6, <3>1, CopiesNat, LenAssumption
  <2> QED
    BY <2>1, <2>3, <2>5, <2>6, <2>7, ZenonT(30) DEF Queue!Enqueue, Contents
<1>8. ASSUME NEW p \in Producers, NEW s \in Slots, Box!Put(p, s)
      PROVE  UNCHANGED Queue!qvars
  <2>1. UNCHANGED running /\ Changed(Producers, Offered, Offered', p, NULL)
    BY <1>0, <1>8, ViewTypes, Zenon DEF Box!Put, Changed
  <2>2. Rejected' = Rejected
    BY <1>3, <2>1, Zenon DEF Changed
  <2>3. Copies(Data)' = Copies(Data) /\ \A e \in Data : Copies({e})' = Copies({e})
    BY <1>0, <1>8, PutCopies, Zenon
  <2>4. Contents' = Contents
    BY <2>3, ContentsKeep, Zenon
  <2> QED
    BY <1>4, <2>1, <2>2, <2>3, <2>4, Zenon
<1>9. ASSUME NEW c \in Consumers, NEW s \in Slots, Box!Take(c, s)
      PROVE  UNCHANGED Queue!qvars
  <2>1. UNCHANGED <<running, Offered>> /\ Got[c] = NULL
    <3>1. c \in Promised /\ UNCHANGED Offered /\ UNCHANGED (~running)
      BY <1>9, Zenon DEF Box!Take
    <3>2. Got[c] = NULL
      BY <3>1, ConsumerView, Zenon
    <3> QED
      BY <1>5, <3>1, <3>2, Zenon
  <2>2. Rejected' = Rejected
    BY <1>3, <2>1, Zenon
  <2>3. Copies(Data)' = Copies(Data) /\ \A e \in Data : Copies({e})' = Copies({e})
    BY <1>0, <1>9, <2>1, TakeCopies, ZenonT(30)
  <2>4. Contents' = Contents
    BY <2>3, ContentsKeep, Zenon
  <2> QED
    BY <1>4, <2>1, <2>2, <2>3, <2>4, Zenon
<1>10. ASSUME NEW c \in Consumers, Box!Return(c)
      PROVE  Queue!Dequeue(Got[c]) /\ Got[c] \in Data
  <2>1. UNCHANGED <<running, Offered>> /\ Got[c] \in Data
    <3>1. Got[c] # NULL /\ UNCHANGED Offered /\ UNCHANGED (~running)
      BY <1>10, Zenon DEF Box!Return
    <3>2. Got[c] \in Data
      BY <1>0, <3>1, ViewTypes, Zenon
    <3> QED
      BY <1>5, <3>1, <3>2, Zenon
  <2>2. Rejected' = Rejected
    BY <1>3, <2>1, Zenon
  <2>3. \A e \in Data : Copies({e})' = Copies({e}) - Indicator(Got[c] \in {e})
    BY <1>0, <1>10, ReturnCopies, Zenon
  <2>4. Contents' = [Contents EXCEPT ![Got[c]] = Contents[Got[c]] - 1]
    BY <2>1, <2>3, ContentsRemove, Zenon
  <2>5. Copies(Data)' = Copies(Data) - 1
    BY <1>0, <1>10, <2>1, ReturnCopies, ZenonT(30) DEF Indicator
  <2>6. Contents[Got[c]] > 0
    <3>1. c \in Taken({Got[c]}) /\ IsFiniteSet(Taken({Got[c]}))
      BY ThreadsAssumption, FS_Subset, Zenon DEF Taken
    <3>2. Cardinality(Taken({Got[c]})) >= 1
      BY <3>1, CardPositive, Zenon DEF Card
    <3> QED
      BY <2>1, <3>2, CopiesNat DEF Contents, Copies
  <2> QED
    BY <2>1, <2>2, <2>4, <2>5, <2>6, ZenonT(30) DEF Queue!Dequeue, Contents
<1>11. ASSUME Box!Close
       PROVE  Queue!Shut
  <2>1. running /\ running' = FALSE /\ UNCHANGED <<data, Offered, Got>>
    BY <1>11, <1>0, ZenonT(30) DEF Box!Close, IInv, TypeOK
  <2>2. Rejected' = Rejected
    BY <1>3, <2>1, Zenon
  <2>3. Contents' = Contents /\ Copies(Data)' = Copies(Data)
    BY <2>1, OtherCopies, ContentsKeep, Zenon
  <2> QED
    BY <2>1, <2>2, <2>3, Zenon DEF Queue!Shut, Contents
<1>12. ASSUME NEW c \in Consumers, Box!Promise(c)
       PROVE  UNCHANGED Queue!qvars
  BY <1>6, <1>12, Zenon DEF Box!Promise
<1>13. CASE UNCHANGED Box!bvars
  <2>1. UNCHANGED <<data, Offered, Got>> /\ UNCHANGED (~running)
    BY <1>13, Zenon DEF Box!bvars
  <2> QED
    BY <1>6, <1>5, <2>1, Zenon
<1> QED
  BY <1>7, <1>8, <1>9, <1>10, <1>11, <1>12, <1>13, ZenonT(30) DEF Box!BNext, Box!Cells, Slots, Queue!QNext

\* The ring implements the bag with atomic operations: ringbuf_tryenqueue
\* fails only when Len elements are in the ring, every element that is taken
\* in comes out once, and none is taken in after the stop.
THEOREM RingIsAtomic == Spec => ImplementsQueue
<1>1. Init => Queue!QInit
  <2> SUFFICES ASSUME Init PROVE Queue!QInit
    BY Zenon
  <2>1. \A S : NULL \notin S => Offering(S) = {} /\ Stored(S) = {} /\ Taken(S) = {}
    BY Zenon DEF Init, Offering, Offered, Stored, Taken, Got, Threads
  <2>2. \A S : NULL \notin S => Copies(S) = 0
    BY <2>1, FS_EmptySet DEF Copies
  <2>3. Copies(Data) = 0 /\ [d \in Data |-> Copies({d})] = [d \in Data |-> 0]
    BY <2>2, NullAssumption, Zenon
  <2>4. At(Producers, {"full"}) = {} /\ running = TRUE
    BY Zenon DEF Init, At, Threads
  <2> QED
    BY <2>3, <2>4, Zenon DEF Queue!QInit
<1>2. IInv => CopiesInv
  BY CopiesAreTokens, Zenon
<1>3. IInv /\ IInv' /\ CopiesInv /\ CopiesInv' /\ [Next]_vars => [Queue!QNext]_(Queue!qvars)
  <2> SUFFICES ASSUME IInv, IInv', CopiesInv, CopiesInv', [Next]_vars
               PROVE  [Queue!QNext]_(Queue!qvars)
    BY Zenon
  <2>1. ASSUME NEW p \in Producers, OneRejected(p)
        PROVE  Queue!Reject(p)
    <3>1. Contents' = Contents /\ Copies(Data)' = Copies(Data)
      BY <2>1, OtherCopies, ContentsKeep, Zenon DEF OneRejected
    <3>2. Copies(Data) = Len
      BY <2>1, LenAssumption DEF OneRejected, CopiesInv
    <3> QED
      BY <2>1, <3>1, <3>2, Zenon DEF OneRejected, Queue!Reject, Contents
  <2>2. [Box!BNext]_(Box!bvars)
    BY BoxStep, Zenon
  <2> QED
    BY <2>1, <2>2, RejectedChange, BagSeesBox, Zenon DEF Queue!QNext
<1> QED
  BY <1>1, <1>2, <1>3, Accounting, PTL DEF Spec, ImplementsQueue, Queue!QSpec

=============================================================================
