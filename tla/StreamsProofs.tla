---------------------------- MODULE StreamsProofs ----------------------------
(***************************************************************************)
(* Proofs about the reading of lines, for every file and every size of the *)
(* first buffer: what util_readline has read leaves room for what fgets    *)
(* may add, and the lines it has returned are those before its position.   *)
(***************************************************************************)
EXTENDS Streams, WellFoundedInduction, TLAPS

(***************************************************************************)
(* Induction and recursive functions, as in UtilProofs: the two modules    *)
(* share no variables, and apart each is checked in a small context.       *)
(***************************************************************************)
\* A set of numbers that is not empty has a least one.
LEMMA LeastNumber ==
  ASSUME NEW S \in SUBSET Nat, S # {}
  PROVE  \E x \in S : \A y \in S : x <= y
<1>. DEFINE R == OpToRel(<, Nat)
<1>1. \A x, y \in Nat : y < x => <<y, x>> \in R
  BY Zenon DEF OpToRel
<1>2. IsWellFoundedOn(R, Nat)
  BY NatLessThanWellFounded, Zenon
<1>. HIDE DEF R
<1>3. PICK x \in S : \A y \in S : ~(<<y, x>> \in R)
  BY <1>2, WFMin, Zenon
<1>4. ASSUME NEW y \in S PROVE x <= y
  <2>1. x \in Nat /\ y \in Nat /\ ~(y < x)
    BY <1>1, <1>3, Zenon
  <2>. QED
    BY <2>1
<1>. QED
  BY <1>4, Zenon

\* Induction: a set with 0 and with the successor of each number in it has all
\* the numbers.
LEMMA Induction ==
  ASSUME NEW S, 0 \in S, \A n \in Nat : n \in S => n + 1 \in S
  PROVE  \A n \in Nat : n \in S
<1>. DEFINE T == Nat \ S
<1>. SUFFICES ASSUME T # {} PROVE FALSE
  BY Zenon
<1>1. PICK x \in T : \A y \in T : x <= y
  BY LeastNumber, Zenon
<1>2. x \in Nat /\ x # 0
  BY Zenon
<1>3. x - 1 \in Nat /\ ~(x <= x - 1) /\ (x - 1) + 1 = x
  BY <1>2
<1>4. x - 1 \in S
  BY <1>1, <1>3, Zenon
<1>. QED
  BY <1>3, <1>4, Zenon

\* The values in V that begin with a and take one step of F per number.
Iterates(V, a, N, F, f) ==
  f \in [0..N -> V] /\ f[0] = a /\ \A n \in 1..N : f[n] = F[n][f[n - 1]]

\* Recursion: they exist.
LEMMA Recursion ==
  ASSUME NEW V, NEW a \in V, NEW N \in Nat, NEW F \in [1..N -> [V -> V]]
  PROVE  \E f : Iterates(V, a, N, F, f)
<1>. DEFINE Steps(n, f) == f[0] = a /\ \A i \in 1..n : f[i] = F[i][f[i - 1]]
            S == {n \in Nat : n <= N => \E f \in [0..n -> V] : Steps(n, f)}
<1>1. 0 \in S
  <2>. DEFINE f == [i \in 0..0 |-> a]
  <2>1. f \in [0..0 -> V] /\ f[0] = a
    OBVIOUS
  <2>2. 1..0 = {}
    OBVIOUS
  <2>. HIDE DEF f
  <2>3. \E h \in [0..0 -> V] : Steps(0, h)
    BY <2>1, <2>2, Zenon
  <2>. QED
    BY <2>3, Zenon
<1>2. ASSUME NEW n \in Nat, n \in S PROVE n + 1 \in S
  <2>. n + 1 \in Nat
    BY <1>2
  <2>. SUFFICES ASSUME n + 1 <= N PROVE \E f \in [0..(n + 1) -> V] : Steps(n + 1, f)
    BY Zenon
  <2>1. n <= N /\ n \in 0..n /\ n + 1 \in 1..N /\ (n + 1) - 1 = n /\ n + 1 # 0
    OBVIOUS
  <2>2. PICK f \in [0..n -> V] : Steps(n, f)
    BY <1>2, <2>1, Zenon
  <2>. DEFINE next == F[n + 1][f[n]]
              h == [i \in 0..(n + 1) |-> IF i = n + 1 THEN next ELSE f[i]]
  <2>3. next \in V
    BY <2>1, <2>2, Zenon
  <2>. HIDE DEF next
  <2>4. \A i \in 0..(n + 1) : i # n + 1 => i \in 0..n
    OBVIOUS
  <2>5. h \in [0..(n + 1) -> V]
    BY <2>2, <2>3, <2>4, Zenon
  <2>6. 0 \in 0..(n + 1) /\ n \in 0..(n + 1) /\ n + 1 \in 0..(n + 1) /\ n # n + 1 /\ 0 # n + 1
    OBVIOUS
  <2>7. h[0] = a /\ h[n] = f[n] /\ h[n + 1] = next
    BY <2>2, <2>6, Zenon
  <2>8. ASSUME NEW i \in 1..(n + 1) PROVE h[i] = F[i][h[i - 1]]
    <3>1. CASE i = n + 1
      BY <2>1, <2>7, <3>1, Zenon DEF next
    <3>2. CASE i # n + 1
      <4>1. /\ i \in 1..n /\ i \in 0..(n + 1) /\ i - 1 \in 0..(n + 1) /\ i - 1 # n + 1
        BY <3>2
      <4>2. h[i] = f[i] /\ h[i - 1] = f[i - 1]
        BY <3>2, <4>1, Zenon
      <4>. QED
        BY <2>2, <4>1, <4>2, Zenon
    <3>. QED
      BY <3>1, <3>2, Zenon
  <2>. HIDE DEF h
  <2>. QED
    BY <2>5, <2>7, <2>8, Zenon
<1>. HIDE DEF S
<1>3. N \in S
  BY <1>1, <1>2, Induction, Zenon
<1>4. N <= N
  OBVIOUS
<1>5. PICK f \in [0..N -> V] : Steps(N, f)
  BY <1>3, <1>4, Zenon DEF S
<1>. QED
  BY <1>5, Zenon DEF Iterates

\* What each step leaves in a set stays there.
LEMMA StaysIn ==
  ASSUME NEW V, NEW N \in Nat, NEW f, f[0] \in V,
         \A n \in 1..N : f[n - 1] \in V => f[n] \in V
  PROVE  \A n \in 0..N : f[n] \in V
<1>. DEFINE S == {n \in Nat : n \in 0..N => f[n] \in V}
<1>1. 0 \in S
  BY Zenon
<1>2. ASSUME NEW n \in Nat, n \in S PROVE n + 1 \in S
  <2>1. n + 1 \in Nat /\ (n + 1 \in 0..N => n + 1 \in 1..N /\ n \in 0..N) /\ (n + 1) - 1 = n
    OBVIOUS
  <2>. QED
    BY <1>2, <2>1, Zenon
<1>. HIDE DEF S
<1>3. \A n \in Nat : n \in S
  BY <1>1, <1>2, Induction, Zenon
<1>4. \A n \in 0..N : n \in Nat
  OBVIOUS
<1>. QED
  BY <1>3, <1>4, Zenon DEF S

------------------------------------------------------------------------------
(***************************************************************************)
(* Reading lines.                                                          *)
(***************************************************************************)
\* The beginning of a sequence.
LEMMA Beginning ==
  ASSUME NEW S, NEW s \in Seq(S), NEW k \in 0..Len(s)
  PROVE  SubSeq(s, 1, k) \in Seq(S) /\ Len(SubSeq(s, 1, k)) = k
  OBVIOUS

\* fgets(buf, max) gives fewer than max bytes.
LEMMA FgetsBounded ==
  ASSUME file \in Seq(Byte), pos \in Nat, NEW max \in Nat \ {0}
  PROVE  fgets(max) \in Seq(Byte) /\ Len(fgets(max)) <= max - 1
<1>. DEFINE stops == {n \in 0..(max - 1) : \/ n = max - 1 \/ pos + n >= Len(file)
                                           \/ n > 0 /\ file[pos + n] = "\n"}
            got == CHOOSE n \in stops : \A k \in stops : n <= k
<1>1. fgets(max) = SubSeq(file, pos + 1, pos + got)
  BY Zenon DEF fgets
<1>2. Len(file) \in Nat /\ max - 1 \in 0..(max - 1) /\ \A n \in 0..(max - 1) : n \in Nat
  OBVIOUS
<1>3. stops \in SUBSET Nat /\ max - 1 \in stops
  BY <1>2, Zenon
<1>4. got \in stops /\ \A k \in stops : got <= k
  <2>. HIDE DEF stops
  <2>1. \E n \in stops : \A k \in stops : n <= k
    BY <1>3, LeastNumber, Zenon
  <2>. QED
    BY <2>1, Zenon
<1>5. \A n \in 0..(max - 1) : pos + n >= Len(file) => got <= n
  BY <1>4, Zenon
<1>6. got \in 0..(max - 1)
  BY <1>4, Zenon
<1>. HIDE DEF got, stops
<1>7. /\ got \in Nat /\ got <= max - 1 /\ pos + 1 \in Int /\ pos + got \in Int
      /\ pos <= Len(file) => pos + got <= Len(file)
      /\ pos > Len(file) => got = 0
  <2>1. got \in Nat /\ got <= max - 1
    BY <1>6
  <2>2. ASSUME pos <= Len(file) PROVE pos + got <= Len(file)
    <3>1. CASE Len(file) - pos \in 0..(max - 1)
      <4>1. pos + (Len(file) - pos) >= Len(file)
        BY <1>2
      <4>2. got <= Len(file) - pos
        BY <1>5, <3>1, <4>1, Zenon
      <4>. QED
        BY <1>2, <2>1, <4>2
    <3>2. CASE Len(file) - pos \notin 0..(max - 1)
      BY <1>2, <2>1, <2>2, <3>2
    <3>. QED
      BY <3>1, <3>2, Zenon
  <2>3. ASSUME pos > Len(file) PROVE got = 0
    <3>1. 0 \in 0..(max - 1) /\ pos + 0 >= Len(file)
      BY <1>2, <2>3
    <3>2. got <= 0
      BY <1>5, <3>1, Zenon
    <3>. QED
      BY <2>1, <3>2
  <2>. QED
    BY <2>1, <2>2, <2>3
<1>8. \A i \in (pos + 1)..(pos + got) : file[i] \in Byte
  <2>. SUFFICES ASSUME NEW i \in (pos + 1)..(pos + got) PROVE file[i] \in Byte
    BY Zenon
  <2>1. i \in 1..Len(file)
    BY <1>2, <1>7
  <2>. QED
    BY <2>1
<1>9. SubSeq(file, pos + 1, pos + got) \in Seq(Byte)
  BY <1>7, <1>8
<1>10. Len(SubSeq(file, pos + 1, pos + got)) = got
  BY <1>7, <1>8
<1>. QED
  BY <1>1, <1>7, <1>9, <1>10, Zenon

\* Turning CR LF into LF makes nothing longer.
LEMMA UtilFgetsShortens ==
  ASSUME NEW str \in Seq(Byte)
  PROVE  util_fgets(str) \in Seq(Byte) /\ Len(util_fgets(str)) <= Len(str)
<1>1. Len(str) \in Nat /\ Len(str) <= Len(str)
  OBVIOUS
<1>2. CASE util_fgets(str) = str
  BY <1>1, <1>2, Zenon
<1>3. CASE util_fgets(str) # str
  <2>. DEFINE cut == SubSeq(str, 1, Len(str) - 2)
  <2>1. Len(str) >= 2 /\ util_fgets(str) = Append(cut, "\n")
    BY <1>3, Zenon DEF util_fgets, EndsInCRLF
  <2>2. Len(str) - 2 \in 0..Len(str)
    BY <1>1, <2>1
  <2>3. cut \in Seq(Byte) /\ Len(cut) = Len(str) - 2
    BY <2>2, Beginning, Zenon
  <2>. HIDE DEF cut
  <2>4. "\n" \in Byte
    BY Zenon DEF Byte
  <2>5. Append(cut, "\n") \in Seq(Byte) /\ Len(Append(cut, "\n")) = Len(cut) + 1
    BY <2>3, <2>4
  <2>6. Len(cut) + 1 <= Len(str)
    BY <1>1, <2>1, <2>3
  <2>. QED
    BY <2>1, <2>5, <2>6, Zenon
<1>. QED
  BY <1>2, <1>3, Zenon

\* The buffer is half empty, or better, whenever fgets is called.
StreamInv ==
  /\ file \in Seq(Byte) /\ pos \in Nat /\ buffer \in Seq(Byte)
  /\ bufsize \in Nat /\ bufsize >= 2
  /\ state = "line" => Len(buffer) + bufsize \div 2 <= bufsize

\* Each turn doubles the buffer and adds less than half of it.
LEMMA StreamStep == StreamInv /\ [SNext]_svars => StreamInv'
<1>. SUFFICES ASSUME StreamInv, [SNext]_svars PROVE StreamInv'
  BY Zenon
<1>1. /\ file \in Seq(Byte) /\ pos \in Nat /\ buffer \in Seq(Byte)
      /\ bufsize \in Nat /\ bufsize >= 2
      /\ state = "line" => Len(buffer) + bufsize \div 2 <= bufsize
  BY Zenon DEF StreamInv
<1>2. CASE UNCHANGED svars
  BY <1>2, Zenon DEF StreamInv, svars
<1>3. CASE os_open_text \/ os_fopen_text
  <2>1. UNCHANGED <<file, buffer, bufsize>> /\ state' \in {"raw", "open"}
    BY <1>3, Zenon DEF os_open_text, os_fopen_text
  <2>2. pos' \in {0, 3, Len(file)}
    BY <1>3, Zenon DEF os_open_text, os_fopen_text
  <2>3. pos' \in Nat
    BY <1>1, <2>2
  <2>. QED
    BY <1>1, <2>1, <2>3, Zenon DEF StreamInv
<1>4. CASE readline_begin
  <2>1. UNCHANGED <<file, pos>> /\ buffer' = <<>> /\ bufsize' = PARSER_MAX_LINE
    BY <1>4, Zenon DEF readline_begin
  <2>2. /\ bufsize' \in Nat /\ bufsize' >= 2 /\ buffer' \in Seq(Byte)
        /\ Len(buffer') + bufsize' \div 2 <= bufsize'
    BY <2>1, StreamsAssumption
  <2>. QED
    BY <1>1, <2>1, <2>2, Zenon DEF StreamInv
<1>5. CASE readline_end \/ readline_no_memory
  <2>1. UNCHANGED <<file, pos, bufsize>> /\ buffer' = <<>> /\ state' \in {"end", "failed"}
    BY <1>5, Zenon DEF readline_end, readline_no_memory
  <2>2. buffer' \in Seq(Byte)
    BY <2>1
  <2>. QED
    BY <1>1, <2>1, <2>2, Zenon DEF StreamInv
<1>6. CASE readline_turn
  <2>. DEFINE half == bufsize \div 2
              got == fgets(half)
              kept == util_fgets(got)
  <2>1. /\ state = "line" /\ file' = file /\ pos' = pos + Len(got)
        /\ buffer' = buffer \o kept /\ bufsize' = NextSize(bufsize)
    BY <1>6, Zenon DEF readline_turn
  <2>2. half \in Nat \ {0}
    BY <1>1
  <2>3. got \in Seq(Byte) /\ Len(got) <= half - 1
    <3>. HIDE DEF half
    <3>. QED
      BY <1>1, <2>2, FgetsBounded, Zenon
  <2>4. Len(buffer) + half <= bufsize
    BY <1>1, <2>1, Zenon
  <2>. HIDE DEF got
  <2>5. kept \in Seq(Byte) /\ Len(kept) <= Len(got)
    BY <2>3, UtilFgetsShortens, Zenon
  <2>. HIDE DEF kept
  <2>6. buffer' \in Seq(Byte) /\ Len(buffer') = Len(buffer) + Len(kept)
    BY <1>1, <2>1, <2>5
  <2>7. Len(got) \in Nat /\ Len(kept) \in Nat /\ Len(buffer) \in Nat
    BY <1>1, <2>3, <2>5
  <2>8. bufsize' \in Nat /\ bufsize' >= 2 /\ bufsize' \div 2 = bufsize /\ bufsize' = 2 * bufsize
    BY <1>1, <2>1 DEF NextSize
  <2>9. pos' \in Nat
    BY <1>1, <2>1, <2>7
  <2>. HIDE DEF half
  <2>10. Len(buffer') + bufsize <= 2 * bufsize
    BY <1>1, <2>2, <2>3, <2>4, <2>5, <2>6, <2>7
  <2>. QED
    BY <1>1, <2>1, <2>6, <2>8, <2>9, <2>10, Zenon DEF StreamInv
<1>. QED
  BY <1>2, <1>3, <1>4, <1>5, <1>6, Zenon DEF SNext

\* A piece of a sequence.
LEMMA Piece ==
  ASSUME NEW S, NEW s \in Seq(S), NEW b \in 0..Len(s), NEW a \in 0..b
  PROVE  /\ SubSeq(s, a + 1, b) \in Seq(S) /\ Len(SubSeq(s, a + 1, b)) = b - a
         /\ \A i \in 1..(b - a) : SubSeq(s, a + 1, b)[i] = s[a + i]
<1>1. Len(s) \in Nat /\ a \in Nat /\ b \in Nat /\ a <= b /\ b <= Len(s)
  OBVIOUS
<1>2. \A i \in (a + 1)..b : s[i] \in S
  <2>. SUFFICES ASSUME NEW i \in (a + 1)..b PROVE s[i] \in S
    OBVIOUS
  <2>1. i \in 1..Len(s)
    BY <1>1
  <2>. QED
    BY <2>1
<1>3. SubSeq(s, a + 1, b) \in Seq(S)
  BY <1>1, <1>2
<1>4. Len(SubSeq(s, a + 1, b)) = b - a
  BY <1>1, <1>2
<1>5. \A i \in 1..(b - a) : SubSeq(s, a + 1, b)[i] = s[a + i]
  BY <1>1, <1>2
<1>. QED
  BY <1>3, <1>4, <1>5

\* Sequences with the same elements.
LEMMA SameSequence ==
  ASSUME NEW S, NEW u \in Seq(S), NEW v \in Seq(S), Len(u) = Len(v),
         \A i \in 1..Len(v) : u[i] = v[i]
  PROVE  u = v
  OBVIOUS

\* Two pieces that follow each other are one.
LEMMA TwoPieces ==
  ASSUME NEW S, NEW s \in Seq(S), NEW c \in 0..Len(s), NEW b \in 0..c, NEW a \in 0..b
  PROVE  SubSeq(s, a + 1, b) \o SubSeq(s, b + 1, c) = SubSeq(s, a + 1, c)
<1>. DEFINE u == SubSeq(s, a + 1, b)
            v == SubSeq(s, b + 1, c)
            w == SubSeq(s, a + 1, c)
<1>1. b \in 0..Len(s) /\ a \in 0..c /\ a \in Nat /\ b \in Nat /\ c \in Nat /\ a <= b /\ b <= c
  OBVIOUS
<1>2. u \in Seq(S) /\ Len(u) = b - a /\ \A i \in 1..(b - a) : u[i] = s[a + i]
  BY <1>1, Piece
<1>3. v \in Seq(S) /\ Len(v) = c - b /\ \A i \in 1..(c - b) : v[i] = s[b + i]
  BY Piece
<1>4. w \in Seq(S) /\ Len(w) = c - a /\ \A i \in 1..(c - a) : w[i] = s[a + i]
  BY <1>1, Piece
<1>. HIDE DEF u, v, w
<1>5. /\ u \o v \in Seq(S) /\ Len(u \o v) = Len(u) + Len(v)
      /\ \A i \in 1..Len(u) : (u \o v)[i] = u[i]
      /\ \A i \in 1..Len(v) : (u \o v)[Len(u) + i] = v[i]
  <2>1. u \in Seq(S) /\ v \in Seq(S)
    BY <1>2, <1>3, Zenon
  <2>2. u \o v \in Seq(S) /\ Len(u \o v) = Len(u) + Len(v)
    BY <2>1
  <2>3. \A i \in 1..Len(u) : (u \o v)[i] = u[i]
    BY <2>1
  <2>4. \A i \in 1..Len(v) : (u \o v)[Len(u) + i] = v[i]
    BY <2>1
  <2>. QED
    BY <2>2, <2>3, <2>4, Zenon
<1>. DEFINE x == u \o v
<1>. HIDE DEF x
<1>6. x \in Seq(S) /\ Len(x) = Len(w)
  BY <1>1, <1>2, <1>3, <1>4, <1>5 DEF x
<1>7. ASSUME NEW i \in 1..Len(w) PROVE x[i] = w[i]
  <2>1. CASE i <= b - a
    <3>1. i \in 1..(b - a) /\ i \in 1..(c - a)
      BY <1>1, <1>4, <2>1
    <3>. QED
      BY <1>2, <1>4, <1>5, <3>1, Zenon DEF x
  <2>2. CASE ~(i <= b - a)
    <3>. DEFINE j == i - (b - a)
    <3>1. j \in 1..(c - b) /\ i \in 1..(c - a) /\ (b - a) + j = i /\ b + j = a + i
      BY <1>1, <1>4, <2>2
    <3>. HIDE DEF j
    <3>2. x[(b - a) + j] = v[j]
      BY <1>2, <1>3, <1>5, <3>1, Zenon DEF x
    <3>3. v[j] = s[b + j]
      BY <1>3, <3>1, Zenon
    <3>4. w[i] = s[a + i]
      BY <1>4, <3>1, Zenon
    <3>. QED
      BY <3>1, <3>2, <3>3, <3>4, Zenon
  <2>. QED
    BY <2>1, <2>2, Zenon
<1>8. x = w
  BY <1>4, <1>6, <1>7, SameSequence, Zenon
<1>. QED
  BY <1>8 DEF x, u, v, w

\* What a turn of the loop leaves: bytes read, and a buffer.
TurnState == Nat \X {n \in Nat : n >= 4}

\* A full turn reads a byte at least.
LEMMA FullTurnReads ==
  ASSUME NEW r \in TurnState
  PROVE  /\ FullTurn(r) \in TurnState
         /\ FullTurn(r)[1] = r[1] + (r[2] \div 2 - 1) /\ FullTurn(r)[2] = 2 * r[2]
         /\ r[1] \in Nat /\ r[2] \in Nat /\ r[2] >= 4 /\ r[2] \div 2 \in Nat /\ r[2] \div 2 >= 2
<1>1. r[1] \in Nat /\ r[2] \in Nat /\ r[2] >= 4
  BY DEF TurnState
<1>. DEFINE half == r[2] \div 2
<1>2. half \in Nat /\ half >= 2
  BY <1>1
<1>3. FullTurn(r) = <<r[1] + half - 1, 2 * r[2]>>
  BY Zenon DEF FullTurn
<1>. HIDE DEF half
<1>4. /\ r[1] + half - 1 \in Nat /\ r[1] + half - 1 = r[1] + (half - 1)
      /\ 2 * r[2] \in Nat /\ 2 * r[2] >= 4
  BY <1>1, <1>2
<1>5. FullTurn(r)[1] = r[1] + half - 1 /\ FullTurn(r)[2] = 2 * r[2]
  BY <1>3
<1>6. FullTurn(r) \in TurnState
  <2>. DEFINE p == r[1] + half - 1
              q == 2 * r[2]
  <2>1. p \in Nat /\ q \in {n \in Nat : n >= 4}
    BY <1>4
  <2>2. FullTurn(r) = <<p, q>>
    BY <1>3, Zenon
  <2>. HIDE DEF p, q
  <2>. QED
    BY <2>1, <2>2 DEF TurnState
<1>. QED
  BY <1>1, <1>2, <1>4, <1>5, <1>6, Zenon DEF half

\* The turns one by one.
LEMMA AfterTurnSteps ==
  ASSUME file \in Seq(Byte)
  PROVE  /\ AfterTurn[0] = <<0, PARSER_MAX_LINE>>
         /\ \A t \in 0..Len(file) : AfterTurn[t] \in TurnState
         /\ \A t \in 1..Len(file) : AfterTurn[t] = FullTurn(AfterTurn[t - 1])
<1>. DEFINE N == Len(file)
            a == <<0, PARSER_MAX_LINE>>
            F == [n \in 1..N |-> [v \in TurnState |-> FullTurn(v)]]
            Is(t) == t = [n \in 0..N |-> IF n = 0 THEN a ELSE FullTurn(t[n - 1])]
            T == AfterTurn
<1>0. N \in Nat
  OBVIOUS
<1>a. a \in TurnState
  BY StreamsAssumption DEF TurnState
<1>. HIDE DEF N
<1>1. F \in [1..N -> [TurnState -> TurnState]]
  BY FullTurnReads, Zenon
<1>2. PICK t : t \in [0..N -> TurnState] /\ t[0] = a /\ \A n \in 1..N : t[n] = F[n][t[n - 1]]
  <2>. HIDE DEF F, a
  <2>1. \E t : Iterates(TurnState, a, N, F, t)
    BY <1>0, <1>a, <1>1, Recursion, Zenon
  <2>. QED
    BY <2>1, Zenon DEF Iterates
<1>3. \A n \in 1..N : n \in 0..N /\ n # 0 /\ n - 1 \in 0..N
  BY <1>0
<1>4. \A n \in 1..N : t[n] = FullTurn(t[n - 1])
  BY <1>2, <1>3, Zenon
<1>5. \A n \in 0..N : n = 0 \/ n \in 1..N
  BY <1>0
<1>6. Is(t)
  BY <1>2, <1>4, <1>5, Zenon
<1>7. T = CHOOSE u : Is(u)
  BY Zenon DEF AfterTurn, N
<1>8. Is(T)
  BY <1>6, <1>7, Zenon
<1>. HIDE DEF T, a
<1>9. 0 \in 0..N
  BY <1>0
<1>10. T[0] = a /\ \A n \in 1..N : T[n] = FullTurn(T[n - 1])
  BY <1>3, <1>8, <1>9, Zenon
<1>11. \A n \in 1..N : T[n - 1] \in TurnState => T[n] \in TurnState
  BY <1>0, <1>10, FullTurnReads, Zenon
<1>12. \A n \in 0..N : T[n] \in TurnState
  <2>1. T[0] \in TurnState
    BY <1>a, <1>10, Zenon
  <2>. QED
    BY <1>0, <1>11, <2>1, StaysIn, Zenon
<1>. QED
  BY <1>10, <1>12, Zenon DEF T, N, a

\* A function that does not go down from one number to the next.
LEMMA Monotone ==
  ASSUME NEW N \in Nat, NEW f, \A n \in 0..N : f[n] \in Nat,
         \A n \in 1..N : f[n - 1] <= f[n]
  PROVE  \A n \in 0..N : \A m \in 0..n : f[m] <= f[n]
<1>. DEFINE S == {n \in Nat : n \in 0..N => \A m \in 0..n : f[m] <= f[n]}
<1>1. 0 \in S
  <2>1. \A m \in 0..0 : m = 0
    OBVIOUS
  <2>2. 0 \in 0..N /\ f[0] \in Nat
    OBVIOUS
  <2>3. f[0] <= f[0]
    BY <2>2
  <2>. QED
    BY <2>1, <2>3, Zenon
<1>2. ASSUME NEW n \in Nat, n \in S PROVE n + 1 \in S
  <2>. SUFFICES ASSUME n + 1 \in 0..N, NEW m \in 0..(n + 1) PROVE f[m] <= f[n + 1]
    OBVIOUS
  <2>1. n \in 0..N /\ n + 1 \in 1..N /\ (n + 1) - 1 = n /\ m \in 0..N /\ (m = n + 1 \/ m \in 0..n)
    OBVIOUS
  <2>2. f[n] <= f[n + 1] /\ f[n] \in Nat /\ f[n + 1] \in Nat /\ f[m] \in Nat
    BY <2>1, Zenon
  <2>3. CASE m = n + 1
    BY <2>2, <2>3
  <2>4. CASE m \in 0..n
    <3>1. f[m] <= f[n]
      BY <1>2, <2>1, <2>4, Zenon
    <3>. QED
      BY <2>2, <3>1
  <2>. QED
    BY <2>1, <2>3, <2>4, Zenon
<1>. HIDE DEF S
<1>3. \A n \in Nat : n \in S
  BY <1>1, <1>2, Induction, Zenon
<1>4. \A n \in 0..N : n \in Nat
  OBVIOUS
<1>. QED
  BY <1>3, <1>4, Zenon DEF S

\* Bytes of a line read after t turns that were full.
Full(t) == AfterTurn[t][1]

\* They grow with every turn, by one less than half of the buffer.
LEMMA FullGrows ==
  ASSUME file \in Seq(Byte)
  PROVE  /\ Full(0) = 0
         /\ \A t \in 0..Len(file) :
              /\ Full(t) \in Nat /\ t <= Full(t)
              /\ AfterTurn[t][2] \in Nat /\ AfterTurn[t][2] >= 4
              /\ AfterTurn[t][2] \div 2 \in Nat /\ AfterTurn[t][2] \div 2 >= 2
         /\ \A t \in 0..Len(file) : t + 1 <= Len(file) =>
              /\ Full(t + 1) = Full(t) + (AfterTurn[t][2] \div 2 - 1)
              /\ AfterTurn[t + 1][2] = 2 * AfterTurn[t][2]
         /\ \A t \in 0..Len(file) : \A s \in 0..t : Full(s) <= Full(t)
<1>. DEFINE N == Len(file)
            f == [t \in 0..N |-> Full(t)]
<1>0. N \in Nat
  OBVIOUS
<1>. HIDE DEF N
<1>1. /\ AfterTurn[0] = <<0, PARSER_MAX_LINE>>
      /\ \A t \in 0..N : AfterTurn[t] \in TurnState
      /\ \A t \in 1..N : AfterTurn[t] = FullTurn(AfterTurn[t - 1])
  BY AfterTurnSteps, Zenon DEF N
<1>2. Full(0) = 0
  BY <1>1 DEF Full
<1>3. \A t \in 0..N :
        /\ Full(t) \in Nat
        /\ AfterTurn[t][2] \in Nat /\ AfterTurn[t][2] >= 4
        /\ AfterTurn[t][2] \div 2 \in Nat /\ AfterTurn[t][2] \div 2 >= 2
  BY <1>1, FullTurnReads, Zenon DEF Full
<1>4. ASSUME NEW t \in 1..N
      PROVE  /\ t - 1 \in 0..N /\ t \in 0..N
             /\ Full(t) = Full(t - 1) + (AfterTurn[t - 1][2] \div 2 - 1)
             /\ AfterTurn[t][2] = 2 * AfterTurn[t - 1][2]
  <2>1. t - 1 \in 0..N /\ t \in 0..N
    BY <1>0
  <2>2. /\ FullTurn(AfterTurn[t - 1])[1] =
             AfterTurn[t - 1][1] + (AfterTurn[t - 1][2] \div 2 - 1)
        /\ FullTurn(AfterTurn[t - 1])[2] = 2 * AfterTurn[t - 1][2]
    BY <1>1, <2>1, FullTurnReads, Zenon
  <2>3. AfterTurn[t] = FullTurn(AfterTurn[t - 1])
    BY <1>1, Zenon
  <2>. QED
    BY <2>1, <2>2, <2>3, Zenon DEF Full
<1>5. ASSUME NEW t \in 1..N PROVE Full(t - 1) + 1 <= Full(t) /\ Full(t - 1) <= Full(t)
  <2>. DEFINE h == AfterTurn[t - 1][2] \div 2
  <2>1. Full(t - 1) \in Nat /\ Full(t) \in Nat /\ h \in Nat /\ h >= 2 /\ Full(t) = Full(t - 1) + (h - 1)
    BY <1>3, <1>4, Zenon
  <2>. HIDE DEF h
  <2>. QED
    BY <2>1
<1>6. \A t \in 0..N : \A s \in 0..t : Full(s) <= Full(t)
  <2>1. \A t \in 0..N : f[t] = Full(t)
    BY Zenon
  <2>2. \A t \in 0..N : f[t] \in Nat
    BY <1>3, <2>1, Zenon
  <2>3. \A t \in 1..N : f[t - 1] <= f[t]
    BY <1>4, <1>5, <2>1, Zenon
  <2>. HIDE DEF f
  <2>4. \A t \in 0..N : \A s \in 0..t : f[s] <= f[t]
    BY <1>0, <2>2, <2>3, Monotone, Zenon
  <2>5. \A t \in 0..N : \A s \in 0..t : s \in 0..N
    BY <1>0
  <2>. QED
    BY <2>1, <2>4, <2>5, Zenon
<1>7. \A t \in 0..N : t <= Full(t)
  <2>. DEFINE S == {t \in Nat : t \in 0..N => t <= Full(t)}
  <2>1. 0 \in S
    BY <1>2
  <2>2. ASSUME NEW t \in Nat, t \in S PROVE t + 1 \in S
    <3>. SUFFICES ASSUME t + 1 \in 0..N PROVE t + 1 <= Full(t + 1)
      OBVIOUS
    <3>1. t + 1 \in 1..N /\ (t + 1) - 1 = t /\ t \in 0..N
      BY <1>0
    <3>2. Full((t + 1) - 1) + 1 <= Full(t + 1)
      BY <1>5, <3>1, Zenon
    <3>3. t <= Full(t) /\ Full(t) \in Nat /\ Full(t + 1) \in Nat
      BY <1>3, <2>2, <3>1, Zenon
    <3>. QED
      BY <3>1, <3>2, <3>3
  <2>. HIDE DEF S
  <2>3. \A t \in Nat : t \in S
    BY <2>1, <2>2, Induction, Zenon
  <2>4. \A t \in 0..N : t \in Nat
    OBVIOUS
  <2>. QED
    BY <2>3, <2>4, Zenon DEF S
<1>8. ASSUME NEW t \in 0..N, t + 1 <= N
      PROVE  /\ Full(t + 1) = Full(t) + (AfterTurn[t][2] \div 2 - 1)
             /\ AfterTurn[t + 1][2] = 2 * AfterTurn[t][2]
  <2>1. t + 1 \in 1..N /\ (t + 1) - 1 = t
    BY <1>0, <1>8
  <2>2. /\ Full(t + 1) = Full((t + 1) - 1) + (AfterTurn[(t + 1) - 1][2] \div 2 - 1)
        /\ AfterTurn[t + 1][2] = 2 * AfterTurn[(t + 1) - 1][2]
    BY <1>4, <2>1, Zenon
  <2>. QED
    BY <2>1, <2>2, Zenon
<1>. QED
  BY <1>2, <1>3, <1>6, <1>7, <1>8, Zenon DEF N

\* A line that ends inside a turn does not have the length of full turns.
LEMMA InsideTurn ==
  ASSUME file \in Seq(Byte), NEW t \in 0..Len(file), NEW g \in Nat, g >= 1,
         g < AfterTurn[t][2] \div 2 - 1
  PROVE  Full(t) + g \notin Turns
<1>. DEFINE N == Len(file)
            h == AfterTurn[t][2] \div 2
<1>0. N \in Nat
  OBVIOUS
<1>. SUFFICES ASSUME NEW s \in 1..N, Full(s) = Full(t) + g PROVE FALSE
  BY Zenon DEF Turns, Full
<1>1. h \in Nat /\ h >= 2 /\ Full(t) \in Nat /\ s \in 0..N /\ Full(s) \in Nat
  <2>1. s \in 0..N
    BY <1>0
  <2>. QED
    BY <2>1, FullGrows, Zenon
<1>2. CASE s <= t
  <2>1. s \in 0..t
    BY <1>0, <1>2
  <2>2. Full(s) <= Full(t)
    BY <2>1, FullGrows, Zenon
  <2>. QED
    BY <1>1, <2>2
<1>3. CASE ~(s <= t)
  <2>1. t + 1 \in 0..s /\ t + 1 <= N
    BY <1>0, <1>3
  <2>2. Full(t + 1) <= Full(s)
    BY <1>1, <2>1, FullGrows, Zenon
  <2>3. Full(t + 1) = Full(t) + (h - 1)
    BY <2>1, FullGrows, Zenon
  <2>4. g < h - 1
    OBVIOUS
  <2>. HIDE DEF h
  <2>. QED
    BY <1>1, <2>2, <2>3, <2>4
<1>. QED
  BY <1>2, <1>3, Zenon

\* Where the text begins.
TextStart == IF Marked THEN 3 ELSE 0

\* The text is the file from there on.
LEMMA TextOfFile ==
  ASSUME file \in Seq(Byte)
  PROVE  /\ Text \in Seq(Byte) /\ TextStart \in 0..Len(file) /\ Len(Text) = Len(file) - TextStart
         /\ Text = SubSeq(file, TextStart + 1, Len(file))
         /\ \A i \in 1..Len(Text) : Text[i] = file[TextStart + i]
         /\ Len(Text) \in Nat /\ Len(file) \in Nat
<1>1. Len(file) \in Nat /\ Len(file) \in 0..Len(file) /\ 0 \in 0..Len(file) /\ 0 + 1 = 1 /\ 3 + 1 = 4
  OBVIOUS
<1>2. TextStart \in 0..Len(file)
  BY <1>1 DEF TextStart, Marked
<1>3. /\ SubSeq(file, TextStart + 1, Len(file)) \in Seq(Byte)
      /\ Len(SubSeq(file, TextStart + 1, Len(file))) = Len(file) - TextStart
      /\ \A i \in 1..(Len(file) - TextStart) : SubSeq(file, TextStart + 1, Len(file))[i] = file[TextStart + i]
  BY <1>1, <1>2, Piece, ZenonT(30)
<1>4. Text = SubSeq(file, TextStart + 1, Len(file))
  <2>1. CASE Marked
    BY <1>1, <2>1, Zenon DEF Text, TextStart
  <2>2. CASE ~Marked
    <3>1. SubSeq(file, 1, Len(file)) = file
      OBVIOUS
    <3>. QED
      BY <1>1, <2>2, <3>1, Zenon DEF Text, TextStart
  <2>. QED
    BY <2>1, <2>2, Zenon
<1>5. Len(Text) \in Nat
  BY <1>3, <1>4
<1>. QED
  BY <1>1, <1>2, <1>3, <1>4, <1>5, Zenon

\* fgets(buf, max) reads up to the first newline or the end of the file, if they
\* come before max - 1 bytes.
LEMMA FgetsReads ==
  ASSUME file \in Seq(Byte), pos \in 0..Len(file), NEW max \in Nat, max >= 2
  PROVE  \E g \in 0..(max - 1) :
           /\ fgets(max) = SubSeq(file, pos + 1, pos + g) /\ Len(fgets(max)) = g
           /\ pos + g <= Len(file) /\ (g = 0 <=> pos = Len(file))
           /\ g = max - 1 \/ pos + g = Len(file) \/ (g # 0 /\ file[pos + g] = "\n")
           /\ \A n \in 1..g : n # g => file[pos + n] # "\n"
<1>. DEFINE N == Len(file)
            stops == {n \in 0..(max - 1) : \/ n = max - 1 \/ pos + n >= Len(file)
                                           \/ n > 0 /\ file[pos + n] = "\n"}
            g == CHOOSE n \in stops : \A k \in stops : n <= k
<1>1. fgets(max) = SubSeq(file, pos + 1, pos + g)
  BY Zenon DEF fgets
<1>2. N \in Nat /\ pos \in Nat /\ pos <= N /\ max - 1 \in 0..(max - 1) /\ \A n \in 0..(max - 1) : n \in Nat
  OBVIOUS
<1>3. stops \in SUBSET Nat /\ max - 1 \in stops
  BY <1>2, Zenon
<1>4. g \in stops /\ \A k \in stops : g <= k
  <2>. HIDE DEF stops
  <2>1. \E n \in stops : \A k \in stops : n <= k
    BY <1>3, LeastNumber, Zenon
  <2>. QED
    BY <2>1, Zenon
<1>5. /\ g \in 0..(max - 1)
      /\ g = max - 1 \/ pos + g >= N \/ (g > 0 /\ file[pos + g] = "\n")
  BY <1>4, Zenon
<1>6. \A n \in 0..(max - 1) : pos + n >= N \/ (n > 0 /\ file[pos + n] = "\n") => g <= n
  BY <1>4, Zenon
<1>. HIDE DEF g, stops
<1>7. g \in Nat /\ g <= max - 1
  BY <1>5
<1>8. pos + g <= N
  <2>1. CASE N - pos \in 0..(max - 1)
    <3>1. pos + (N - pos) >= N
      BY <1>2
    <3>2. g <= N - pos
      BY <1>6, <2>1, <3>1, Zenon
    <3>. QED
      BY <1>2, <1>7, <3>2
  <2>2. CASE N - pos \notin 0..(max - 1)
    BY <1>2, <1>7, <2>2
  <2>. QED
    BY <2>1, <2>2, Zenon
<1>9. g = 0 <=> pos = N
  <2>1. ASSUME g = 0 PROVE pos = N
    BY <1>2, <1>5, <2>1
  <2>2. ASSUME pos = N PROVE g = 0
    BY <1>2, <1>7, <1>8, <2>2
  <2>. QED
    BY <2>1, <2>2, Zenon
<1>10. g = max - 1 \/ pos + g = N \/ (g # 0 /\ file[pos + g] = "\n")
  <2>1. pos + g >= N => pos + g = N
    BY <1>2, <1>7, <1>8
  <2>2. g > 0 => g # 0
    BY <1>7
  <2>. QED
    BY <1>5, <2>1, <2>2, Zenon
<1>11. ASSUME NEW n \in 1..g, n # g, file[pos + n] = "\n" PROVE FALSE
  <2>1. n \in 0..(max - 1) /\ n > 0 /\ ~(g <= n)
    BY <1>7, <1>11
  <2>. QED
    BY <1>6, <1>11, <2>1, Zenon
<1>12. Len(SubSeq(file, pos + 1, pos + g)) = g
  <2>. DEFINE b == pos + g
  <2>1. b \in 0..N /\ pos \in 0..b /\ b - pos = g
    BY <1>2, <1>7, <1>8
  <2>. HIDE DEF b
  <2>2. Len(SubSeq(file, pos + 1, b)) = b - pos
    BY <2>1, Piece, Zenon
  <2>. QED
    BY <2>1, <2>2, Zenon DEF b
<1>. QED
  BY <1>1, <1>5, <1>8, <1>9, <1>10, <1>11, <1>12, Zenon

\* The lines counted one by one.
LEMMA UptoSteps ==
  ASSUME file \in Seq(Byte)
  PROVE  /\ Upto[0] = 0
         /\ \A i \in 0..Len(Text) : Upto[i] \in Nat
         /\ \A i \in 1..Len(Text) : Upto[i] = Upto[i - 1] + Count(i)
<1>. DEFINE N == Len(Text)
            F == [n \in 1..N |-> [v \in Nat |-> v + Count(n)]]
            Is(t) == t = [n \in 0..N |-> IF n = 0 THEN 0 ELSE t[n - 1] + Count(n)]
            T == Upto
<1>0. N \in Nat
  BY TextOfFile, Zenon
<1>a. \A n : Count(n) \in Nat
  BY DEF Count
<1>. HIDE DEF N
<1>1. F \in [1..N -> [Nat -> Nat]]
  BY <1>a
<1>2. PICK t : t \in [0..N -> Nat] /\ t[0] = 0 /\ \A n \in 1..N : t[n] = F[n][t[n - 1]]
  <2>. HIDE DEF F
  <2>1. 0 \in Nat
    OBVIOUS
  <2>2. \E t : Iterates(Nat, 0, N, F, t)
    BY <1>0, <1>1, <2>1, Recursion, Zenon
  <2>. QED
    BY <2>2, Zenon DEF Iterates
<1>3. \A n \in 1..N : n \in 0..N /\ n # 0 /\ n - 1 \in 0..N
  BY <1>0
<1>4. \A n \in 1..N : t[n] = t[n - 1] + Count(n)
  BY <1>2, <1>3, Zenon
<1>5. \A n \in 0..N : n = 0 \/ n \in 1..N
  BY <1>0
<1>6. Is(t)
  BY <1>2, <1>4, <1>5, Zenon
<1>7. T = CHOOSE u : Is(u)
  BY Zenon DEF Upto, N
<1>8. Is(T)
  BY <1>6, <1>7, Zenon
<1>. HIDE DEF T
<1>9. 0 \in 0..N
  BY <1>0
<1>10. T[0] = 0 /\ \A n \in 1..N : T[n] = T[n - 1] + Count(n)
  BY <1>3, <1>8, <1>9, Zenon
<1>11. ASSUME NEW n \in 1..N, T[n - 1] \in Nat PROVE T[n] \in Nat
  <2>1. T[n] = T[n - 1] + Count(n) /\ Count(n) \in Nat
    BY <1>a, <1>10, Zenon
  <2>. QED
    BY <1>11, <2>1
<1>12. \A n \in 0..N : T[n] \in Nat
  <2>1. T[0] \in Nat
    BY <1>10
  <2>. QED
    BY <1>0, <1>11, <2>1, StaysIn, Zenon
<1>. QED
  BY <1>10, <1>12, Zenon DEF T, N

\* The lines returned so far are those that end up to s.
Got(ls, s) ==
  /\ ls \in Seq(Seq(Byte)) /\ Len(ls) = Upto[s]
  /\ \A i \in Kept : i <= s => ls[Upto[i]] = Returned(i)

\* Lines that end up to s come before those that end after it.
LEMMA UptoGrows ==
  ASSUME file \in Seq(Byte)
  PROVE  /\ \A s \in 0..Len(Text) : \A i \in Kept : i <= s => Upto[i] \in 1..Upto[s]
         /\ \A u \in 0..Len(Text) : \A s \in 0..u :
              (\A i \in (s + 1)..u : i \notin Kept) => Upto[u] = Upto[s]
<1>. DEFINE N == Len(Text)
<1>0. N \in Nat
  BY TextOfFile, Zenon
<1>. HIDE DEF N
<1>1. /\ Upto[0] = 0 /\ \A i \in 0..N : Upto[i] \in Nat
      /\ \A i \in 1..N : Upto[i] = Upto[i - 1] + Count(i)
  BY UptoSteps, Zenon DEF N
<1>2. \A n \in 1..N : n \in 0..N /\ n - 1 \in 0..N
  BY <1>0
<1>3. ASSUME NEW n \in 1..N PROVE Upto[n - 1] <= Upto[n] /\ (n \in Kept => 1 <= Upto[n])
  <2>1. Upto[n - 1] \in Nat /\ Upto[n] \in Nat /\ Upto[n] = Upto[n - 1] + Count(n)
    BY <1>1, <1>2, Zenon
  <2>2. Count(n) \in Nat /\ (n \in Kept => Count(n) = 1)
    BY DEF Count
  <2>. QED
    BY <2>1, <2>2
<1>4. \A n \in 0..N : \A m \in 0..n : Upto[m] <= Upto[n]
  BY <1>0, <1>1, <1>3, Monotone, Zenon
<1>5. ASSUME NEW s \in 0..N, NEW i \in Kept, i <= s PROVE Upto[i] \in 1..Upto[s]
  <2>1. i \in 1..N
    BY Zenon DEF Kept, Ends, N
  <2>2. i \in 0..s /\ i \in 0..N
    BY <1>0, <1>5, <2>1
  <2>3. Upto[i] <= Upto[s] /\ 1 <= Upto[i] /\ Upto[i] \in Nat /\ Upto[s] \in Nat
    BY <1>1, <1>3, <1>4, <2>1, <2>2, Zenon
  <2>. QED
    BY <2>3
<1>6. ASSUME NEW u \in 0..N, NEW s \in 0..u, \A i \in (s + 1)..u : i \notin Kept
      PROVE  Upto[u] = Upto[s]
  <2>. DEFINE S == {k \in Nat : s + k <= u => Upto[s + k] = Upto[s]}
  <2>1. 0 \in S
    <3>1. s + 0 = s
      OBVIOUS
    <3>. QED
      BY <3>1, Zenon
  <2>2. ASSUME NEW k \in Nat, k \in S PROVE k + 1 \in S
    <3>. SUFFICES ASSUME s + (k + 1) <= u PROVE Upto[s + (k + 1)] = Upto[s]
      OBVIOUS
    <3>. DEFINE n == s + (k + 1)
    <3>1. n \in 1..N /\ n - 1 = s + k /\ n \in (s + 1)..u /\ s + k <= u /\ s + k \in 0..N /\ s \in 0..N
      BY <1>0
    <3>. HIDE DEF n
    <3>2. Upto[n] = Upto[n - 1] + Count(n) /\ n \notin Kept
      BY <1>1, <1>6, <3>1, Zenon
    <3>3. Count(n) = 0
      BY <3>2, Zenon DEF Count
    <3>4. Upto[s + k] = Upto[s] /\ Upto[s] \in Nat
      BY <1>1, <2>2, <3>1, Zenon
    <3>5. Upto[n] = Upto[s] + 0
      BY <3>1, <3>2, <3>3, <3>4, Zenon
    <3>. QED
      BY <3>4, <3>5 DEF n
  <2>. HIDE DEF S
  <2>3. \A k \in Nat : k \in S
    BY <2>1, <2>2, Induction, Zenon
  <2>4. u - s \in Nat /\ s + (u - s) = u /\ u <= u
    BY <1>0
  <2>5. s + (u - s) <= u => Upto[s + (u - s)] = Upto[s]
    BY <2>3, <2>4, Zenon DEF S
  <2>. QED
    BY <2>4, <2>5
<1>. QED
  BY <1>5, <1>6, Zenon DEF N

\* The line that begins behind s and ends in i, with no newline before it.
LineFrom(s, i) ==
  /\ s \in 0..Len(Text) /\ i \in (s + 1)..Len(Text)
  /\ s = 0 \/ Text[s] = "\n"
  /\ \A n \in (s + 1)..i : n # i => Text[n] # "\n"

\* That line is the one the reference cuts out, and no other ends inside it.
LEMMA LineIsRaw ==
  ASSUME file \in Seq(Byte), NEW s, NEW i, LineFrom(s, i)
  PROVE  /\ RawLine(i) = SubSeq(Text, s + 1, i)
         /\ RawLine(i) \in Seq(Byte) /\ Len(RawLine(i)) = i - s
         /\ \A k \in 1..(i - s) : RawLine(i)[k] = Text[s + k]
         /\ \A n \in (s + 1)..i : n # i => n \notin Kept
<1>. DEFINE cuts == {j \in 0..(i - 1) : j = 0 \/ Text[j] = "\n"}
<1>0. /\ Text \in Seq(Byte) /\ Len(Text) \in Nat
      /\ s \in 0..Len(Text) /\ i \in (s + 1)..Len(Text)
      /\ s = 0 \/ Text[s] = "\n"
      /\ \A n \in (s + 1)..i : n # i => Text[n] # "\n"
  BY TextOfFile, Zenon DEF LineFrom
<1>1. s \in 0..(i - 1) /\ s \in Nat /\ i \in Nat /\ i \in 0..Len(Text) /\ s \in 0..i /\ s + 1 <= i
  BY <1>0
<1>2. s \in cuts
  BY <1>0, <1>1, Zenon
<1>3. ASSUME NEW j \in cuts PROVE j <= s
  <2>. SUFFICES ASSUME ~(j <= s) PROVE FALSE
    OBVIOUS
  <2>1. j \in 0..(i - 1) /\ (j = 0 \/ Text[j] = "\n")
    BY Zenon
  <2>2. j \in (s + 1)..i /\ j # i /\ j # 0
    BY <1>1, <2>1
  <2>. QED
    BY <1>0, <2>1, <2>2, Zenon
<1>4. LastCut(i) = CHOOSE j \in cuts : \A k \in cuts : k <= j
  BY Zenon DEF LastCut
<1>5. LastCut(i) = s
  <2>1. cuts \subseteq Nat
    BY <1>1
  <2>. HIDE DEF cuts
  <2>2. LastCut(i) \in cuts /\ \A k \in cuts : k <= LastCut(i)
    BY <1>2, <1>3, <1>4, Zenon
  <2>3. LastCut(i) <= s /\ s <= LastCut(i) /\ LastCut(i) \in Nat
    BY <1>2, <1>3, <2>1, <2>2, Zenon
  <2>. QED
    BY <1>1, <2>3
<1>6. RawLine(i) = SubSeq(Text, s + 1, i)
  BY <1>5, Zenon DEF RawLine
<1>7. /\ SubSeq(Text, s + 1, i) \in Seq(Byte) /\ Len(SubSeq(Text, s + 1, i)) = i - s
      /\ \A k \in 1..(i - s) : SubSeq(Text, s + 1, i)[k] = Text[s + k]
  BY <1>0, <1>1, Piece, Zenon
<1>8. ASSUME NEW n \in (s + 1)..i, n # i PROVE n \notin Kept
  <2>1. n # Len(Text)
    BY <1>0, <1>1, <1>8
  <2>2. Text[n] # "\n"
    BY <1>0, <1>8, Zenon
  <2>. QED
    BY <2>1, <2>2, Zenon DEF Kept, Ends
<1>. QED
  BY <1>6, <1>7, <1>8, Zenon

\* A line more has been returned.
LEMMA GotLine ==
  ASSUME file \in Seq(Byte), NEW s, NEW i, LineFrom(s, i), NEW ls, Got(ls, s),
         i \in Kept, Returned(i) \in Seq(Byte)
  PROVE  Got(Append(ls, Returned(i)), i)
<1>. DEFINE N == Len(Text)
            ms == Append(ls, Returned(i))
            B == Seq(Byte)
<1>0. /\ N \in Nat /\ s \in 0..N /\ i \in (s + 1)..N
      /\ \A n \in (s + 1)..i : n # i => n \notin Kept
      /\ ls \in Seq(B) /\ Len(ls) = Upto[s]
      /\ \A j \in Kept : j <= s => ls[Upto[j]] = Returned(j)
  BY TextOfFile, LineIsRaw, Zenon DEF LineFrom, Got
<1>1. s \in Nat /\ i \in Nat /\ i \in 1..N /\ i - 1 \in 0..N /\ i \in 0..N /\ s \in 0..(i - 1)
  BY <1>0
<1>2. Upto[i - 1] = Upto[s]
  <2>1. \A n \in (s + 1)..(i - 1) : n \notin Kept
    <3>1. \A n \in (s + 1)..(i - 1) : n \in (s + 1)..i /\ n # i
      BY <1>1
    <3>. QED
      BY <1>0, <3>1, Zenon
  <2>. QED
    BY <1>1, <2>1, UptoGrows, Zenon
<1>3. Upto[i] = Upto[s] + 1 /\ Upto[s] \in Nat
  <2>1. Count(i) = 1
    BY Zenon DEF Count
  <2>. QED
    BY <1>0, <1>1, <1>2, <2>1, UptoSteps, Zenon
<1>. HIDE DEF B
<1>4. /\ ms \in Seq(B) /\ Len(ms) = Len(ls) + 1 /\ ms[Len(ls) + 1] = Returned(i)
      /\ \A k \in 1..Len(ls) : ms[k] = ls[k]
  <2>1. Returned(i) \in B
    BY Zenon DEF B
  <2>2. ls \in Seq(B)
    BY <1>0, Zenon
  <2>. QED
    BY <2>1, <2>2
<1>5. Len(ms) = Upto[i]
  BY <1>0, <1>3, <1>4, Zenon
<1>. HIDE DEF ms
<1>6. ASSUME NEW j \in Kept, j <= i PROVE ms[Upto[j]] = Returned(j)
  <2>0. j \in 1..N
    BY Zenon DEF Kept, Ends
  <2>1. CASE j = i
    BY <1>0, <1>3, <1>4, <2>1, Zenon
  <2>2. CASE j # i
    <3>1. ~(j <= s) => j \in (s + 1)..i
      BY <1>1, <1>6, <2>0
    <3>2. j <= s
      BY <1>0, <2>2, <3>1, Zenon
    <3>3. Upto[j] \in 1..Len(ls)
      BY <1>0, <3>2, UptoGrows, Zenon
    <3>. QED
      BY <1>0, <1>4, <3>2, <3>3, Zenon
  <2>. QED
    BY <2>1, <2>2, Zenon
<1>. QED
  BY <1>4, <1>5, <1>6, Zenon DEF Got, ms, B

\* Where no line is returned up to u.
LEMMA GotNone ==
  ASSUME file \in Seq(Byte), NEW u \in 0..Len(Text), NEW s \in 0..u, NEW ls, Got(ls, s),
         \A i \in (s + 1)..u : i \notin Kept
  PROVE  Got(ls, u)
<1>1. Upto[u] = Upto[s]
  BY UptoGrows, Zenon
<1>2. ASSUME NEW i \in Kept, i <= u PROVE i <= s
  <2>1. i \in 1..Len(Text) /\ Len(Text) \in Nat
    BY TextOfFile, Zenon DEF Kept, Ends
  <2>2. ~(i <= s) => i \in (s + 1)..u
    BY <1>2, <2>1
  <2>. QED
    BY <2>2, Zenon
<1>. QED
  BY <1>1, <1>2, Zenon DEF Got

\* CR LF is at the end.
LEMMA CRLFIs ==
  ASSUME NEW str \in Seq(Byte), NEW n, n = Len(str)
  PROVE  EndsInCRLF(str) <=> n >= 2 /\ str[n - 1] = "\r" /\ str[n] = "\n"
<1>1. n \in Nat
  OBVIOUS
<1>2. CASE n >= 2
  <2>. DEFINE a == n - 2
              p == SubSeq(str, a + 1, n)
  <2>1. n \in 0..Len(str) /\ a \in 0..n /\ n - a = 2 /\ a + 1 = n - 1 /\ a + 2 = n
        /\ 1 \in 1..2 /\ 2 \in 1..2
    BY <1>1, <1>2
  <2>. HIDE DEF a
  <2>2. p \in Seq(Byte) /\ Len(p) = n - a /\ \A k \in 1..(n - a) : p[k] = str[a + k]
    BY <2>1, Piece
  <2>. HIDE DEF p
  <2>3. p \in Seq(Byte) /\ Len(p) = 2
    BY <2>1, <2>2, Zenon
  <2>4. p[1] = str[a + 1] /\ p[2] = str[a + 2]
    BY <2>1, <2>2, Zenon
  <2>5. p[1] = str[n - 1] /\ p[2] = str[n]
    BY <2>1, <2>4, Zenon
  <2>6. p = <<"\r", "\n">> <=> p[1] = "\r" /\ p[2] = "\n"
    BY <2>3
  <2>7. p = SubSeq(str, n - 1, n)
    BY <2>1, Zenon DEF p
  <2>. QED
    BY <1>2, <2>5, <2>6, <2>7, Zenon DEF EndsInCRLF
<1>3. CASE ~(n >= 2)
  BY <1>3, Zenon DEF EndsInCRLF
<1>. QED
  BY <1>2, <1>3, Zenon

\* A piece without its last two elements.
LEMMA ShorterPiece ==
  ASSUME NEW S, NEW s \in Seq(S), NEW b \in 0..Len(s), NEW a \in 0..b, b - a >= 2
  PROVE  SubSeq(SubSeq(s, a + 1, b), 1, (b - a) - 2) = SubSeq(s, a + 1, b - 2)
<1>. DEFINE p == SubSeq(s, a + 1, b)
            k == (b - a) - 2
            d == b - 2
            u == SubSeq(p, 0 + 1, k)
            v == SubSeq(s, a + 1, d)
<1>1. p \in Seq(S) /\ Len(p) = b - a /\ \A i \in 1..(b - a) : p[i] = s[a + i]
  BY Piece
<1>2. /\ k \in 0..(b - a) /\ 0 \in 0..k /\ k - 0 = k /\ d \in 0..Len(s) /\ a \in 0..d
      /\ d - a = k /\ \A i \in 1..k : i \in 1..(b - a) /\ 0 + i = i
  OBVIOUS
<1>. HIDE DEF p, k, d
<1>3. u \in Seq(S) /\ Len(u) = k - 0 /\ \A i \in 1..(k - 0) : u[i] = p[0 + i]
  BY <1>1, <1>2, Piece
<1>4. v \in Seq(S) /\ Len(v) = d - a /\ \A i \in 1..(d - a) : v[i] = s[a + i]
  BY <1>2, Piece
<1>. HIDE DEF u, v
<1>5. Len(u) = k /\ Len(v) = k
  BY <1>2, <1>3, <1>4, Zenon
<1>6. ASSUME NEW i \in 1..k PROVE u[i] = v[i]
  <2>1. u[i] = p[0 + i] /\ 0 + i = i /\ p[i] = s[a + i] /\ v[i] = s[a + i]
    BY <1>1, <1>2, <1>3, <1>4, Zenon
  <2>. QED
    BY <2>1, Zenon
<1>7. u = v
  BY <1>3, <1>4, <1>5, <1>6, SameSequence, Zenon
<1>8. 0 + 1 = 1
  OBVIOUS
<1>9. u = SubSeq(p, 1, k)
  BY <1>8, Zenon DEF u
<1>. QED
  BY <1>7, <1>9, Zenon DEF p, k, v, d

\* Replacing the last two of one piece is replacing the last two of both.
Converts(s, a, b, c, x) ==
  SubSeq(s, a + 1, b) \o Append(SubSeq(SubSeq(s, b + 1, c), 1, (c - b) - 2), x) =
    SubSeq(SubSeq(s, a + 1, c), 1, (c - a) - 2) \o <<x>>

\* A piece of a sequence, ended by x in place of its last two elements.
LEMMA ConvertedPiece ==
  ASSUME NEW S, NEW s \in Seq(S), NEW c \in 0..Len(s), NEW b \in 0..c, NEW a \in 0..b,
         c - b >= 2, NEW x \in S
  PROVE  Converts(s, a, b, c, x)
<1>. DEFINE d == c - 2
            u == SubSeq(s, a + 1, b)
            v == SubSeq(s, b + 1, d)
            w == SubSeq(s, a + 1, d)
<1>1. d \in 0..Len(s) /\ b \in 0..d /\ a \in 0..d /\ a \in 0..c /\ c - a >= 2 /\ b \in 0..Len(s)
  OBVIOUS
<1>2. SubSeq(SubSeq(s, b + 1, c), 1, (c - b) - 2) = v
  BY ShorterPiece
<1>3. SubSeq(SubSeq(s, a + 1, c), 1, (c - a) - 2) = w
  BY <1>1, ShorterPiece
<1>. HIDE DEF d
<1>4. u \o v = w
  BY <1>1, TwoPieces
<1>5. u \in Seq(S) /\ v \in Seq(S)
  BY <1>1, Piece
<1>. HIDE DEF u, v, w
<1>6. u \o Append(v, x) = (u \o v) \o <<x>>
  BY <1>5
<1>. QED
  BY <1>2, <1>3, <1>4, <1>6, Zenon DEF u, Converts

\* The places of a turn from c to i in a line that begins behind s.
TurnPlaces(N, s, c, i, F, h, g, m) ==
  /\ s \in Nat /\ i \in Nat /\ c \in Nat /\ g \in Nat /\ m \in Nat
  /\ g >= 1 /\ m = F + g /\ c + g = i /\ s + m = i
  /\ i \in 0..N /\ c \in 0..i /\ s \in 0..c /\ s \in 0..i /\ c \in 0..N /\ i \in 1..N
  /\ g \in 1..g /\ m \in 1..m
  /\ g # h => g < h
  /\ g >= 2 => /\ g - 1 \in 1..g /\ m - 1 \in 1..m /\ c + (g - 1) = s + (m - 1) /\ m >= 2
               /\ g - 1 \in Nat /\ g - 1 >= 1 /\ g - 1 < h /\ m - 1 = F + (g - 1)
  /\ ~(g >= 2) => m - 1 = F /\ (F = 0 => ~(m >= 2))

\* Where a turn lies in the line it reads.
LEMMA TurnArithmetic ==
  ASSUME NEW N \in Nat, NEW s \in 0..N, NEW i \in (s + 1)..N, NEW F \in Nat, NEW H \in Nat,
         NEW c, c = s + F, c < i, NEW h, h = H - 1, NEW g, g = i - c, g <= h, NEW m, m = i - s
  PROVE  TurnPlaces(N, s, c, i, F, h, g, m)
<1>1. s \in Nat /\ i \in Nat /\ c \in Nat /\ g \in Nat /\ m \in Nat /\ h \in Int /\ i <= N
  OBVIOUS
<1>2. g >= 1 /\ m = F + g /\ c + g = i /\ s + m = i
  OBVIOUS
<1>3. /\ i \in 0..N /\ c \in 0..i /\ s \in 0..c /\ s \in 0..i /\ c \in 0..N /\ i \in 1..N
      /\ g \in 1..g /\ m \in 1..m
  OBVIOUS
<1>4. g # h => g < h
  BY <1>1
<1>5. ASSUME g >= 2
      PROVE  /\ g - 1 \in 1..g /\ m - 1 \in 1..m /\ c + (g - 1) = s + (m - 1) /\ m >= 2
             /\ g - 1 \in Nat /\ g - 1 >= 1 /\ g - 1 < h /\ m - 1 = F + (g - 1)
  BY <1>1, <1>2, <1>5
<1>6. ASSUME ~(g >= 2) PROVE m - 1 = F /\ (F = 0 => ~(m >= 2))
  BY <1>1, <1>2, <1>6
<1>. QED
  BY <1>1, <1>2, <1>3, <1>4, <1>5, <1>6, Zenon DEF TurnPlaces

\* What a turn that reads from c to i makes of the line that begins behind s.
TurnMakes(s, i, t, c) ==
  LET after == SubSeq(Text, s + 1, c) \o util_fgets(SubSeq(Text, c + 1, i)) IN
  /\ Text[i] = "\n" => after = Returned(i) /\ i \in Kept
  /\ Text[i] # "\n" =>
       /\ after = RawLine(i) /\ Returned(i) = RawLine(i)
       /\ i = Len(Text) /\ i - c # AfterTurn[t][2] \div 2 - 1 => i \in Kept

\* What a turn adds to the buffer when it reaches i, t full turns after the line
\* began.
LEMMA TurnAdds ==
  ASSUME file \in Seq(Byte), NEW s, NEW i, LineFrom(s, i), NEW t \in 0..Len(file),
         NEW c, c = s + Full(t), c < i, i - c <= AfterTurn[t][2] \div 2 - 1
  PROVE  TurnMakes(s, i, t, c)
<1>. DEFINE b == SubSeq(Text, s + 1, c)
            got == SubSeq(Text, c + 1, i)
            l == RawLine(i)
            h == AfterTurn[t][2] \div 2 - 1
            g == i - c
            m == i - s
<1>0. /\ Text \in Seq(Byte) /\ Len(Text) \in Nat /\ s \in 0..Len(Text) /\ i \in (s + 1)..Len(Text)
      /\ Full(t) \in Nat /\ AfterTurn[t][2] \div 2 \in Nat
  BY TextOfFile, FullGrows, Zenon DEF LineFrom
<1>. DEFINE P == TurnPlaces(Len(Text), s, c, i, Full(t), h, g, m)
<1>a. h = AfterTurn[t][2] \div 2 - 1 /\ g = i - c /\ g <= h /\ m = i - s
  OBVIOUS
<1>1. P
  <2>. HIDE DEF h, g, m
  <2>. QED
    BY <1>0, <1>a, TurnArithmetic, Zenon
<1>2. l = SubSeq(Text, s + 1, i) /\ l \in Seq(Byte) /\ Len(l) = m
      /\ \A k \in 1..m : l[k] = Text[s + k]
  BY LineIsRaw, Zenon
<1>3. got \in Seq(Byte) /\ Len(got) = g /\ \A k \in 1..g : got[k] = Text[c + k]
  <2>1. i \in 0..Len(Text) /\ c \in 0..i
    BY <1>1, Zenon DEF TurnPlaces
  <2>. QED
    BY <1>0, <2>1, Piece, Zenon
<1>4. b \o got = l
  <2>1. i \in 0..Len(Text) /\ c \in 0..i /\ s \in 0..c
    BY <1>1, Zenon DEF TurnPlaces
  <2>. QED
    BY <1>0, <1>2, <2>1, TwoPieces, Zenon
<1>5. EndsInCRLF(got) <=> g >= 2 /\ got[g - 1] = "\r" /\ got[g] = "\n"
  <2>. HIDE DEF got, g
  <2>. QED
    BY <1>3, CRLFIs, Zenon
<1>6. EndsInCRLF(l) <=> m >= 2 /\ l[m - 1] = "\r" /\ l[m] = "\n"
  <2>. HIDE DEF l, m
  <2>. QED
    BY <1>2, CRLFIs, Zenon
<1>. HIDE DEF h, g, m, l
<1>7. got[g] = Text[i] /\ l[m] = Text[i]
  <2>1. g \in 1..g /\ m \in 1..m /\ c + g = i /\ s + m = i
    BY <1>1, Zenon DEF TurnPlaces
  <2>2. got[g] = Text[c + g] /\ l[m] = Text[s + m]
    BY <1>2, <1>3, <2>1, Zenon
  <2>. QED
    BY <2>1, <2>2, Zenon
<1>8. ASSUME g >= 2 PROVE m >= 2 /\ got[g - 1] = l[m - 1]
  <2>1. g - 1 \in 1..g /\ m - 1 \in 1..m /\ c + (g - 1) = s + (m - 1) /\ m >= 2
    BY <1>1, <1>8, Zenon DEF TurnPlaces
  <2>2. got[g - 1] = Text[c + (g - 1)] /\ l[m - 1] = Text[s + (m - 1)]
    BY <1>2, <1>3, <2>1, Zenon
  <2>. QED
    BY <2>1, <2>2, Zenon
<1>9. util_fgets(got) = IF EndsInCRLF(got) THEN Append(SubSeq(got, 1, g - 2), "\n") ELSE got
  BY <1>3, Zenon DEF util_fgets
<1>10. Returned(i) = IF m - 1 \notin Turns /\ EndsInCRLF(l)
                     THEN SubSeq(l, 1, m - 2) \o <<"\n">> ELSE l
  BY <1>2, Zenon DEF Returned, l
<1>11. i \in Kept <=> (Text[i] = "\n" \/ i = Len(Text)) /\ ~(Text[i] # "\n" /\ m \in Turns)
  <2>1. i \in 1..Len(Text)
    BY <1>1, Zenon DEF TurnPlaces
  <2>. QED
    BY <1>2, <2>1, Zenon DEF Kept, Ends, Dropped, l
<1>12. ASSUME Text[i] # "\n"
       PROVE  /\ b \o util_fgets(got) = l /\ Returned(i) = l
              /\ i = Len(Text) /\ g # h => i \in Kept
  <2>1. ~EndsInCRLF(got) /\ ~EndsInCRLF(l)
    BY <1>5, <1>6, <1>7, <1>12, Zenon
  <2>2. ASSUME g # h PROVE m \notin Turns
    <3>1. g < h /\ g \in Nat /\ g >= 1 /\ m = Full(t) + g
      BY <1>1, <2>2, Zenon DEF TurnPlaces
    <3>2. Full(t) + g \notin Turns
      BY <3>1, InsideTurn, Zenon DEF h
    <3>. QED
      BY <3>1, <3>2, Zenon
  <2>. QED
    BY <1>4, <1>9, <1>10, <1>11, <2>1, <2>2, Zenon
<1>13. ASSUME Text[i] = "\n" PROVE b \o util_fgets(got) = Returned(i)
  <2>1. CASE g >= 2
    <3>1. m - 1 \notin Turns
      <4>. DEFINE f == g - 1
      <4>1. f \in Nat /\ f >= 1 /\ f < h /\ m - 1 = Full(t) + f
        BY <1>1, <2>1, Zenon DEF TurnPlaces
      <4>. HIDE DEF f
      <4>2. Full(t) + f \notin Turns
        BY <4>1, InsideTurn, Zenon DEF h
      <4>. QED
        BY <4>1, <4>2, Zenon
    <3>2. EndsInCRLF(got) <=> EndsInCRLF(l)
      BY <1>5, <1>6, <1>7, <1>8, <2>1, Zenon
    <3>3. b \o Append(SubSeq(got, 1, g - 2), "\n") = SubSeq(l, 1, m - 2) \o <<"\n">>
      <4>1. "\n" \in Byte
        BY Zenon DEF Byte
      <4>2. i - c >= 2
        BY <2>1, Zenon DEF g
      <4>3. Converts(Text, s, c, i, "\n")
        <5>1. i \in 0..Len(Text) /\ c \in 0..i /\ s \in 0..c
          BY <1>1, Zenon DEF TurnPlaces
        <5>. QED
          BY <1>0, <4>1, <4>2, <5>1, ConvertedPiece, Zenon
      <4>. QED
        BY <1>2, <4>3, Zenon DEF g, m, Converts
    <3>. QED
      BY <1>4, <1>9, <1>10, <3>1, <3>2, <3>3, Zenon
  <2>2. CASE ~(g >= 2)
    <3>1. ~EndsInCRLF(got)
      BY <1>5, <2>2, Zenon
    <3>2. m - 1 \in Turns \/ ~EndsInCRLF(l)
      <4>1. CASE t = 0
        <5>1. Full(t) = 0
          BY <4>1, FullGrows, Zenon
        <5>2. ~(m >= 2)
          BY <1>1, <2>2, <5>1, Zenon DEF TurnPlaces
        <5>. QED
          BY <1>6, <5>2, Zenon
      <4>2. CASE t # 0
        <5>1. t \in 1..Len(file)
          BY <4>2
        <5>2. m - 1 = Full(t)
          BY <1>1, <2>2, Zenon DEF TurnPlaces
        <5>. QED
          BY <5>1, <5>2, Zenon DEF Turns, Full
      <4>. QED
        BY <4>1, <4>2, Zenon
    <3>. QED
      BY <1>4, <1>9, <1>10, <3>1, <3>2, Zenon
  <2>. QED
    BY <2>1, <2>2, Zenon
<1>. QED
  BY <1>11, <1>12, <1>13, Zenon DEF h, g, l, b, got, TurnMakes

\* util_readline is between two lines, s bytes into the text; or t turns into the
\* line that begins there.
Cut(s) == s \in 0..Len(Text) /\ (s = 0 \/ Text[s] = "\n" \/ s = Len(Text))
Between(ls, p, s) == Cut(s) /\ Got(ls, s) /\ p = TextStart + s
Reading(ls, p, z, b, s, t) ==
  /\ Cut(s) /\ Got(ls, s)
  /\ t \in 0..Len(file) /\ s + Full(t) <= Len(Text)
  /\ p = TextStart + (s + Full(t)) /\ z = AfterTurn[t][2]
  /\ b = SubSeq(Text, s + 1, s + Full(t))
  /\ \A n \in (s + 1)..(s + Full(t)) : Text[n] # "\n"

LinesInv ==
  /\ state = "raw" => pos = TextStart
  /\ Len(file) >= 3 =>
       /\ state = "new" => ~eof /\ lines = <<>>
       /\ eof => pos = Len(file)
       /\ state = "open" => \E s : Between(lines, pos, s)
       /\ state = "line" => \E s, t : Reading(lines, pos, bufsize, buffer, s, t)
       /\ state = "end" => Got(lines, Len(Text))

\* All this is about one file.
LEMMA SameFile ==
  ASSUME file' = file
  PROVE  /\ Text' = Text /\ TextStart' = TextStart
         /\ \A s : Got(lines, s)' <=> Got(lines', s)
         /\ \A s : Between(lines, pos, s)' <=> Between(lines', pos', s)
         /\ \A s, t : Reading(lines, pos, bufsize, buffer, s, t)' <=>
              Reading(lines', pos', bufsize', buffer', s, t)
<1>1. Marked' = Marked
  BY Zenon DEF Marked
<1>2. Text' = Text /\ TextStart' = TextStart
  BY <1>1, Zenon DEF Text, TextStart
<1>3. AfterTurn' = AfterTurn
  BY Zenon DEF AfterTurn
<1>4. Turns' = Turns /\ \A t : Full(t)' = Full(t)
  BY <1>3, Zenon DEF Turns, Full
<1>5. \A i : RawLine(i)' = RawLine(i)
  BY <1>2, Zenon DEF RawLine, LastCut
<1>6. Ends' = Ends
  BY <1>2, Zenon DEF Ends
<1>7. Kept' = Kept
  BY <1>2, <1>4, <1>5, <1>6, Zenon DEF Kept, Dropped
<1>8. \A i : Returned(i)' = Returned(i)
  BY <1>4, <1>5, Zenon DEF Returned
<1>9. Upto' = Upto
  BY <1>2, <1>7, Zenon DEF Upto, Count
<1>10. \A s : Got(lines, s)' <=> Got(lines', s)
  BY <1>7, <1>8, <1>9, Zenon DEF Got
<1>11. \A s : Cut(s)' <=> Cut(s)
  BY <1>2, Zenon DEF Cut
<1>12. \A s : Between(lines, pos, s)' <=> Between(lines', pos', s)
  BY <1>2, <1>10, <1>11, Zenon DEF Between
<1>13. \A s, t : Reading(lines, pos, bufsize, buffer, s, t)' <=>
         Reading(lines', pos', bufsize', buffer', s, t)
  BY <1>2, <1>3, <1>4, <1>10, <1>11, Zenon DEF Reading
<1>. QED
  BY <1>2, <1>10, <1>12, <1>13, Zenon

\* A piece of the file is one of the text.
LEMMA PieceOfText ==
  ASSUME file \in Seq(Byte), NEW b \in 0..Len(Text), NEW a \in 0..b
  PROVE  SubSeq(file, (TextStart + a) + 1, TextStart + b) = SubSeq(Text, a + 1, b)
<1>. DEFINE N == Len(Text)
            L == Len(file)
            o == TextStart
            d == o + b
            e == o + a
            u == SubSeq(file, e + 1, d)
            v == SubSeq(Text, a + 1, b)
<1>1. /\ Text \in Seq(Byte) /\ N \in Nat /\ L \in Nat /\ o \in 0..L /\ N = L - o
      /\ \A i \in 1..N : Text[i] = file[o + i]
  BY TextOfFile, Zenon
<1>. HIDE DEF N, L, o
<1>2. b \in 0..N
  BY Zenon DEF N
<1>3. /\ d \in 0..L /\ e \in 0..d /\ d - e = b - a /\ b - a \in Nat
      /\ \A i \in 1..(b - a) : e + i = o + (a + i) /\ a + i \in 1..N
  BY <1>1, <1>2
<1>. HIDE DEF d, e
<1>4. u \in Seq(Byte) /\ Len(u) = d - e /\ \A i \in 1..(d - e) : u[i] = file[e + i]
  BY <1>3, Piece DEF L
<1>5. v \in Seq(Byte) /\ Len(v) = b - a /\ \A i \in 1..(b - a) : v[i] = Text[a + i]
  BY <1>1, <1>2, Piece, ZenonT(30) DEF N
<1>. HIDE DEF u, v
<1>6. Len(u) = Len(v)
  BY <1>3, <1>4, <1>5, Zenon
<1>7. ASSUME NEW i \in 1..Len(v) PROVE u[i] = v[i]
  <2>1. i \in 1..(b - a) /\ i \in 1..(d - e)
    BY <1>3, <1>5, Zenon
  <2>2. u[i] = file[e + i] /\ v[i] = Text[a + i] /\ e + i = o + (a + i) /\ a + i \in 1..N
    BY <1>3, <1>4, <1>5, <2>1, Zenon
  <2>3. Text[a + i] = file[o + (a + i)]
    BY <1>1, <2>2, Zenon
  <2>. QED
    BY <2>2, <2>3, Zenon
<1>8. u = v
  BY <1>4, <1>5, <1>6, <1>7, SameSequence, Zenon
<1>. QED
  BY <1>8, Zenon DEF u, v, e, d, o

\* fgets has read the text from c to i, in a line that begins behind s.
Reached(s, c, i, max) ==
  /\ c \in 0..i /\ i \in 0..Len(Text) /\ s \in 0..c
  /\ fgets(max) = SubSeq(Text, c + 1, i) /\ Len(fgets(max)) = i - c
  /\ pos + (i - c) = TextStart + i
  /\ (i = c <=> c = Len(Text)) /\ i - c <= max - 1
  /\ i - c = max - 1 \/ i = Len(Text) \/ Text[i] = "\n"
  /\ i # c => LineFrom(s, i)

\* Every turn reads on from where the turns before it have stopped.
LEMMA TurnReaches ==
  ASSUME file \in Seq(Byte), NEW s, NEW t, Reading(lines, pos, bufsize, buffer, s, t)
  PROVE  \E i : Reached(s, s + Full(t), i, bufsize \div 2)
<1>. DEFINE N == Len(Text)
            L == Len(file)
            o == TextStart
            F == Full(t)
            c == s + F
            max == bufsize \div 2
<1>1. /\ N \in Nat /\ L \in Nat /\ o \in 0..L /\ N = L - o
      /\ \A i \in 1..N : Text[i] = file[o + i]
  BY TextOfFile, Zenon
<1>2. /\ s \in 0..N /\ (s = 0 \/ Text[s] = "\n" \/ s = N) /\ t \in 0..L /\ c <= N
      /\ pos = o + c /\ bufsize = AfterTurn[t][2] /\ \A n \in (s + 1)..c : Text[n] # "\n"
  BY Zenon DEF Reading, Cut
<1>3. F \in Nat /\ max \in Nat /\ max >= 2
  BY <1>2, FullGrows, Zenon
<1>. HIDE DEF N, L, o, F, max
<1>4. c \in Nat /\ s \in 0..c /\ c \in 0..N /\ pos \in 0..L /\ (pos = L <=> c = N)
  BY <1>1, <1>2, <1>3
<1>5. PICK g \in 0..(max - 1) :
        /\ fgets(max) = SubSeq(file, pos + 1, pos + g) /\ Len(fgets(max)) = g
        /\ pos + g <= L /\ (g = 0 <=> pos = L)
        /\ g = max - 1 \/ pos + g = L \/ (g # 0 /\ file[pos + g] = "\n")
        /\ \A n \in 1..g : n # g => file[pos + n] # "\n"
  BY <1>3, <1>4, FgetsReads, Zenon DEF L
<1>. HIDE DEF c
<1>. DEFINE i == c + g
<1>6. /\ g \in Nat /\ g <= max - 1 /\ i \in Nat /\ c \in 0..i /\ i \in 0..N /\ i - c = g
      /\ pos + g = o + i /\ (i = c <=> g = 0) /\ (pos + g = L => i = N)
  <2>1. g \in Nat /\ g <= max - 1
    BY <1>3, <1>5
  <2>2. pos = o + c /\ c \in Nat /\ pos + g <= L
    BY <1>2, <1>4, <1>5, Zenon
  <2>. QED
    BY <1>1, <2>1, <2>2
<1>7. fgets(max) = SubSeq(Text, c + 1, i)
  <2>1. SubSeq(file, (TextStart + c) + 1, TextStart + i) = SubSeq(Text, c + 1, i)
    <3>. HIDE DEF i
    <3>. QED
      BY <1>6, PieceOfText, Zenon DEF N
  <2>. QED
    BY <1>2, <1>5, <1>6, <2>1, Zenon DEF o
<1>8. ASSUME NEW n \in 1..g PROVE Text[c + n] = file[pos + n]
  <2>1. c + n \in 1..N /\ o + (c + n) = pos + n
    BY <1>1, <1>2, <1>4, <1>6
  <2>2. Text[c + n] = file[o + (c + n)]
    BY <1>1, <2>1, Zenon
  <2>. QED
    BY <2>1, <2>2, Zenon
<1>9. g # 0 => Text[i] = file[pos + g]
  <2>1. g # 0 => g \in 1..g
    BY <1>6
  <2>. QED
    BY <1>8, <2>1, Zenon
<1>10. ASSUME i # c PROVE LineFrom(s, i)
  <2>1. s \in 0..N /\ i \in (s + 1)..N /\ s # N
    BY <1>1, <1>4, <1>6, <1>10
  <2>2. ASSUME NEW n \in (s + 1)..i, n # i PROVE Text[n] # "\n"
    <3>1. CASE n <= c
      <4>1. n \in (s + 1)..c
        BY <1>4, <1>6, <2>1, <3>1
      <4>. QED
        BY <1>2, <4>1, Zenon
    <3>2. CASE ~(n <= c)
      <4>. DEFINE k == n - c
      <4>1. k \in 1..g /\ k # g /\ c + k = n
        BY <1>4, <1>6, <2>1, <2>2, <3>2
      <4>. HIDE DEF k
      <4>2. file[pos + k] # "\n" /\ Text[c + k] = file[pos + k]
        BY <1>5, <1>8, <4>1, Zenon
      <4>. QED
        BY <4>1, <4>2, Zenon
    <3>. QED
      BY <3>1, <3>2, Zenon
  <2>. HIDE DEF i
  <2>. QED
    BY <1>2, <2>1, <2>2, Zenon DEF LineFrom, N
<1>11. i - c = max - 1 \/ i = N \/ Text[i] = "\n"
  BY <1>5, <1>6, <1>9, Zenon
<1>12. i = c <=> c = N
  BY <1>4, <1>5, <1>6, Zenon
<1>13. Len(fgets(max)) = i - c /\ pos + (i - c) = TextStart + i /\ i - c <= max - 1
  BY <1>5, <1>6, Zenon DEF o
<1>. HIDE DEF i
<1>14. Reached(s, c, i, max)
  BY <1>4, <1>6, <1>7, <1>10, <1>11, <1>12, <1>13, Zenon DEF Reached, N
<1>. QED
  BY <1>14, Zenon DEF c, F, max

\* The newline at the end of what was read stays at the end.
LEMMA NewlineStays ==
  ASSUME NEW u \in Seq(Byte), NEW str \in Seq(Byte), str # <<>>, str[Len(str)] = "\n"
  PROVE  LET w == u \o util_fgets(str) IN w[Len(w)] = "\n"
<1>1. \A v \in Seq(Byte) : v # <<>> => (u \o v)[Len(u \o v)] = v[Len(v)]
  OBVIOUS
<1>2. CASE util_fgets(str) = str
  BY <1>1, <1>2, Zenon
<1>3. CASE util_fgets(str) # str
  <2>. DEFINE v == SubSeq(str, 1, Len(str) - 2)
              w == Append(v, "\n")
  <2>1. util_fgets(str) = w /\ Len(str) >= 2
    BY <1>3, Zenon DEF util_fgets, EndsInCRLF
  <2>2. Len(str) - 2 \in 0..Len(str) /\ "\n" \in Byte
    BY <2>1 DEF Byte
  <2>3. v \in Seq(Byte)
    BY <2>2, Beginning, Zenon
  <2>. HIDE DEF v
  <2>4. w \in Seq(Byte) /\ w # <<>> /\ w[Len(w)] = "\n"
    <3>1. \A S : \A x \in Seq(S), e \in S :
            Append(x, e) \in Seq(S) /\ Append(x, e) # <<>> /\ Append(x, e)[Len(Append(x, e))] = e
      OBVIOUS
    <3>. QED
      BY <2>2, <2>3, <3>1, ZenonT(30)
  <2>. HIDE DEF w
  <2>5. (u \o w)[Len(u \o w)] = "\n"
    BY <1>1, <2>4, Zenon
  <2>. QED
    BY <2>1, <2>5, Zenon
<1>. QED
  BY <1>2, <1>3, Zenon

\* A turn ends a line and returns it, or goes on with it.
LEMMA LinesTurn ==
  ASSUME file \in Seq(Byte), eof => pos = Len(file), readline_turn,
         NEW s, NEW t, Reading(lines, pos, bufsize, buffer, s, t)
  PROVE  /\ eof' => pos' = Len(file)
         /\ state' \in {"open", "line"}
         /\ state' = "open" => \E r : Between(lines', pos', r)
         /\ state' = "line" => \E r : Reading(lines', pos', bufsize', buffer', s, r)
<1>. DEFINE N == Len(Text)
            L == Len(file)
            o == TextStart
            F == Full(t)
            c == s + F
            max == bufsize \div 2
            got == fgets(max)
<1>1. PICK i : Reached(s, c, i, max)
  BY TurnReaches, Zenon
<1>2. /\ Text \in Seq(Byte) /\ N \in Nat /\ L \in Nat /\ o \in 0..L /\ N = L - o
  BY TextOfFile, Zenon
<1>3. /\ Cut(s) /\ Got(lines, s) /\ t \in 0..L /\ pos = o + c /\ bufsize = AfterTurn[t][2]
      /\ buffer = SubSeq(Text, s + 1, c) /\ \A n \in (s + 1)..c : Text[n] # "\n"
  BY Zenon DEF Reading
<1>4. /\ c \in 0..i /\ i \in 0..N /\ s \in 0..c
      /\ got = SubSeq(Text, c + 1, i) /\ Len(got) = i - c /\ pos + (i - c) = o + i
      /\ (i = c <=> c = N) /\ i - c <= max - 1
      /\ i - c = max - 1 \/ i = N \/ Text[i] = "\n"
      /\ i # c => LineFrom(s, i)
  BY <1>1, Zenon DEF Reached
<1>5. /\ got # <<>> /\ pos' = pos + Len(got) /\ eof' = (eof \/ MeetsEof(max))
      /\ buffer' = buffer \o util_fgets(got) /\ bufsize' = NextSize(bufsize) /\ state = "line"
      /\ IF eof' \/ buffer'[Len(buffer')] = "\n"
         THEN state' = "open" /\ lines' = Append(lines, buffer')
         ELSE UNCHANGED <<state, lines>>
  BY Zenon DEF readline_turn
<1>6. F \in Nat /\ max \in Nat /\ max >= 2 /\ t <= F /\ max = AfterTurn[t][2] \div 2
  BY <1>3, FullGrows, Zenon
<1>7. /\ SubSeq(Text, c + 1, i) \in Seq(Byte) /\ Len(SubSeq(Text, c + 1, i)) = i - c
      /\ \A k \in 1..(i - c) : SubSeq(Text, c + 1, i)[k] = Text[c + k]
  BY <1>2, <1>4, Piece, ZenonT(30)
<1>. HIDE DEF N, L, o, F, c, max, got
<1>8. got \in Seq(Byte) /\ \A k \in 1..(i - c) : got[k] = Text[c + k]
  BY <1>4, <1>7, Zenon
<1>9. c \in Nat /\ i \in Nat /\ s \in Nat /\ c = s + F
  <2>1. c = s + F
    BY DEF c
  <2>. QED
    BY <1>2, <1>4, <1>6, <2>1
<1>10. i # c
  <2>. SUFFICES ASSUME i = c PROVE FALSE
    BY Zenon
  <2>1. Len(got) = 0
    BY <1>4, <1>9
  <2>. QED
    BY <1>5, <1>8, <2>1
<1>11. c < i /\ i - c \in 1..(i - c) /\ c + (i - c) = i /\ c # N
  <2>1. \A x, y \in Nat : x \in 0..y /\ x # y => x < y /\ y - x \in 1..(y - x) /\ x + (y - x) = y
    OBVIOUS
  <2>. QED
    BY <1>4, <1>9, <1>10, <2>1, Zenon DEF N
<1>12. got[Len(got)] = Text[i]
  BY <1>4, <1>8, <1>11, Zenon
<1>13. LineFrom(s, i) /\ pos' = o + i
  BY <1>4, <1>5, <1>10, Zenon
<1>14. ~eof
  <2>. SUFFICES ASSUME eof PROVE FALSE
    BY Zenon
  <2>1. pos = L /\ pos = o + c
    BY <1>3, Zenon DEF L
  <2>. QED
    BY <1>2, <1>9, <1>11, <2>1
<1>15. eof' <=> i = N /\ i - c # max - 1 /\ Text[i] # "\n"
  <2>1. MeetsEof(max) <=> pos + Len(got) = L /\ Len(got) < max - 1 /\ (got = <<>> \/ got[Len(got)] # "\n")
    BY Zenon DEF MeetsEof, got, L
  <2>2. pos + Len(got) = o + i /\ Len(got) = i - c
    BY <1>4, Zenon
  <2>3. o + i = L <=> i = N
    BY <1>2, <1>9
  <2>4. i - c < max - 1 <=> i - c # max - 1
    <3>1. i - c <= max - 1
      BY <1>4, Zenon
    <3>. QED
      BY <1>6, <1>9, <3>1
  <2>5. MeetsEof(max) <=> i = N /\ i - c # max - 1 /\ Text[i] # "\n"
    BY <1>5, <1>12, <2>1, <2>2, <2>3, <2>4, Zenon
  <2>. QED
    BY <1>5, <1>14, <2>5, Zenon
<1>16. eof' => pos' = Len(file)
  <2>1. i = N => o + i = L
    BY <1>2
  <2>. QED
    BY <1>13, <1>15, <2>1, Zenon DEF L
<1>17. TurnMakes(s, i, t, c)
  <2>1. i - c <= AfterTurn[t][2] \div 2 - 1 /\ t \in 0..Len(file) /\ c = s + Full(t)
    BY <1>3, <1>4, <1>6, <1>9, Zenon DEF F, L
  <2>. QED
    BY <1>11, <1>13, <2>1, TurnAdds, Zenon
<1>18. /\ Text[i] = "\n" => buffer' = Returned(i) /\ i \in Kept
       /\ Text[i] # "\n" => /\ buffer' = RawLine(i) /\ Returned(i) = RawLine(i)
                            /\ i = N /\ i - c # max - 1 => i \in Kept
  BY <1>3, <1>4, <1>5, <1>6, <1>17, Zenon DEF N, TurnMakes
<1>19. buffer' \in Seq(Byte) /\ buffer \in Seq(Byte)
  <2>1. c \in 0..N /\ s \in 0..c
    BY <1>2, <1>4, <1>9
  <2>2. SubSeq(Text, s + 1, c) \in Seq(Byte)
    BY <1>2, <2>1, Piece, Zenon DEF N
  <2>3. buffer \in Seq(Byte) /\ util_fgets(got) \in Seq(Byte)
    BY <1>3, <1>8, <2>2, UtilFgetsShortens, Zenon
  <2>4. buffer \o util_fgets(got) \in Seq(Byte)
    BY <2>3
  <2>. QED
    BY <1>5, <2>3, <2>4, Zenon
<1>20. i \in 0..N
  BY <1>4, Zenon
\* The line ends here.
<1>21. ASSUME i \in Kept, buffer' = Returned(i), eof' \/ buffer'[Len(buffer')] = "\n",
              Text[i] = "\n" \/ i = N
       PROVE  state' = "open" /\ Between(lines', pos', i)
  <2>1. state' = "open" /\ lines' = Append(lines, Returned(i))
    BY <1>5, <1>21, Zenon
  <2>2. Got(Append(lines, Returned(i)), i)
    BY <1>3, <1>13, <1>19, <1>21, GotLine, Zenon
  <2>3. Got(lines', i)
    BY <2>1, <2>2, Zenon
  <2>. QED
    BY <1>13, <1>20, <1>21, <2>1, <2>3, Zenon DEF Between, Cut, N, o
<1>22. CASE Text[i] = "\n"
  <2>1. buffer'[Len(buffer')] = "\n"
    <3>1. LET w == buffer \o util_fgets(got) IN w[Len(w)] = "\n"
      BY <1>5, <1>8, <1>12, <1>19, <1>22, NewlineStays, Zenon
    <3>. QED
      BY <1>5, <3>1, Zenon
  <2>. QED
    BY <1>16, <1>18, <1>21, <1>22, <2>1, Zenon
<1>23. CASE Text[i] # "\n" /\ i = N /\ i - c # max - 1
  BY <1>15, <1>16, <1>18, <1>21, <1>23, Zenon
<1>24. CASE Text[i] # "\n" /\ i - c = max - 1
  <2>1. ~eof' /\ buffer' = RawLine(i)
    BY <1>15, <1>18, <1>24, Zenon
  <2>2. /\ RawLine(i) = SubSeq(Text, s + 1, i) /\ Len(RawLine(i)) = i - s
        /\ \A k \in 1..(i - s) : RawLine(i)[k] = Text[s + k]
    BY <1>13, LineIsRaw, Zenon
  <2>3. i - s \in 1..(i - s) /\ s + (i - s) = i
    BY <1>6, <1>9, <1>11
  <2>4. buffer'[Len(buffer')] = Text[i]
    BY <2>1, <2>2, <2>3, Zenon
  <2>5. state' = "line" /\ lines' = lines
    BY <1>5, <1>24, <2>1, <2>4, Zenon
  <2>6. t + 1 <= L
    <3>1. t \in Nat /\ L \in Nat /\ t <= F /\ F \in Nat /\ i <= L
      BY <1>2, <1>3, <1>6, <1>20
    <3>. QED
      BY <1>6, <1>9, <1>24, <3>1
  <2>7. /\ Full(t + 1) = Full(t) + (AfterTurn[t][2] \div 2 - 1)
        /\ AfterTurn[t + 1][2] = 2 * AfterTurn[t][2]
    BY <1>3, <2>6, FullGrows, Zenon DEF L
  <2>8. Full(t + 1) = F + (max - 1)
    BY <1>6, <2>7, Zenon DEF F
  <2>9. s + Full(t + 1) = i
    BY <1>6, <1>9, <1>24, <2>8
  <2>10. bufsize' = AfterTurn[t + 1][2]
    BY <1>3, <1>5, <2>7, Zenon DEF NextSize
  <2>11. t + 1 \in 0..L /\ i <= N
    BY <1>2, <1>3, <1>20, <2>6
  <2>12. \A n \in (s + 1)..i : Text[n] # "\n"
    BY <1>13, <1>24, Zenon DEF LineFrom
  <2>13. Reading(lines', pos', bufsize', buffer', s, t + 1)
    <3>1. Cut(s) /\ Got(lines', s)
      BY <1>3, <2>5, Zenon
    <3>2. t + 1 \in 0..Len(file) /\ s + Full(t + 1) <= Len(Text)
      BY <2>9, <2>11, Zenon DEF L, N
    <3>3. pos' = TextStart + (s + Full(t + 1)) /\ buffer' = SubSeq(Text, s + 1, s + Full(t + 1))
      BY <1>13, <2>1, <2>2, <2>9, Zenon DEF o
    <3>4. \A n \in (s + 1)..(s + Full(t + 1)) : Text[n] # "\n"
      BY <2>9, <2>12, Zenon
    <3>. QED
      BY <2>10, <3>1, <3>2, <3>3, <3>4, Zenon DEF Reading
  <2>. QED
    BY <1>16, <2>5, <2>13, Zenon
<1>. QED
  BY <1>4, <1>22, <1>23, <1>24, Zenon

\* The end of the file ends the reading; a line that full turns have read to the
\* end of the file is the one that is dropped.
LEMMA LinesEnd ==
  ASSUME file \in Seq(Byte), readline_end,
         NEW s, NEW t, Reading(lines, pos, bufsize, buffer, s, t)
  PROVE  pos = Len(file) /\ Got(lines, Len(Text))
<1>. DEFINE N == Len(Text)
            c == s + Full(t)
            max == bufsize \div 2
<1>1. PICK i : Reached(s, c, i, max)
  BY TurnReaches, Zenon
<1>2. /\ N \in Nat /\ Len(file) \in Nat /\ TextStart \in 0..Len(file) /\ N = Len(file) - TextStart
  BY TextOfFile, Zenon
<1>3. /\ Cut(s) /\ Got(lines, s) /\ t \in 0..Len(file) /\ pos = TextStart + c
      /\ \A n \in (s + 1)..c : Text[n] # "\n"
  BY Zenon DEF Reading
<1>4. /\ c \in 0..i /\ i \in 0..N /\ s \in 0..c
      /\ Len(fgets(max)) = i - c /\ (i = c <=> c = N)
  BY <1>1, Zenon DEF Reached
<1>5. fgets(max) = <<>>
  BY Zenon DEF readline_end
<1>6. Full(t) \in Nat /\ t <= Full(t) /\ Full(0) = 0
  BY <1>3, FullGrows, Zenon
<1>7. i - c = 0
  <2>1. Len(<<>>) = 0
    OBVIOUS
  <2>. QED
    BY <1>4, <1>5, <2>1, Zenon
<1>8. s \in Nat /\ c \in Nat /\ c = s + Full(t)
  BY <1>2, <1>4, <1>6
<1>. HIDE DEF N, c, max
<1>9. c = N
  <2>1. i \in 0..N /\ (i = c <=> c = N)
    BY <1>4, Zenon
  <2>. QED
    BY <1>2, <1>7, <1>8, <2>1
<1>10. pos = Len(file)
  <2>1. pos = TextStart + c
    BY <1>3, Zenon
  <2>. QED
    BY <1>2, <1>9, <2>1
<1>11. s \in 0..N /\ N \in 0..N
  BY <1>2, <1>4, <1>9
<1>12. ASSUME NEW n \in (s + 1)..N PROVE n \notin Kept
  <2>1. Text[n] # "\n"
    BY <1>3, <1>9, Zenon
  <2>2. CASE n # N
    BY <2>1, <2>2, Zenon DEF Kept, Ends, N
  <2>3. CASE n = N
    <3>1. s # N /\ N \in (s + 1)..N
      BY <1>2, <1>8, <2>3
    <3>2. LineFrom(s, N)
      <4>1. s = 0 \/ Text[s] = "\n"
        BY <1>3, <3>1, Zenon DEF Cut, N
      <4>2. \A m \in (s + 1)..N : m # N => Text[m] # "\n"
        BY <1>3, <1>9, Zenon
      <4>. QED
        BY <1>11, <3>1, <4>1, <4>2, Zenon DEF LineFrom, N
    <3>3. Len(RawLine(N)) = N - s
      BY <3>2, LineIsRaw, Zenon
    <3>4. N - s = Full(t)
      BY <1>2, <1>6, <1>8, <1>9
    <3>5. t # 0
      <4>1. N # s + 0
        BY <1>8, <3>1
      <4>. QED
        BY <1>6, <1>8, <1>9, <4>1, Zenon
    <3>6. t \in 1..Len(file)
      BY <1>2, <1>3, <3>5
    <3>7. Len(RawLine(N)) \in Turns
      BY <3>3, <3>4, <3>6, Zenon DEF Turns, Full
    <3>. QED
      BY <2>1, <2>3, <3>7, Zenon DEF Kept, Dropped
  <2>. QED
    BY <2>2, <2>3, Zenon
<1>13. Got(lines, N)
  BY <1>3, <1>11, <1>12, GotNone, Zenon DEF N
<1>. QED
  BY <1>10, <1>13, Zenon DEF N

\* A line begins with nothing read of it.
LEMMA LinesBegin ==
  ASSUME file \in Seq(Byte), readline_begin, NEW s, Between(lines, pos, s)
  PROVE  Reading(lines', pos', bufsize', buffer', s, 0)
<1>1. /\ lines' = lines /\ pos' = pos /\ bufsize' = PARSER_MAX_LINE /\ buffer' = <<>>
  BY Zenon DEF readline_begin
<1>2. Cut(s) /\ Got(lines, s) /\ pos = TextStart + s /\ s \in 0..Len(Text)
  BY Zenon DEF Between, Cut
<1>3. Full(0) = 0
  BY FullGrows, Zenon
<1>4. Len(file) \in Nat /\ Len(Text) \in Nat /\ Text \in Seq(Byte)
  BY TextOfFile, Zenon
<1>5. AfterTurn[0][2] = PARSER_MAX_LINE
  <2>1. AfterTurn[0] = <<0, PARSER_MAX_LINE>>
    BY AfterTurnSteps, Zenon
  <2>. QED
    BY <2>1
<1>6. s + 0 = s /\ s <= Len(Text) /\ 0 \in 0..Len(file) /\ ~(\E n : n \in (s + 1)..s)
  BY <1>2, <1>4
<1>7. SubSeq(Text, s + 1, s) = <<>>
  BY <1>2, <1>4
<1>. QED
  BY <1>1, <1>2, <1>3, <1>5, <1>6, <1>7, Zenon DEF Reading

\* Nothing has been returned at the beginning.
LEMMA GotNothing ==
  ASSUME file \in Seq(Byte)
  PROVE  Got(<<>>, 0)
<1>1. <<>> \in Seq(Seq(Byte)) /\ Len(<<>>) = 0
  OBVIOUS
<1>2. Upto[0] = 0
  BY UptoSteps, Zenon
<1>3. ASSUME NEW i \in Kept PROVE ~(i <= 0)
  <2>1. i \in 1..Len(Text) /\ Len(Text) \in Nat
    BY TextOfFile, Zenon DEF Kept, Ends
  <2>. QED
    BY <2>1
<1>. QED
  BY <1>1, <1>2, <1>3, Zenon DEF Got

\* Every step of the reading keeps the lines and the position together.
LEMMA LinesStep ==
  file \in Seq(Byte) /\ LinesInv /\ [SNext]_svars => LinesInv'
<1>. SUFFICES ASSUME file \in Seq(Byte), LinesInv, [SNext]_svars PROVE LinesInv'
  BY Zenon
<1>1. file' = file
  BY Zenon DEF SNext, svars, os_open_text, os_fopen_text, readline_begin, readline_end,
       readline_turn, readline_no_memory
<1>2. SUFFICES
        /\ state' = "raw" => pos' = TextStart
        /\ Len(file) >= 3 =>
             /\ state' = "new" => ~eof' /\ lines' = <<>>
             /\ eof' => pos' = Len(file)
             /\ state' = "open" => \E s : Between(lines', pos', s)
             /\ state' = "line" => \E s, t : Reading(lines', pos', bufsize', buffer', s, t)
             /\ state' = "end" => Got(lines', Len(Text))
  BY <1>1, SameFile, Zenon DEF LinesInv
<1>3. TextStart = (IF Marked THEN 3 ELSE 0)
  BY Zenon DEF TextStart
<1>4. CASE UNCHANGED svars
  BY <1>4, Zenon DEF LinesInv, svars
<1>5. CASE os_open_text
  <2>1. /\ state = "new" /\ state' = "raw" /\ pos' = TextStart /\ eof' = eof
    BY <1>3, <1>5, Zenon DEF os_open_text
  <2>2. Len(file) >= 3 => ~eof
    BY <2>1, Zenon DEF LinesInv
  <2>. QED
    BY <2>1, <2>2, Zenon
<1>6. CASE os_fopen_text
  <2>1. state = "new" /\ state' = "open" /\ lines' = lines
    BY <1>6, Zenon DEF os_fopen_text
  <2>2. ASSUME Len(file) >= 3 PROVE ~eof' /\ Between(lines', pos', 0)
    <3>1. ~(Len(file) < 3)
      <4>1. Len(file) \in Nat
        OBVIOUS
      <4>. QED
        BY <2>2, <4>1
    <3>2. pos' = TextStart /\ ~eof' /\ lines' = <<>>
      BY <1>3, <1>6, <2>1, <2>2, <3>1, Zenon DEF os_fopen_text, LinesInv
    <3>3. TextStart = TextStart + 0 /\ 0 \in 0..Len(Text)
      <4>1. TextStart \in Nat /\ Len(Text) \in Nat
        BY TextOfFile
      <4>. QED
        BY <4>1
    <3>4. Got(lines', 0)
      BY <3>2, GotNothing, Zenon
    <3>. QED
      BY <3>2, <3>3, <3>4, Zenon DEF Between, Cut
  <2>. QED
    BY <2>1, <2>2, Zenon
<1>7. CASE readline_begin
  <2>1. state = "open" /\ state' = "line" /\ pos' = pos /\ eof' = eof
    BY <1>7, Zenon DEF readline_begin
  <2>2. ASSUME Len(file) >= 3 PROVE \E s, t : Reading(lines', pos', bufsize', buffer', s, t)
    <3>1. PICK s : Between(lines, pos, s)
      BY <2>1, <2>2, Zenon DEF LinesInv
    <3>. QED
      BY <1>7, <3>1, LinesBegin, Zenon
  <2>. QED
    BY <2>1, <2>2, Zenon DEF LinesInv
<1>8. CASE readline_end
  <2>1. state = "line" /\ state' = "end" /\ pos' = pos /\ lines' = lines
    BY <1>8, Zenon DEF readline_end
  <2>2. ASSUME Len(file) >= 3 PROVE pos = Len(file) /\ Got(lines, Len(Text))
    <3>1. PICK s, t : Reading(lines, pos, bufsize, buffer, s, t)
      BY <2>1, <2>2, Zenon DEF LinesInv
    <3>. QED
      BY <1>8, <3>1, LinesEnd, Zenon
  <2>. QED
    BY <2>1, <2>2, Zenon
<1>9. CASE readline_turn
  <2>1. state = "line"
    BY <1>9, Zenon DEF readline_turn
  <2>2. state' \in {"open", "line"}
    BY <1>9, <2>1, Zenon DEF readline_turn
  <2>3. ASSUME Len(file) >= 3
        PROVE  /\ eof' => pos' = Len(file)
               /\ state' = "open" => \E s : Between(lines', pos', s)
               /\ state' = "line" => \E s, t : Reading(lines', pos', bufsize', buffer', s, t)
    <3>1. PICK s, t : Reading(lines, pos, bufsize, buffer, s, t)
      BY <2>1, <2>3, Zenon DEF LinesInv
    <3>2. eof => pos = Len(file)
      BY <2>3, Zenon DEF LinesInv
    <3>. QED
      BY <1>9, <3>1, <3>2, LinesTurn, Zenon
  <2>. QED
    BY <2>2, <2>3, Zenon
<1>10. CASE readline_no_memory
  <2>1. state' = "failed" /\ pos' = pos /\ eof' = eof
    BY <1>10, Zenon DEF readline_no_memory
  <2>. QED
    BY <2>1, Zenon DEF LinesInv
<1>. QED
  BY <1>4, <1>5, <1>6, <1>7, <1>8, <1>9, <1>10, Zenon DEF SNext

\* What the invariant says of the end of the reading.
LEMMA LinesAtEnd == file \in Seq(Byte) /\ LinesInv => LinesFaithful
<1>. SUFFICES ASSUME file \in Seq(Byte), LinesInv PROVE LinesFaithful
  BY Zenon
<1>1. state = "raw" => SubSeq(file, pos + 1, Len(file)) = Text
  BY TextOfFile, Zenon DEF LinesInv
<1>2. ASSUME state = "end", Len(file) >= 3
      PROVE  Len(lines) = Upto[Len(Text)] /\ \A i \in Kept : lines[Upto[i]] = Returned(i)
  <2>1. Got(lines, Len(Text))
    BY <1>2, Zenon DEF LinesInv
  <2>2. ASSUME NEW i \in Kept PROVE i <= Len(Text)
    <3>1. i \in 1..Len(Text) /\ Len(Text) \in Nat
      BY TextOfFile, Zenon DEF Kept, Ends
    <3>. QED
      BY <3>1
  <2>. QED
    BY <2>1, <2>2, Zenon DEF Got
<1>. QED
  BY <1>1, <1>2, Zenon DEF LinesFaithful

\* Nothing has been read or returned before the file is opened.
LEMMA LinesInit == SInit => LinesInv
  BY Zenon DEF SInit, LinesInv

\* util_readline returns every line of the file once, in order and whole, for
\* every file and every size of the first buffer, with the two exceptions at the
\* end of a turn of its loop; and it reads only into memory it has. os_open and
\* os_fopen leave the file behind its byte order mark.
THEOREM LinesAreFaithful == SSpec => []ReadsFaithfully
<1>1. SInit => StreamInv
  <2>. SUFFICES ASSUME SInit PROVE StreamInv
    BY Zenon
  <2>1. /\ file \in Seq(Byte) /\ bufsize = PARSER_MAX_LINE /\ pos = 0
        /\ buffer = <<>> /\ state # "line"
    BY StreamsAssumption, Zenon DEF SInit
  <2>2. bufsize \in Nat /\ bufsize >= 2 /\ pos \in Nat /\ buffer \in Seq(Byte)
    BY <2>1, StreamsAssumption
  <2>. QED
    BY <2>1, <2>2, Zenon DEF StreamInv
<1>2. StreamInv => file \in Seq(Byte) /\ BufferFits
  BY Zenon DEF StreamInv, BufferFits
<1>3. file \in Seq(Byte) /\ LinesInv /\ BufferFits => ReadsFaithfully
  BY LinesAtEnd, Zenon DEF ReadsFaithfully
<1>. QED
  BY <1>1, <1>2, <1>3, StreamStep, LinesInit, LinesStep, PTL DEF SSpec
==============================================================================
