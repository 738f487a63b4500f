------------------------------ MODULE UtilProofs ------------------------------
(***************************************************************************)
(* Proofs about the utility and operating system layer: the checksum,      *)
(* temporary files, the log, the state Windows keeps for the library and   *)
(* the annotations for Valgrind's tools, for every size of a range, number *)
(* of threads and processors and set of logged functions.                  *)
(***************************************************************************)
EXTENDS TmpFile, Log, WinOs, Checksum, Instrumentation, WellFoundedInduction, TLAPS

(***************************************************************************)
(* Recursive functions. A function defined by recursion over 0..N is what  *)
(* its definition says once some function is: that one exists is shown by  *)
(* induction, which is stated here for sets of numbers.                    *)
(***************************************************************************)
\* A set of numbers that is not empty has a least one.
LEMMA LeastNumber ==
  ASSUME NEW S \in SUBSET Nat, S # {}
  PROVE  \E x \in S : \A y \in S : x <= y
<1>. DEFINE R == OpToRel(<, Nat)
<1>1. \A x, y \in Nat : y < x => <<y, x>> \in R
  BY Zenon DEF OpToRel
<1>2. IsWellFoundedOn(R, Nat)
  BY NatLessThanWellFounded, Zenon
<1>. HIDE DEF R
<1>3. PICK x \in S : \A y \in S : ~(<<y, x>> \in R)
  BY <1>2, WFMin, Zenon
<1>4. ASSUME NEW y \in S PROVE x <= y
  <2>1. x \in Nat /\ y \in Nat /\ ~(y < x)
    BY <1>1, <1>3, Zenon
  <2>. QED
    BY <2>1
<1>. QED
  BY <1>4, Zenon

\* Induction: a set with 0 and with the successor of each number in it has all
\* the numbers.
LEMMA Induction ==
  ASSUME NEW S, 0 \in S, \A n \in Nat : n \in S => n + 1 \in S
  PROVE  \A n \in Nat : n \in S
<1>. DEFINE T == Nat \ S
<1>. SUFFICES ASSUME T # {} PROVE FALSE
  BY Zenon
<1>1. PICK x \in T : \A y \in T : x <= y
  BY LeastNumber, Zenon
<1>2. x \in Nat /\ x # 0
  BY Zenon
<1>3. x - 1 \in Nat /\ ~(x <= x - 1) /\ (x - 1) + 1 = x
  BY <1>2
<1>4. x - 1 \in S
  BY <1>1, <1>3, Zenon
<1>. QED
  BY <1>3, <1>4, Zenon

\* The values in V that begin with a and take one step of F per number.
Iterates(V, a, N, F, f) ==
  f \in [0..N -> V] /\ f[0] = a /\ \A n \in 1..N : f[n] = F[n][f[n - 1]]

\* Recursion: they exist.
LEMMA Recursion ==
  ASSUME NEW V, NEW a \in V, NEW N \in Nat, NEW F \in [1..N -> [V -> V]]
  PROVE  \E f : Iterates(V, a, N, F, f)
<1>. DEFINE Steps(n, f) == f[0] = a /\ \A i \in 1..n : f[i] = F[i][f[i - 1]]
            S == {n \in Nat : n <= N => \E f \in [0..n -> V] : Steps(n, f)}
<1>1. 0 \in S
  <2>. DEFINE f == [i \in 0..0 |-> a]
  <2>1. f \in [0..0 -> V] /\ f[0] = a
    OBVIOUS
  <2>2. 1..0 = {}
    OBVIOUS
  <2>. HIDE DEF f
  <2>3. \E h \in [0..0 -> V] : Steps(0, h)
    BY <2>1, <2>2, Zenon
  <2>. QED
    BY <2>3, Zenon
<1>2. ASSUME NEW n \in Nat, n \in S PROVE n + 1 \in S
  <2>. n + 1 \in Nat
    BY <1>2
  <2>. SUFFICES ASSUME n + 1 <= N PROVE \E f \in [0..(n + 1) -> V] : Steps(n + 1, f)
    BY Zenon
  <2>1. n <= N /\ n \in 0..n /\ n + 1 \in 1..N /\ (n + 1) - 1 = n /\ n + 1 # 0
    OBVIOUS
  <2>2. PICK f \in [0..n -> V] : Steps(n, f)
    BY <1>2, <2>1, Zenon
  <2>. DEFINE next == F[n + 1][f[n]]
              h == [i \in 0..(n + 1) |-> IF i = n + 1 THEN next ELSE f[i]]
  <2>3. next \in V
    BY <2>1, <2>2, Zenon
  <2>. HIDE DEF next
  <2>4. \A i \in 0..(n + 1) : i # n + 1 => i \in 0..n
    OBVIOUS
  <2>5. h \in [0..(n + 1) -> V]
    BY <2>2, <2>3, <2>4, Zenon
  <2>6. 0 \in 0..(n + 1) /\ n \in 0..(n + 1) /\ n + 1 \in 0..(n + 1) /\ n # n + 1 /\ 0 # n + 1
    OBVIOUS
  <2>7. h[0] = a /\ h[n] = f[n] /\ h[n + 1] = next
    BY <2>2, <2>6, Zenon
  <2>8. ASSUME NEW i \in 1..(n + 1) PROVE h[i] = F[i][h[i - 1]]
    <3>1. CASE i = n + 1
      BY <2>1, <2>7, <3>1, Zenon DEF next
    <3>2. CASE i # n + 1
      <4>1. /\ i \in 1..n /\ i \in 0..(n + 1) /\ i - 1 \in 0..(n + 1) /\ i - 1 # n + 1
        BY <3>2
      <4>2. h[i] = f[i] /\ h[i - 1] = f[i - 1]
        BY <3>2, <4>1, Zenon
      <4>. QED
        BY <2>2, <4>1, <4>2, Zenon
    <3>. QED
      BY <3>1, <3>2, Zenon
  <2>. HIDE DEF h
  <2>. QED
    BY <2>5, <2>7, <2>8, Zenon
<1>. HIDE DEF S
<1>3. N \in S
  BY <1>1, <1>2, Induction, Zenon
<1>4. N <= N
  OBVIOUS
<1>5. PICK f \in [0..N -> V] : Steps(N, f)
  BY <1>3, <1>4, Zenon DEF S
<1>. QED
  BY <1>5, Zenon DEF Iterates

\* What each step leaves in a set stays there.
LEMMA StaysIn ==
  ASSUME NEW V, NEW N \in Nat, NEW f, f[0] \in V,
         \A n \in 1..N : f[n - 1] \in V => f[n] \in V
  PROVE  \A n \in 0..N : f[n] \in V
<1>. DEFINE S == {n \in Nat : n \in 0..N => f[n] \in V}
<1>1. 0 \in S
  BY Zenon
<1>2. ASSUME NEW n \in Nat, n \in S PROVE n + 1 \in S
  <2>1. n + 1 \in Nat /\ (n + 1 \in 0..N => n + 1 \in 1..N /\ n \in 0..N) /\ (n + 1) - 1 = n
    OBVIOUS
  <2>. QED
    BY <1>2, <2>1, Zenon
<1>. HIDE DEF S
<1>3. \A n \in Nat : n \in S
  BY <1>1, <1>2, Induction, Zenon
<1>4. \A n \in 0..N : n \in Nat
  OBVIOUS
<1>. QED
  BY <1>3, <1>4, Zenon DEF S

\* The totals of a sequence of numbers.
LEMMA TotalsAddUp ==
  ASSUME NEW f \in Seq(Nat)
  PROVE  /\ Totals(f) \in [0..Len(f) -> Nat] /\ Totals(f)[0] = 0
         /\ \A k \in 1..Len(f) : Totals(f)[k] = Totals(f)[k - 1] + f[k]
<1>. DEFINE N == Len(f)
            F == [n \in 1..N |-> [v \in Nat |-> v + f[n]]]
            Is(t) == t = [k \in 0..N |-> IF k = 0 THEN 0 ELSE t[k - 1] + f[k]]
<1>0. N \in Nat /\ \A i \in 1..N : f[i] \in Nat
  OBVIOUS
<1>. HIDE DEF N
<1>1. F \in [1..N -> [Nat -> Nat]]
  BY <1>0
<1>2. PICK t : t \in [0..N -> Nat] /\ t[0] = 0 /\ \A n \in 1..N : t[n] = F[n][t[n - 1]]
  <2>. HIDE DEF F
  <2>1. 0 \in Nat
    OBVIOUS
  <2>2. \E t : Iterates(Nat, 0, N, F, t)
    BY <1>0, <1>1, <2>1, Recursion, Zenon
  <2>. QED
    BY <2>2, Zenon DEF Iterates
<1>3. ASSUME NEW k \in 1..N PROVE k \in 0..N /\ k # 0 /\ k - 1 \in 0..N
  BY <1>0
<1>4. \A k \in 1..N : t[k] = t[k - 1] + f[k]
  BY <1>2, <1>3, Zenon
<1>5. \A k \in 0..N : k = 0 \/ k \in 1..N
  BY <1>0
<1>6. Is(t)
  BY <1>2, <1>4, <1>5, Zenon
<1>7. Totals(f) = CHOOSE u : Is(u)
  BY Zenon DEF Totals, N
<1>8. Is(Totals(f))
  BY <1>6, <1>7, Zenon
<1>. DEFINE T == Totals(f)
<1>9. 0 \in 0..N
  BY <1>0
<1>10. T[0] = 0 /\ \A k \in 1..N : T[k] = T[k - 1] + f[k]
  BY <1>3, <1>8, <1>9, Zenon
<1>11. DOMAIN T = 0..N /\ T = [k \in 0..N |-> T[k]]
  BY <1>8, Zenon
<1>. HIDE DEF T
<1>12. ASSUME NEW k \in 1..N, T[k - 1] \in Nat PROVE T[k] \in Nat
  <2>1. f[k] \in Nat /\ T[k] = T[k - 1] + f[k]
    BY <1>0, <1>10, Zenon
  <2>. QED
    BY <1>12, <2>1
<1>13. \A n \in 0..N : T[n] \in Nat
  <2>1. T[0] \in Nat
    BY <1>10
  <2>. QED
    BY <1>0, <1>12, <2>1, StaysIn, Zenon
<1>14. T \in [0..N -> Nat]
  BY <1>11, <1>13, Zenon
<1>. QED
  BY <1>10, <1>14, Zenon DEF T, N

------------------------------------------------------------------------------
(***************************************************************************)
(* The checksum. Both loops keep the two sums of the words before the      *)
(* place they have reached, reduced to words; a turn over two words that   *)
(* do not count keeps them as well.                                        *)
(***************************************************************************)
\* Division with remainder.
LEMMA Remainder ==
  ASSUME NEW a \in Nat, NEW n \in Nat \ {0}
  PROVE  a % n \in 0..(n - 1) /\ a \div n \in Nat /\ a = (n * (a \div n)) + (a % n)
  OBVIOUS

\* The remainder is unique.
LEMMA RemainderUnique ==
  ASSUME NEW a \in Nat, NEW n \in Nat \ {0}, NEW q \in Int, NEW r \in 0..(n - 1), a = (n * q) + r
  PROVE  a % n = r
  OBVIOUS

\* A sum may be reduced before or after something is added to it.
LEMMA RemainderOfSum ==
  ASSUME NEW a \in Nat, NEW n \in Nat \ {0}, NEW b \in Nat
  PROVE  ((a % n) + b) % n = (a + b) % n
<1>. DEFINE q == a \div n
            r == a % n
<1>1. q \in Nat /\ r \in Nat /\ a = (n * q) + r
  BY Remainder
<1>. HIDE DEF q, r
<1>. DEFINE x == (r + b) \div n
            y == (r + b) % n
<1>2. r + b \in Nat
  BY <1>1
<1>3. x \in Nat /\ y \in 0..(n - 1) /\ r + b = n * x + y
  BY <1>2, Remainder, Zenon
<1>. HIDE DEF x, y
<1>4. n * (q + x) = n * q + n * x
  BY <1>1, <1>3
<1>5. n * q \in Nat /\ n * x \in Nat
  BY <1>1, <1>3
<1>6. a + b = n * (q + x) + y /\ q + x \in Int /\ a + b \in Nat
  BY <1>1, <1>3, <1>4, <1>5
<1>7. (a + b) % n = y
  BY <1>3, <1>6, RemainderUnique, Zenon
<1>. QED
  BY <1>7, Zenon DEF y, r

\* The two sums with one more word, whether they were reduced before or not.
LEMMA AddWordReduces ==
  ASSUME NEW a \in Nat, NEW b \in Nat, NEW x \in Nat
  PROVE  AddWord(<<a % Modulus, b % Modulus>>, x) = <<(a + x) % Modulus, (b + (a + x)) % Modulus>>
<1>. DEFINE lo == (a + x) % Modulus
<1>1. Modulus \in Nat \ {0} /\ a + x \in Nat
  BY ChecksumAssumption
<1>2. ((a % Modulus) + x) % Modulus = lo
  BY <1>1, RemainderOfSum, Zenon
<1>3. lo \in Nat
  BY <1>1, Remainder
<1>. HIDE DEF lo
<1>4. ((b % Modulus) + lo) % Modulus = (b + lo) % Modulus
  BY <1>1, <1>3, RemainderOfSum, Zenon
<1>5. b + lo = lo + b /\ (a + x) + b = b + (a + x)
  BY <1>1, <1>3
<1>6. (lo + b) % Modulus = ((a + x) + b) % Modulus
  BY <1>1, RemainderOfSum, Zenon DEF lo
<1>7. AddWord(<<a % Modulus, b % Modulus>>, x) = <<lo, ((b % Modulus) + lo) % Modulus>>
  BY <1>2 DEF AddWord
<1>. QED
  BY <1>4, <1>5, <1>6, <1>7, Zenon DEF lo

\* The sums are words.
LEMMA AddWordIsWords ==
  ASSUME NEW sum \in Word \X Word, NEW x \in Nat
  PROVE  AddWord(sum, x) \in Word \X Word
<1>. DEFINE lo == (sum[1] + x) % Modulus
<1>1. Modulus \in Nat \ {0} /\ sum[1] \in Nat /\ sum[2] \in Nat
  BY ChecksumAssumption DEF Word
<1>2. sum[1] + x \in Nat
  BY <1>1
<1>3. lo \in Word /\ lo \in Nat
  <2>1. lo \in 0..(Modulus - 1)
    BY <1>1, <1>2, Remainder, Zenon
  <2>. HIDE DEF lo
  <2>2. lo \in Nat
    BY <1>1, <2>1
  <2>. QED
    BY <2>1, <2>2, Zenon DEF Word
<1>. HIDE DEF lo
<1>4. sum[2] + lo \in Nat
  BY <1>1, <1>3
<1>5. (sum[2] + lo) % Modulus \in Word
  BY <1>1, <1>4, Remainder, Zenon DEF Word
<1>6. AddWord(sum, x) = <<lo, (sum[2] + lo) % Modulus>>
  BY Zenon DEF AddWord, lo
<1>. QED
  BY <1>3, <1>5, <1>6

\* The loop of util_checksum_seq, step by step.
LEMMA AfterWordsSteps ==
  ASSUME NEW m \in Seq(Nat), NEW csum \in Word \X Word
  PROVE  /\ AfterWords(m, csum)[0] = csum
         /\ \A n \in 0..Len(m) : AfterWords(m, csum)[n] \in Word \X Word
         /\ \A n \in 1..Len(m) : AfterWords(m, csum)[n] = AddWord(AfterWords(m, csum)[n - 1], m[n])
<1>. DEFINE N == Len(m)
            V == Word \X Word
            F == [n \in 1..N |-> [v \in V |-> AddWord(v, m[n])]]
            Is(t) == t = [n \in 0..N |-> IF n = 0 THEN csum ELSE AddWord(t[n - 1], m[n])]
            T == AfterWords(m, csum)
<1>0. N \in Nat /\ \A i \in 1..N : m[i] \in Nat
  OBVIOUS
<1>. HIDE DEF N
<1>1. F \in [1..N -> [V -> V]]
  BY <1>0, AddWordIsWords, Zenon
<1>2. PICK t : t \in [0..N -> V] /\ t[0] = csum /\ \A n \in 1..N : t[n] = F[n][t[n - 1]]
  <2>. HIDE DEF F, V
  <2>1. \E t : Iterates(V, csum, N, F, t)
    BY <1>0, <1>1, Recursion, Zenon DEF V
  <2>. QED
    BY <2>1, Zenon DEF Iterates
<1>3. \A n \in 1..N : n \in 0..N /\ n # 0 /\ n - 1 \in 0..N
  BY <1>0
<1>4. \A n \in 1..N : t[n] = AddWord(t[n - 1], m[n])
  BY <1>2, <1>3, Zenon
<1>5. \A n \in 0..N : n = 0 \/ n \in 1..N
  BY <1>0
<1>6. Is(t)
  BY <1>2, <1>4, <1>5, Zenon
<1>7. T = CHOOSE u : Is(u)
  BY Zenon DEF AfterWords, N
<1>8. Is(T)
  BY <1>6, <1>7, Zenon
<1>. HIDE DEF T
<1>9. 0 \in 0..N
  BY <1>0
<1>10. T[0] = csum /\ \A n \in 1..N : T[n] = AddWord(T[n - 1], m[n])
  BY <1>3, <1>8, <1>9, Zenon
<1>11. \A n \in 1..N : T[n - 1] \in V => T[n] \in V
  BY <1>0, <1>10, AddWordIsWords, Zenon
<1>12. \A n \in 0..N : T[n] \in V
  <2>. HIDE DEF V
  <2>1. T[0] \in V
    BY <1>10, Zenon DEF V
  <2>. QED
    BY <1>0, <1>11, <2>1, StaysIn, Zenon
<1>. QED
  BY <1>10, <1>12, Zenon DEF T, N

\* The loop of util_checksum_compute, turn by turn.
LEMMA AfterTurnsSteps ==
  ASSUME NEW m \in Seq(Nat), NEW c \in Nat, NEW s \in Nat
  PROVE  /\ AfterTurns(m, c, s)[0] = <<0, <<0, 0>>>>
         /\ \A n \in 0..Len(m) : AfterTurns(m, c, s)[n] \in Nat \X (Word \X Word)
         /\ \A n \in 1..Len(m) :
              AfterTurns(m, c, s)[n] =
                Turn(m, c, s, AfterTurns(m, c, s)[n - 1][1], AfterTurns(m, c, s)[n - 1][2])
<1>. DEFINE N == Len(m)
            V == Nat \X (Word \X Word)
            start == <<0, <<0, 0>>>>
            F == [n \in 1..N |-> [v \in V |-> Turn(m, c, s, v[1], v[2])]]
            Is(t) == t = [n \in 0..N |-> IF n = 0 THEN start
                                         ELSE Turn(m, c, s, t[n - 1][1], t[n - 1][2])]
            T == AfterTurns(m, c, s)
<1>0. N \in Nat /\ \A i \in 1..N : m[i] \in Nat
  OBVIOUS
<1>1. ASSUME NEW v \in V PROVE Turn(m, c, s, v[1], v[2]) \in V
  <2>1. v[1] \in Nat /\ v[2] \in Word \X Word /\ 0 \in Nat
    OBVIOUS
  <2>2. v[1] + 1 \in Nat /\ v[1] + 2 \in Nat
    BY <2>1
  <2>3. AddWord(AddWord(v[2], 0), 0) \in Word \X Word
    BY <2>1, AddWordIsWords, Zenon
  <2>4. CASE v[1] >= Len(m)
    <3>1. Turn(m, c, s, v[1], v[2]) = <<v[1], v[2]>>
      BY <2>4, Zenon DEF Turn
    <3>. QED
      BY <2>1, <3>1
  <2>5. CASE ~(v[1] >= Len(m)) /\ (v[1] = c \/ v[1] >= s)
    <3>1. Turn(m, c, s, v[1], v[2]) = <<v[1] + 2, AddWord(AddWord(v[2], 0), 0)>>
      BY <2>5, Zenon DEF Turn
    <3>. QED
      BY <2>2, <2>3, <3>1
  <2>6. CASE ~(v[1] >= Len(m)) /\ ~(v[1] = c \/ v[1] >= s)
    <3>1. Turn(m, c, s, v[1], v[2]) = <<v[1] + 1, AddWord(v[2], m[v[1] + 1])>>
      BY <2>6, Zenon DEF Turn
    <3>2. v[1] + 1 \in 1..N
      BY <1>0, <2>1, <2>6
    <3>3. AddWord(v[2], m[v[1] + 1]) \in Word \X Word
      BY <1>0, <2>1, <3>2, AddWordIsWords, Zenon
    <3>. QED
      BY <2>2, <3>1, <3>3
  <2>. QED
    BY <2>4, <2>5, <2>6, Zenon
<1>2. start \in V
  <2>1. 0 \in Word
    BY ChecksumAssumption DEF Word
  <2>. QED
    BY <2>1
<1>. HIDE DEF N, V, start
<1>3. F \in [1..N -> [V -> V]]
  BY <1>1, Zenon
<1>4. PICK t : t \in [0..N -> V] /\ t[0] = start /\ \A n \in 1..N : t[n] = F[n][t[n - 1]]
  <2>. HIDE DEF F
  <2>1. \E t : Iterates(V, start, N, F, t)
    BY <1>0, <1>2, <1>3, Recursion, Zenon
  <2>. QED
    BY <2>1, Zenon DEF Iterates
<1>5. \A n \in 1..N : n \in 0..N /\ n # 0 /\ n - 1 \in 0..N
  BY <1>0
<1>6. \A n \in 1..N : t[n] = Turn(m, c, s, t[n - 1][1], t[n - 1][2])
  BY <1>4, <1>5, Zenon
<1>7. \A n \in 0..N : n = 0 \/ n \in 1..N
  BY <1>0
<1>8. Is(t)
  BY <1>4, <1>6, <1>7, Zenon
<1>9. T = CHOOSE u : Is(u)
  BY Zenon DEF AfterTurns, N, start
<1>10. Is(T)
  BY <1>8, <1>9, Zenon
<1>. HIDE DEF T
<1>11. 0 \in 0..N
  BY <1>0
<1>12. T[0] = start /\ \A n \in 1..N : T[n] = Turn(m, c, s, T[n - 1][1], T[n - 1][2])
  BY <1>5, <1>10, <1>11, Zenon
<1>13. \A n \in 1..N : T[n - 1] \in V => T[n] \in V
  BY <1>1, <1>12, Zenon
<1>14. \A n \in 0..N : T[n] \in V
  BY <1>0, <1>2, <1>12, <1>13, StaysIn, Zenon
<1>. QED
  BY <1>12, <1>14, Zenon DEF T, N, V, start

\* The words that count: not those of the checksum, and none from skip on.
Counts(c, s, i) == i # c /\ i # c + 1 /\ i < s

\* Where the loop can be after n turns: it does not stop in the middle of the
\* checksum, nor at an odd distance behind skip, and goes on in every turn.
Offset(N, c, s, n, p) ==
  /\ p \in Nat /\ p <= N + 1
  /\ p >= n \/ p >= N
  /\ p # c + 1 \/ p >= s
  /\ p <= s \/ (p - s) % 2 = 0

\* What a turn from such a place makes of the place and of the sums.
TurnsTo(m, c, s, n, p, sum, t) ==
  /\ Offset(Len(m), c, s, n + 1, t[1])
  /\ \/ p >= Len(m) /\ t = <<p, sum>>
     \/ /\ p < Len(m) /\ ~Counts(c, s, p) /\ ~Counts(c, s, p + 1)
        /\ t = <<p + 2, AddWord(AddWord(sum, 0), 0)>>
     \/ p < Len(m) /\ Counts(c, s, p) /\ t = <<p + 1, AddWord(sum, m[p + 1])>>

\* A turn takes two words that do not count, or one that does.
LEMMA TurnFrom ==
  ASSUME NEW m \in Seq(Nat), NEW c \in Nat, NEW s \in Nat, c + 1 < s \/ c >= s,
         NEW n \in Nat, NEW p, Offset(Len(m), c, s, n, p), NEW sum
  PROVE  TurnsTo(m, c, s, n, p, sum, Turn(m, c, s, p, sum))
<1>. DEFINE N == Len(m)
            t == Turn(m, c, s, p, sum)
<1>0. /\ N \in Nat /\ p \in Nat /\ p <= N + 1 /\ (p >= n \/ p >= N)
      /\ p # c + 1 \/ p >= s
      /\ p <= s \/ (p - s) % 2 = 0
  <2>1. N \in Nat
    OBVIOUS
  <2>. QED
    BY <2>1, Zenon DEF Offset
<1>. HIDE DEF N
<1>1. CASE p >= N
  <2>1. t = <<p, sum>> /\ t[1] = p
    BY <1>1, Zenon DEF Turn, N
  <2>2. Offset(N, c, s, n + 1, p)
    BY <1>0, <1>1 DEF Offset
  <2>. QED
    BY <1>1, <2>1, <2>2, Zenon DEF N, TurnsTo
<1>2. CASE p < N /\ (p = c \/ p >= s)
  <2>1. ~(p >= N)
    BY <1>0, <1>2
  <2>2. t = <<p + 2, AddWord(AddWord(sum, 0), 0)>> /\ t[1] = p + 2
    BY <1>2, <2>1 DEF Turn, N
  <2>3. ~Counts(c, s, p) /\ ~Counts(c, s, p + 1)
    BY <1>0, <1>2 DEF Counts
  <2>4. Offset(N, c, s, n + 1, p + 2)
    <3>1. p + 2 \in Nat /\ p + 2 <= N + 1 /\ (p + 2 >= n + 1 \/ p + 2 >= N)
      BY <1>0, <1>2
    <3>2. p + 2 # c + 1 \/ p + 2 >= s
      BY <1>0, <1>2
    <3>3. p + 2 <= s \/ ((p + 2) - s) % 2 = 0
      BY <1>0, <1>2
    <3>. QED
      BY <3>1, <3>2, <3>3, Zenon DEF Offset
  <2>. QED
    BY <1>2, <2>2, <2>3, <2>4, Zenon DEF N, TurnsTo
<1>3. CASE p < N /\ ~(p = c \/ p >= s)
  <2>1. ~(p >= N)
    BY <1>0, <1>3
  <2>2. t = <<p + 1, AddWord(sum, m[p + 1])>> /\ t[1] = p + 1
    BY <1>3, <2>1 DEF Turn, N
  <2>3. Counts(c, s, p)
    BY <1>0, <1>3 DEF Counts
  <2>4. Offset(N, c, s, n + 1, p + 1)
    BY <1>0, <1>3 DEF Offset
  <2>. QED
    BY <1>3, <2>2, <2>3, <2>4, Zenon DEF N, TurnsTo
<1>4. p >= N \/ p < N
  BY <1>0
<1>. QED
  BY <1>1, <1>2, <1>3, <1>4, Zenon

\* The loop starts at such a place.
LEMMA OffsetFirst ==
  ASSUME NEW N \in Nat, NEW c \in Nat, NEW s \in Nat
  PROVE  Offset(N, c, s, 0, 0)
  BY DEF Offset

\* The loop does not look at words that do not count.
LEMMA UncountedUnread ==
  ASSUME NEW m \in Seq(Nat), NEW m2 \in Seq(Nat), Len(m2) = Len(m),
         NEW c \in Nat, NEW s \in Nat, c + 1 < s \/ c >= s,
         \A i \in 1..Len(m) : Counts(c, s, i - 1) => m2[i] = m[i]
  PROVE  AfterTurns(m2, c, s)[Len(m)] = AfterTurns(m, c, s)[Len(m)]
<1>. DEFINE N == Len(m)
            T == AfterTurns(m, c, s)
            U == AfterTurns(m2, c, s)
            S == {n \in Nat : n \in 0..N => U[n] = T[n] /\ Offset(N, c, s, n, T[n][1])}
<1>0. N \in Nat
  OBVIOUS
<1>1. /\ T[0] = <<0, <<0, 0>>>> /\ U[0] = <<0, <<0, 0>>>>
      /\ \A n \in 1..N : T[n] = Turn(m, c, s, T[n - 1][1], T[n - 1][2])
      /\ \A n \in 1..N : U[n] = Turn(m2, c, s, U[n - 1][1], U[n - 1][2])
  <2>1. /\ T[0] = <<0, <<0, 0>>>>
        /\ \A n \in 1..N : T[n] = Turn(m, c, s, T[n - 1][1], T[n - 1][2])
    BY AfterTurnsSteps, Zenon
  <2>2. /\ U[0] = <<0, <<0, 0>>>>
        /\ \A n \in 1..Len(m2) : U[n] = Turn(m2, c, s, U[n - 1][1], U[n - 1][2])
    BY AfterTurnsSteps, Zenon
  <2>. QED
    BY <2>1, <2>2, Zenon
<1>. HIDE DEF T, U
<1>2. 0 \in S
  <2>1. T[0][1] = 0
    BY <1>1
  <2>2. Offset(N, c, s, 0, T[0][1])
    BY <1>0, <2>1, OffsetFirst, Zenon
  <2>. QED
    BY <1>1, <2>2, Zenon
<1>3. ASSUME NEW n \in Nat, n \in S PROVE n + 1 \in S
  <2>1. n + 1 \in Nat /\ (n + 1 \in 0..N => n + 1 \in 1..N /\ n \in 0..N) /\ (n + 1) - 1 = n
    BY <1>0
  <2>. SUFFICES ASSUME n + 1 \in 0..N
                PROVE  U[n + 1] = T[n + 1] /\ Offset(N, c, s, n + 1, T[n + 1][1])
    BY <2>1, Zenon
  <2>. DEFINE p == T[n][1]
              sum == T[n][2]
              t == Turn(m, c, s, p, sum)
              u == Turn(m2, c, s, p, sum)
  <2>2. U[n] = T[n] /\ Offset(N, c, s, n, p)
    BY <1>3, <2>1, Zenon
  <2>3. T[n + 1] = t /\ U[n + 1] = u
    BY <1>1, <2>1, <2>2, Zenon
  <2>. HIDE DEF p, sum
  <2>4. TurnsTo(m, c, s, n, p, sum, t) /\ TurnsTo(m2, c, s, n, p, sum, u)
    BY <2>2, TurnFrom, Zenon
  <2>. HIDE DEF t, u
  <2>5. /\ Offset(N, c, s, n + 1, t[1])
        /\ \/ p >= N /\ t = <<p, sum>>
           \/ /\ p < N /\ ~Counts(c, s, p)
              /\ t = <<p + 2, AddWord(AddWord(sum, 0), 0)>>
           \/ p < N /\ Counts(c, s, p) /\ t = <<p + 1, AddWord(sum, m[p + 1])>>
        /\ \/ p >= N /\ u = <<p, sum>>
           \/ /\ p < N /\ ~Counts(c, s, p)
              /\ u = <<p + 2, AddWord(AddWord(sum, 0), 0)>>
           \/ p < N /\ Counts(c, s, p) /\ u = <<p + 1, AddWord(sum, m2[p + 1])>>
    BY <2>4, Zenon DEF TurnsTo
  <2>6. p \in Nat /\ ~(p >= N /\ p < N) /\ (p < N => p + 1 \in 1..N) /\ (p + 1) - 1 = p
    BY <1>0, <2>2 DEF Offset
  <2>7. p < N /\ Counts(c, s, p) => m2[p + 1] = m[p + 1]
    BY <2>6, Zenon
  <2>8. CASE p >= N
    BY <2>3, <2>5, <2>6, <2>8, Zenon
  <2>9. CASE p < N /\ Counts(c, s, p)
    BY <2>3, <2>5, <2>6, <2>7, <2>9, Zenon
  <2>10. CASE p < N /\ ~Counts(c, s, p)
    BY <2>3, <2>5, <2>6, <2>10, Zenon
  <2>. QED
    BY <2>5, <2>8, <2>9, <2>10, Zenon
<1>. HIDE DEF S
<1>4. N \in S
  BY <1>0, <1>2, <1>3, Induction, Zenon
<1>5. N \in 0..N
  BY <1>0
<1>. QED
  BY <1>4, <1>5, Zenon DEF S, T, U

\* The totals of the totals.
Running(f) == Totals([i \in 1..Len(f) |-> Totals(f)[i]])

\* They add up the totals one by one.
LEMMA RunningAddsUp ==
  ASSUME NEW f \in Seq(Nat)
  PROVE  /\ Running(f) \in [0..Len(f) -> Nat] /\ Running(f)[0] = 0
         /\ \A k \in 1..Len(f) : Running(f)[k] = Running(f)[k - 1] + Totals(f)[k]
<1>. DEFINE N == Len(f)
            g == [i \in 1..N |-> Totals(f)[i]]
<1>0. N \in Nat
  OBVIOUS
<1>1. Totals(f) \in [0..N -> Nat]
  BY TotalsAddUp, Zenon
<1>. HIDE DEF N
<1>2. \A i \in 1..N : Totals(f)[i] \in Nat
  <2>1. \A i \in 1..N : i \in 0..N
    BY <1>0
  <2>. QED
    BY <1>1, <2>1, Zenon
<1>3. g \in Seq(Nat) /\ Len(g) = N
  BY <1>0, <1>2
<1>4. \A i \in 1..N : g[i] = Totals(f)[i]
  BY Zenon
<1>. HIDE DEF g
<1>5. Running(f) = Totals(g)
  BY Zenon DEF Running, g, N
<1>6. /\ Totals(g) \in [0..N -> Nat] /\ Totals(g)[0] = 0
      /\ \A k \in 1..N : Totals(g)[k] = Totals(g)[k - 1] + g[k]
  <2>1. /\ Totals(g) \in [0..Len(g) -> Nat] /\ Totals(g)[0] = 0
        /\ \A k \in 1..Len(g) : Totals(g)[k] = Totals(g)[k - 1] + g[k]
    BY <1>3, TotalsAddUp, Zenon
  <2>. QED
    BY <1>3, <2>1, Zenon
<1>. QED
  BY <1>4, <1>5, <1>6, Zenon DEF N

\* The sums at offset p: of the words before it, and one word of zero beyond the
\* end when the loop has gone over it.
SumsAt(f, p, sum) ==
  LET N == Len(f) IN
  IF p <= N THEN sum = <<Totals(f)[p] % Modulus, Running(f)[p] % Modulus>>
  ELSE sum = <<Totals(f)[N] % Modulus, (Running(f)[N] + Totals(f)[N]) % Modulus>>

\* Two words that are zeros.
LEMMA AddZeros ==
  ASSUME NEW a \in Nat, NEW b \in Nat
  PROVE  /\ AddWord(AddWord(<<a % Modulus, b % Modulus>>, 0), 0) =
              <<a % Modulus, ((b + a) + a) % Modulus>>
<1>1. a + 0 = a /\ 0 \in Nat /\ b + a \in Nat
  OBVIOUS
<1>2. AddWord(<<a % Modulus, b % Modulus>>, 0) = <<a % Modulus, (b + a) % Modulus>>
  <2>1. AddWord(<<a % Modulus, b % Modulus>>, 0) = <<(a + 0) % Modulus, (b + (a + 0)) % Modulus>>
    BY <1>1, AddWordReduces, Zenon
  <2>. QED
    BY <1>1, <2>1, Zenon
<1>. DEFINE d == b + a
<1>3. AddWord(<<a % Modulus, d % Modulus>>, 0) = <<a % Modulus, (d + a) % Modulus>>
  <2>. HIDE DEF d
  <2>1. d \in Nat
    BY <1>1, Zenon DEF d
  <2>2. AddWord(<<a % Modulus, d % Modulus>>, 0) = <<(a + 0) % Modulus, (d + (a + 0)) % Modulus>>
    BY <1>1, <2>1, AddWordReduces, Zenon
  <2>. QED
    BY <1>1, <2>2, Zenon
<1>. QED
  BY <1>2, <1>3, Zenon

\* One turn keeps the sums those of the words before the offset.
LEMMA TurnSums ==
  ASSUME NEW m \in Seq(Nat), NEW c \in Nat, NEW s \in Nat,
         NEW f \in Seq(Nat), Len(f) = Len(m),
         \A i \in 1..Len(m) : f[i] = IF Counts(c, s, i - 1) THEN m[i] ELSE 0,
         NEW n \in Nat, NEW p \in Nat, NEW sum, NEW t,
         SumsAt(f, p, sum), TurnsTo(m, c, s, n, p, sum, t)
  PROVE  SumsAt(f, t[1], t[2])
<1>. DEFINE N == Len(m)
            P == Totals(f)
            G == Running(f)
<1>0. N \in Nat /\ \A i \in 1..N : m[i] \in Nat
  OBVIOUS
<1>1. /\ P \in [0..N -> Nat] /\ G \in [0..N -> Nat]
      /\ \A k \in 1..N : P[k] = P[k - 1] + f[k] /\ G[k] = G[k - 1] + P[k]
  <2>1. P \in [0..Len(f) -> Nat] /\ \A k \in 1..Len(f) : P[k] = P[k - 1] + f[k]
    BY TotalsAddUp, Zenon
  <2>2. G \in [0..Len(f) -> Nat] /\ \A k \in 1..Len(f) : G[k] = G[k - 1] + P[k]
    BY RunningAddsUp, Zenon
  <2>. QED
    BY <2>1, <2>2, Zenon
<1>2. \A q, x : SumsAt(f, q, x) <=>
        IF q <= N THEN x = <<P[q] % Modulus, G[q] % Modulus>>
        ELSE x = <<P[N] % Modulus, (G[N] + P[N]) % Modulus>>
  BY Zenon DEF SumsAt
<1>. HIDE DEF N, P, G
<1>7. ASSUME NEW q, NEW x, q <= N, x = <<P[q] % Modulus, G[q] % Modulus>>
      PROVE  SumsAt(f, q, x)
  BY <1>2, <1>7, Zenon
<1>8. ASSUME NEW q, NEW x, ~(q <= N), x = <<P[N] % Modulus, (G[N] + P[N]) % Modulus>>
      PROVE  SumsAt(f, q, x)
  BY <1>2, <1>8, Zenon
<1>3. CASE p >= N /\ t = <<p, sum>>
  <2>1. t[1] = p /\ t[2] = sum
    BY <1>3
  <2>. QED
    BY <2>1, Zenon
<1>4. ASSUME p < N
      PROVE  /\ p \in 0..N /\ p + 1 \in 0..N /\ p + 1 \in 1..N /\ (p + 1) - 1 = p /\ p <= N
             /\ P[p] \in Nat /\ G[p] \in Nat /\ sum = <<P[p] % Modulus, G[p] % Modulus>>
             /\ P[p + 1] = P[p] + f[p + 1] /\ G[p + 1] = G[p] + P[p + 1]
             /\ f[p + 1] = IF Counts(c, s, p) THEN m[p + 1] ELSE 0
  <2>1. p \in 0..N /\ p + 1 \in 0..N /\ p + 1 \in 1..N /\ (p + 1) - 1 = p /\ p <= N
    BY <1>0, <1>4
  <2>2. f[p + 1] = IF Counts(c, s, (p + 1) - 1) THEN m[p + 1] ELSE 0
    BY <2>1, Zenon DEF N
  <2>. QED
    BY <1>1, <1>2, <2>1, <2>2, Zenon
<1>5. CASE p < N /\ Counts(c, s, p) /\ t = <<p + 1, AddWord(sum, m[p + 1])>>
  <2>1. m[p + 1] \in Nat /\ f[p + 1] = m[p + 1] /\ p + 1 <= N
    <3>1. p + 1 <= N
      BY <1>0, <1>5
    <3>. QED
      BY <1>0, <1>4, <1>5, <3>1, Zenon
  <2>2. AddWord(sum, m[p + 1]) = <<(P[p] + m[p + 1]) % Modulus, (G[p] + (P[p] + m[p + 1])) % Modulus>>
    <3>1. P[p] \in Nat /\ G[p] \in Nat /\ sum = <<P[p] % Modulus, G[p] % Modulus>>
      BY <1>4, <1>5, Zenon
    <3>2. AddWord(<<P[p] % Modulus, G[p] % Modulus>>, m[p + 1]) =
            <<(P[p] + m[p + 1]) % Modulus, (G[p] + (P[p] + m[p + 1])) % Modulus>>
      BY <2>1, <3>1, AddWordReduces, Zenon
    <3>. QED
      BY <3>1, <3>2, Zenon
  <2>3. AddWord(sum, m[p + 1]) = <<P[p + 1] % Modulus, G[p + 1] % Modulus>>
    BY <1>4, <1>5, <2>1, <2>2, Zenon
  <2>4. t[1] = p + 1 /\ t[2] = AddWord(sum, m[p + 1])
    BY <1>5
  <2>. QED
    BY <1>2, <2>1, <2>3, <2>4, Zenon
<1>6. CASE /\ p < N /\ ~Counts(c, s, p) /\ ~Counts(c, s, p + 1)
           /\ t = <<p + 2, AddWord(AddWord(sum, 0), 0)>>
  <2>1. P[p + 1] = P[p] /\ G[p + 1] = G[p] + P[p]
    <3>1. f[p + 1] = 0 /\ P[p] \in Nat /\ P[p + 1] = P[p] + f[p + 1]
      BY <1>4, <1>6, Zenon
    <3>2. P[p + 1] = P[p]
      BY <3>1
    <3>. QED
      BY <1>4, <1>6, <3>2, Zenon
  <2>2. t[1] = p + 2 /\ t[2] = AddWord(AddWord(sum, 0), 0)
    BY <1>6
  <2>3. t[2] = <<P[p] % Modulus, ((G[p] + P[p]) + P[p]) % Modulus>>
    BY <1>4, <1>6, <2>2, AddZeros, Zenon
  <2>4. CASE p + 1 = N
    <3>1. ~(p + 2 <= N)
      BY <1>0, <2>4
    <3>2. P[N] = P[p] /\ G[N] = G[p] + P[p]
      BY <2>1, <2>4, Zenon
    <3>3. t[2] = <<P[N] % Modulus, (G[N] + P[N]) % Modulus>>
      BY <2>3, <3>2, Zenon
    <3>4. SumsAt(f, p + 2, t[2])
      BY <1>8, <3>1, <3>3, Zenon
    <3>. QED
      BY <2>2, <3>4, Zenon
  <2>5. CASE p + 1 # N
    <3>1. /\ p + 2 \in 1..N /\ (p + 2) - 1 = p + 1 /\ p + 2 <= N
      BY <1>0, <1>6, <2>5
    <3>2. /\ f[p + 2] = 0 /\ P[p + 2] = P[p + 1] + f[p + 2] /\ G[p + 2] = G[p + 1] + P[p + 2]
      <4>1. f[p + 2] = IF Counts(c, s, (p + 2) - 1) THEN m[p + 2] ELSE 0
        BY <3>1, Zenon DEF N
      <4>. QED
        BY <1>1, <1>6, <3>1, <4>1, Zenon
    <3>3. P[p] \in Nat
      BY <1>4, <1>6, Zenon
    <3>4. P[p + 2] = P[p]
      BY <2>1, <3>2, <3>3
    <3>5. G[p + 2] = (G[p] + P[p]) + P[p]
      BY <2>1, <3>2, <3>4, Zenon
    <3>6. t[2] = <<P[p + 2] % Modulus, G[p + 2] % Modulus>>
      BY <2>3, <3>4, <3>5, Zenon
    <3>7. SumsAt(f, p + 2, t[2])
      BY <1>7, <3>1, <3>6, Zenon
    <3>. QED
      BY <2>2, <3>7, Zenon
  <2>. QED
    BY <2>4, <2>5, Zenon
<1>. QED
  BY <1>3, <1>5, <1>6, Zenon DEF TurnsTo, N

\* util_checksum_compute adds up the words that count, and their running sums;
\* it adds the sum once more when it has gone beyond the end.
LEMMA ComputeSums ==
  ASSUME NEW m \in Seq(Nat), NEW c \in Nat, NEW s \in Nat, c + 1 < s \/ c >= s,
         NEW f \in Seq(Nat), Len(f) = Len(m),
         \A i \in 1..Len(m) : f[i] = IF Counts(c, s, i - 1) THEN m[i] ELSE 0
  PROVE  LET v == AfterTurns(m, c, s)[Len(m)] IN
         /\ v[1] = Len(m) \/ v[1] = Len(m) + 1
         /\ v[1] <= s \/ (v[1] - s) % 2 = 0
         /\ SumsAt(f, v[1], v[2])
<1>. DEFINE N == Len(m)
            T == AfterTurns(m, c, s)
            S == {n \in Nat : n \in 0..N => /\ Offset(N, c, s, n, T[n][1])
                                            /\ SumsAt(f, T[n][1], T[n][2])}
<1>0. N \in Nat
  OBVIOUS
<1>1. /\ T[0] = <<0, <<0, 0>>>>
      /\ \A n \in 1..N : T[n] = Turn(m, c, s, T[n - 1][1], T[n - 1][2])
  BY AfterTurnsSteps, Zenon
<1>. HIDE DEF T
<1>2. 0 \in S
  <2>1. T[0][1] = 0 /\ T[0][2] = <<0, 0>>
    BY <1>1
  <2>2. Offset(N, c, s, 0, T[0][1])
    BY <1>0, <2>1, OffsetFirst, Zenon
  <2>3. Totals(f)[0] = 0 /\ Running(f)[0] = 0
    BY TotalsAddUp, RunningAddsUp, Zenon
  <2>4. 0 % Modulus = 0 /\ 0 <= N
    BY <1>0, ChecksumAssumption
  <2>5. SumsAt(f, T[0][1], T[0][2])
    BY <2>1, <2>3, <2>4, Zenon DEF SumsAt
  <2>. QED
    BY <2>2, <2>5, Zenon
<1>3. ASSUME NEW n \in Nat, n \in S PROVE n + 1 \in S
  <2>1. n + 1 \in Nat /\ (n + 1 \in 0..N => n + 1 \in 1..N /\ n \in 0..N) /\ (n + 1) - 1 = n
    BY <1>0
  <2>. SUFFICES ASSUME n + 1 \in 0..N
                PROVE  /\ Offset(N, c, s, n + 1, T[n + 1][1])
                       /\ SumsAt(f, T[n + 1][1], T[n + 1][2])
    BY <2>1, Zenon
  <2>. DEFINE p == T[n][1]
              sum == T[n][2]
              t == Turn(m, c, s, p, sum)
  <2>2. Offset(N, c, s, n, p) /\ SumsAt(f, p, sum)
    BY <1>3, <2>1, Zenon
  <2>3. T[n + 1] = t
    BY <1>1, <2>1, Zenon
  <2>. HIDE DEF p, sum
  <2>4. TurnsTo(m, c, s, n, p, sum, t)
    BY <2>2, TurnFrom, Zenon
  <2>. HIDE DEF t
  <2>5. p \in Nat
    BY <2>2, Zenon DEF Offset
  <2>6. SumsAt(f, t[1], t[2])
    BY <2>2, <2>4, <2>5, TurnSums, Zenon
  <2>7. Offset(N, c, s, n + 1, t[1])
    BY <2>4, Zenon DEF TurnsTo
  <2>. QED
    BY <2>3, <2>6, <2>7, Zenon
<1>. HIDE DEF S
<1>4. N \in S
  BY <1>0, <1>2, <1>3, Induction, Zenon
<1>5. N \in 0..N
  BY <1>0
<1>6. Offset(N, c, s, N, T[N][1]) /\ SumsAt(f, T[N][1], T[N][2])
  BY <1>4, <1>5, Zenon DEF S
<1>. DEFINE p == T[N][1]
<1>. HIDE DEF p, N
<1>7. /\ p \in Nat /\ p <= N + 1 /\ p >= N
      /\ p <= s \/ (p - s) % 2 = 0
  BY <1>0, <1>6, Zenon DEF Offset, p
<1>8. p = N \/ p = N + 1
  BY <1>0, <1>7
<1>9. SumsAt(f, p, T[N][2])
  BY <1>6, Zenon DEF p
<1>. QED
  BY <1>7, <1>8, <1>9, Zenon DEF N, T, p

\* The sum weighted by the distance to the end is the total of the totals.
LEMMA WeightedIsRunning ==
  ASSUME NEW f \in Seq(Nat)
  PROVE  Totals(Weighted(f))[Len(f)] = Running(f)[Len(f)]
<1>. DEFINE N == Len(f)
            P == Totals(f)
            G == Running(f)
            W == Totals(Weighted(f))
            S == {k \in Nat : k \in 0..N => W[k] = G[k] + (N - k) * P[k]}
<1>0. N \in Nat /\ \A i \in 1..N : f[i] \in Nat
  OBVIOUS
<1>1. /\ P \in [0..N -> Nat] /\ P[0] = 0
      /\ \A k \in 1..N : P[k] = P[k - 1] + f[k]
  BY TotalsAddUp, Zenon
<1>2. /\ G \in [0..N -> Nat] /\ G[0] = 0
      /\ \A k \in 1..N : G[k] = G[k - 1] + P[k]
  BY RunningAddsUp, Zenon
<1>3. W[0] = 0 /\ \A k \in 1..N : W[k] = W[k - 1] + (N - k + 1) * f[k]
  <2>. DEFINE w == Weighted(f)
  <2>1. w = [i \in 1..N |-> (N - i + 1) * f[i]]
    BY Zenon DEF Weighted
  <2>. HIDE DEF w, N
  <2>2. \A i \in 1..N : (N - i + 1) * f[i] \in Nat
    <3>. SUFFICES ASSUME NEW i \in 1..N PROVE (N - i + 1) * f[i] \in Nat
      BY Zenon
    <3>1. N - i + 1 \in Nat /\ f[i] \in Nat
      BY <1>0
    <3>. QED
      BY <3>1
  <2>3. w \in Seq(Nat) /\ Len(w) = N
    <3>. DEFINE e(i) == (N - i + 1) * f[i]
    <3>1. w = [i \in 1..N |-> e(i)] /\ \A i \in 1..N : e(i) \in Nat
      BY <2>1, <2>2, Zenon
    <3>. HIDE DEF e
    <3>. QED
      BY <1>0, <3>1
  <2>4. Totals(w)[0] = 0 /\ \A k \in 1..Len(w) : Totals(w)[k] = Totals(w)[k - 1] + w[k]
    BY <2>3, TotalsAddUp, Zenon
  <2>. QED
    BY <2>1, <2>3, <2>4, Zenon DEF w
<1>. HIDE DEF N, P, G, W
<1>4. 0 \in S
  <2>1. 0 = 0 + (N - 0) * 0
    BY <1>0
  <2>. QED
    BY <1>1, <1>2, <1>3, <2>1, Zenon
<1>5. ASSUME NEW k \in Nat, k \in S PROVE k + 1 \in S
  <2>1. k + 1 \in Nat /\ (k + 1 \in 0..N => k + 1 \in 1..N /\ k \in 0..N) /\ (k + 1) - 1 = k
    BY <1>0
  <2>. SUFFICES ASSUME k + 1 \in 0..N
                PROVE  W[k + 1] = G[k + 1] + (N - (k + 1)) * P[k + 1]
    BY <2>1, Zenon
  <2>2. /\ W[k] = G[k] + (N - k) * P[k]
        /\ W[k + 1] = W[k] + (N - (k + 1) + 1) * f[k + 1]
        /\ G[k + 1] = G[k] + P[k + 1] /\ P[k + 1] = P[k] + f[k + 1]
        /\ P[k] \in Nat /\ G[k] \in Nat /\ f[k + 1] \in Nat
    BY <1>0, <1>1, <1>2, <1>3, <1>5, <2>1, Zenon
  <2>. DEFINE d == N - (k + 1)
  <2>3. d \in Nat /\ N - k = d + 1 /\ N - (k + 1) + 1 = d + 1
    BY <1>0
  <2>. HIDE DEF d
  <2>4. \A a, b, g \in Nat :
          (g + (d + 1) * a) + (d + 1) * b = (g + (a + b)) + d * (a + b)
    BY <2>3
  <2>5. W[k + 1] = (G[k] + (P[k] + f[k + 1])) + d * (P[k] + f[k + 1])
    <3>1. W[k + 1] = (G[k] + (d + 1) * P[k]) + (d + 1) * f[k + 1]
      BY <2>2, <2>3, Zenon
    <3>2. (G[k] + (d + 1) * P[k]) + (d + 1) * f[k + 1] =
            (G[k] + (P[k] + f[k + 1])) + d * (P[k] + f[k + 1])
      BY <2>2, <2>4, ZenonT(30)
    <3>. QED
      BY <3>1, <3>2, Zenon
  <2>. QED
    BY <2>2, <2>5, Zenon DEF d
<1>. HIDE DEF S
<1>6. N \in S /\ N \in 0..N
  <2>1. N \in 0..N
    BY <1>0
  <2>. QED
    BY <1>0, <1>4, <1>5, <2>1, Induction, Zenon
<1>7. W[N] = G[N] + (N - N) * P[N]
  BY <1>6, Zenon DEF S
<1>8. P[N] \in Nat /\ G[N] \in Nat
  BY <1>1, <1>2, <1>6, Zenon
<1>9. W[N] = G[N]
  BY <1>0, <1>7, <1>8
<1>. QED
  BY <1>9, Zenon DEF W, G, N

\* Even and odd numbers alternate.
LEMMA Parity ==
  ASSUME NEW d \in Nat, d % 2 = 0
  PROVE  (d - 1) % 2 # 0
  OBVIOUS

\* The first sum is always that of what counts; the second one too, with an even
\* number of words from skip on.
LEMMA ComputeIsSums ==
  ASSUME NEW m \in Seq(Nat), NEW c \in Nat, NEW s \in 0..Len(m), c + 1 < s \/ c >= s,
         NEW f \in Seq(Nat), Len(f) = Len(m),
         \A i \in 1..Len(m) : f[i] = IF Counts(c, s, i - 1) THEN m[i] ELSE 0
  PROVE  LET sum == AfterTurns(m, c, s)[Len(m)][2] IN
         /\ sum[1] = Totals(f)[Len(f)] % Modulus
         /\ (Len(m) - s) % 2 = 0 =>
              sum = <<Totals(f)[Len(f)] % Modulus, Running(f)[Len(f)] % Modulus>>
<1>. DEFINE N == Len(m)
            p == AfterTurns(m, c, s)[N][1]
            sum == AfterTurns(m, c, s)[N][2]
<1>0. N \in Nat /\ s \in Nat /\ s <= N
  OBVIOUS
<1>1. /\ p = N \/ p = N + 1
      /\ p <= s \/ (p - s) % 2 = 0
      /\ SumsAt(f, p, sum)
  BY <1>0, ComputeSums, Zenon
<1>2. SumsAt(f, p, sum) <=>
        IF p <= N THEN sum = <<Totals(f)[p] % Modulus, Running(f)[p] % Modulus>>
        ELSE sum = <<Totals(f)[N] % Modulus, (Running(f)[N] + Totals(f)[N]) % Modulus>>
  BY Zenon DEF SumsAt
<1>. HIDE DEF p, sum, N
<1>3. CASE p = N
  <2>1. p <= N
    BY <1>0, <1>3
  <2>2. sum = <<Totals(f)[N] % Modulus, Running(f)[N] % Modulus>>
    BY <1>1, <1>2, <1>3, <2>1, Zenon
  <2>3. sum[1] = Totals(f)[N] % Modulus
    BY <2>2
  <2>. QED
    BY <2>2, <2>3, Zenon DEF sum, N
<1>4. CASE p = N + 1
  <2>0. ~(p <= N) /\ ~(p <= s) /\ p - s \in Nat /\ N - s = (p - s) - 1
    BY <1>0, <1>4
  <2>1. ~(p <= N) /\ (N - s) % 2 # 0
    <3>1. (p - s) % 2 = 0
      BY <1>1, <2>0, Zenon
    <3>2. ((p - s) - 1) % 2 # 0
      BY <2>0, <3>1, Parity, Zenon
    <3>. QED
      BY <2>0, <3>2, Zenon
  <2>2. sum = <<Totals(f)[N] % Modulus, (Running(f)[N] + Totals(f)[N]) % Modulus>>
    BY <1>1, <1>2, <2>1, Zenon
  <2>3. sum[1] = Totals(f)[N] % Modulus
    BY <2>2
  <2>. QED
    BY <2>1, <2>3, Zenon DEF sum, N
<1>. QED
  BY <1>1, <1>3, <1>4, Zenon

\* When one element of a sequence changes, the total changes by as much.
LEMMA TotalsOfChanged ==
  ASSUME NEW f \in Seq(Nat), NEW g \in Seq(Nat), Len(g) = Len(f),
         NEW i \in 1..Len(f), \A j \in 1..Len(f) : j # i => g[j] = f[j]
  PROVE  Totals(g)[Len(f)] + f[i] = Totals(f)[Len(f)] + g[i]
<1>. DEFINE N == Len(f)
            P == Totals(f)
            Q == Totals(g)
            S == {k \in Nat : k \in 0..N => /\ k < i => Q[k] = P[k]
                                            /\ k >= i => Q[k] + f[i] = P[k] + g[i]}
<1>0. N \in Nat /\ i \in 1..N /\ (\A j \in 1..N : f[j] \in Nat /\ g[j] \in Nat)
  OBVIOUS
<1>1. /\ P \in [0..N -> Nat] /\ P[0] = 0 /\ (\A k \in 1..N : P[k] = P[k - 1] + f[k])
      /\ Q \in [0..N -> Nat] /\ Q[0] = 0 /\ (\A k \in 1..N : Q[k] = Q[k - 1] + g[k])
  <2>1. P \in [0..N -> Nat] /\ P[0] = 0 /\ (\A k \in 1..N : P[k] = P[k - 1] + f[k])
    BY TotalsAddUp, Zenon
  <2>2. Q \in [0..Len(g) -> Nat] /\ Q[0] = 0 /\ (\A k \in 1..Len(g) : Q[k] = Q[k - 1] + g[k])
    BY TotalsAddUp, Zenon
  <2>. QED
    BY <2>1, <2>2, Zenon
<1>2. \A j \in 1..N : j # i => g[j] = f[j]
  OBVIOUS
<1>. HIDE DEF N, P, Q
<1>3. 0 \in S
  <2>1. ~(0 >= i)
    BY <1>0
  <2>. QED
    BY <1>1, <2>1, Zenon
<1>4. ASSUME NEW k \in Nat, k \in S PROVE k + 1 \in S
  <2>1. k + 1 \in Nat /\ (k + 1 \in 0..N => k + 1 \in 1..N /\ k \in 0..N) /\ (k + 1) - 1 = k
    BY <1>0
  <2>. SUFFICES ASSUME k + 1 \in 0..N
                PROVE  /\ k + 1 < i => Q[k + 1] = P[k + 1]
                       /\ k + 1 >= i => Q[k + 1] + f[i] = P[k + 1] + g[i]
    BY <2>1, Zenon
  <2>2. /\ k < i => Q[k] = P[k]
        /\ k >= i => Q[k] + f[i] = P[k] + g[i]
        /\ P[k + 1] = P[k] + f[k + 1] /\ Q[k + 1] = Q[k] + g[k + 1]
        /\ P[k] \in Nat /\ Q[k] \in Nat /\ f[k + 1] \in Nat /\ g[k + 1] \in Nat
        /\ f[i] \in Nat /\ g[i] \in Nat
        /\ k + 1 # i => g[k + 1] = f[k + 1]
    BY <1>0, <1>1, <1>2, <1>4, <2>1, Zenon
  <2>3. CASE k + 1 = i
    <3>1. k < i /\ ~(k + 1 < i)
      BY <1>0, <2>3
    <3>2. Q[k] = P[k] /\ P[k + 1] = P[k] + f[i] /\ Q[k + 1] = P[k] + g[i]
      BY <2>2, <2>3, <3>1, Zenon
    <3>4. (P[k] + g[i]) + f[i] = (P[k] + f[i]) + g[i]
      <4>1. P[k] \in Nat /\ g[i] \in Nat /\ f[i] \in Nat
        BY <2>2, Zenon
      <4>. QED
        BY <4>1
    <3>. QED
      BY <3>1, <3>2, <3>4, Zenon
  <2>4. CASE k + 1 # i
    <3>1. (k + 1 < i => k < i) /\ (k + 1 >= i => k >= i)
      BY <1>0, <2>4
    <3>3. k >= i => (Q[k] + f[k + 1]) + f[i] = (P[k] + f[k + 1]) + g[i]
      <4>1. /\ P[k] \in Nat /\ Q[k] \in Nat /\ f[k + 1] \in Nat /\ g[i] \in Nat /\ f[i] \in Nat
        BY <2>2, Zenon
      <4>2. (Q[k] + f[k + 1]) + f[i] = (Q[k] + f[i]) + f[k + 1]
        <5>. DEFINE a == Q[k]
                    b == f[k + 1]
                    d == f[i]
        <5>1. a \in Nat /\ b \in Nat /\ d \in Nat
          BY <4>1, Zenon
        <5>. HIDE DEF a, b, d
        <5>2. (a + b) + d = (a + d) + b
          BY <5>1
        <5>. QED
          BY <5>2, Zenon DEF a, b, d
      <4>3. (P[k] + f[k + 1]) + g[i] = (P[k] + g[i]) + f[k + 1]
        <5>. DEFINE a == P[k]
                    b == f[k + 1]
                    d == g[i]
        <5>1. a \in Nat /\ b \in Nat /\ d \in Nat
          BY <4>1, Zenon
        <5>. HIDE DEF a, b, d
        <5>2. (a + b) + d = (a + d) + b
          BY <5>1
        <5>. QED
          BY <5>2, Zenon DEF a, b, d
      <4>. QED
        BY <2>2, <4>2, <4>3, Zenon
    <3>. QED
      BY <2>2, <2>4, <3>1, <3>3, Zenon
  <2>. QED
    BY <2>3, <2>4, Zenon
<1>. HIDE DEF S
<1>5. N \in 0..N /\ N >= i
  BY <1>0
<1>6. N \in S
  BY <1>0, <1>3, <1>4, Induction, Zenon
<1>. QED
  BY <1>5, <1>6, Zenon DEF S, N, P, Q

\* Numbers that differ by the difference of two words differ as words.
LEMMA RemainderDiffers ==
  ASSUME NEW n \in Nat \ {0}, NEW a \in Nat, NEW b \in Nat,
         NEW u \in 0..(n - 1), NEW v \in 0..(n - 1), u # v, a + u = b + v
  PROVE  a % n # b % n
<1>. SUFFICES ASSUME a % n = b % n PROVE FALSE
  OBVIOUS
<1>. DEFINE r == a % n
            x == a \div n
            y == b \div n
<1>1. r \in Nat /\ x \in Nat /\ y \in Nat /\ a = (n * x) + r /\ b = (n * y) + r
  <2>1. r \in 0..(n - 1) /\ x \in Nat /\ y \in Nat /\ a = (n * x) + r /\ b = (n * y) + r
    BY Remainder, Zenon
  <2>. HIDE DEF r
  <2>2. r \in Nat
    BY <2>1
  <2>. QED
    BY <2>1, <2>2, Zenon
<1>. HIDE DEF r, x, y
<1>2. x = y \/ x >= y + 1 \/ y >= x + 1
  BY <1>1
<1>3. CASE x = y
  BY <1>1, <1>3
<1>4. ASSUME NEW d \in Nat, NEW e \in Nat, d >= e + 1 PROVE n * d >= n * e + n
  <2>1. PICK h \in Nat : d = e + 1 + h
    BY <1>4
  <2>2. n * (e + 1 + h) = n * e + n + n * h
    OBVIOUS
  <2>3. n * h \in Nat /\ n * e \in Nat
    OBVIOUS
  <2>. QED
    BY <2>1, <2>2, <2>3
<1>5. CASE x >= y + 1
  <2>1. n * x >= n * y + n /\ n * x \in Nat /\ n * y \in Nat
    BY <1>1, <1>4, <1>5
  <2>. QED
    BY <1>1, <2>1
<1>6. CASE y >= x + 1
  <2>1. n * y >= n * x + n /\ n * x \in Nat /\ n * y \in Nat
    BY <1>1, <1>4, <1>6
  <2>. QED
    BY <1>1, <2>1
<1>. QED
  BY <1>2, <1>3, <1>5, <1>6, Zenon

\* util_checksum_seq, going on from the sums of the words before a piece of a
\* sequence, gives the sums of the words before its end.
LEMMA SeqGoesOn ==
  ASSUME NEW m \in Seq(Nat), NEW g \in Seq(Nat), NEW q \in Nat, q + Len(g) <= Len(m),
         \A i \in 1..Len(g) : g[i] = m[q + i]
  PROVE  util_checksum_seq(g, <<Totals(m)[q] % Modulus, Running(m)[q] % Modulus>>) =
           <<Totals(m)[q + Len(g)] % Modulus, Running(m)[q + Len(g)] % Modulus>>
<1>. DEFINE N == Len(m)
            L == Len(g)
            P == Totals(m)
            G == Running(m)
            csum == <<P[q] % Modulus, G[q] % Modulus>>
            T == AfterWords(g, csum)
            S == {n \in Nat : n \in 0..L =>
                                T[n] = <<P[q + n] % Modulus, G[q + n] % Modulus>>}
<1>0. N \in Nat /\ L \in Nat /\ q + L <= N /\ (\A i \in 1..N : m[i] \in Nat)
  OBVIOUS
<1>1. /\ P \in [0..N -> Nat] /\ (\A k \in 1..N : P[k] = P[k - 1] + m[k])
      /\ G \in [0..N -> Nat] /\ (\A k \in 1..N : G[k] = G[k - 1] + P[k])
  BY TotalsAddUp, RunningAddsUp, Zenon
<1>2. csum \in Word \X Word
  <2>. HIDE DEF P, G, N
  <2>1. q \in 0..N
    BY <1>0
  <2>2. P[q] \in Nat /\ G[q] \in Nat /\ Modulus \in Nat \ {0}
    BY <1>1, <2>1, ChecksumAssumption, Zenon
  <2>3. P[q] % Modulus \in Word /\ G[q] % Modulus \in Word
    BY <2>2, Remainder, Zenon DEF Word
  <2>. QED
    BY <2>3, Zenon
<1>3. T[0] = csum /\ \A n \in 1..L : T[n] = AddWord(T[n - 1], g[n])
  <2>. HIDE DEF csum
  <2>. QED
    BY <1>2, AfterWordsSteps, Zenon
<1>4. \A i \in 1..L : g[i] = m[q + i]
  OBVIOUS
<1>5. util_checksum_seq(g, csum) = T[L]
  BY Zenon DEF util_checksum_seq
<1>. HIDE DEF N, L, P, G, T
<1>6. 0 \in S
  <2>1. q + 0 = q
    OBVIOUS
  <2>. QED
    BY <1>3, <2>1, Zenon
<1>7. ASSUME NEW n \in Nat, n \in S PROVE n + 1 \in S
  <2>1. n + 1 \in Nat /\ (n + 1 \in 0..L => n + 1 \in 1..L /\ n \in 0..L) /\ (n + 1) - 1 = n
    BY <1>0
  <2>. SUFFICES ASSUME n + 1 \in 0..L
                PROVE  T[n + 1] = <<P[q + (n + 1)] % Modulus, G[q + (n + 1)] % Modulus>>
    BY <2>1, Zenon
  <2>. DEFINE k == q + (n + 1)
  <2>2. k \in 1..N /\ k - 1 = q + n /\ q + n \in 0..N
    BY <1>0
  <2>3. /\ T[n] = <<P[q + n] % Modulus, G[q + n] % Modulus>>
        /\ T[n + 1] = AddWord(T[n], m[k])
    BY <1>3, <1>4, <1>7, <2>1, Zenon
  <2>. HIDE DEF k
  <2>4. /\ P[q + n] \in Nat /\ G[q + n] \in Nat /\ m[k] \in Nat
        /\ P[k] = P[q + n] + m[k] /\ G[k] = G[q + n] + P[k]
    BY <1>0, <1>1, <2>2, Zenon
  <2>5. AddWord(<<P[q + n] % Modulus, G[q + n] % Modulus>>, m[k]) =
          <<(P[q + n] + m[k]) % Modulus, (G[q + n] + (P[q + n] + m[k])) % Modulus>>
    <3>1. \A a, b, x \in Nat :
            AddWord(<<a % Modulus, b % Modulus>>, x) = <<(a + x) % Modulus, (b + (a + x)) % Modulus>>
      BY AddWordReduces, Zenon
    <3>. QED
      BY <2>4, <3>1, Zenon
  <2>. QED
    BY <2>3, <2>4, <2>5, Zenon DEF k
<1>. HIDE DEF S
<1>8. L \in S
  BY <1>0, <1>6, <1>7, Induction, Zenon
<1>9. L \in 0..L
  BY <1>0
<1>10. T[L] = <<P[q + L] % Modulus, G[q + L] % Modulus>>
  BY <1>8, <1>9, Zenon DEF S
<1>. QED
  BY <1>5, <1>10, Zenon DEF L, P, G

\* util_checksum_seq over two pieces is the reference checksum of the whole.
LEMMA SeqInTwoPieces ==
  ASSUME NEW m \in Seq(Nat), NEW k \in 0..Len(m)
  PROVE  util_checksum_seq(SubSeq(m, k + 1, Len(m)),
                           util_checksum_seq(SubSeq(m, 1, k), <<0, 0>>)) = Fletcher(m)
<1>. DEFINE N == Len(m)
            a == SubSeq(m, 1, k)
            b == SubSeq(m, k + 1, N)
            P == Totals(m)
            G == Running(m)
<1>1. /\ a \in Seq(Nat) /\ Len(a) = k /\ (\A i \in 1..k : a[i] = m[i])
      /\ b \in Seq(Nat) /\ Len(b) = N - k /\ (\A i \in 1..(N - k) : b[i] = m[k + i])
  <2>1. a \in Seq(Nat) /\ Len(a) = k /\ (\A i \in 1..k : a[i] = m[i])
    OBVIOUS
  <2>2. b \in Seq(Nat) /\ Len(b) = N - k
    OBVIOUS
  <2>3. ASSUME NEW i \in 1..(N - k) PROVE b[i] = m[k + i]
    OBVIOUS
  <2>. QED
    BY <2>1, <2>2, <2>3, Zenon
<1>2. P[0] = 0 /\ G[0] = 0
  BY TotalsAddUp, RunningAddsUp, Zenon
<1>3. 0 % Modulus = 0
  BY ChecksumAssumption
<1>4. /\ N \in Nat /\ k \in Nat /\ 0 \in Nat /\ 0 + k = k /\ 0 + k <= N /\ k + (N - k) = N
      /\ k + (N - k) <= N
  OBVIOUS
<1>. HIDE DEF a, b, P, G, N
<1>5. 0 + Len(a) <= N /\ \A i \in 1..Len(a) : a[i] = m[0 + i]
  <2>1. \A i \in 1..k : 0 + i = i
    OBVIOUS
  <2>. QED
    BY <1>1, <1>4, <2>1, Zenon
<1>6. util_checksum_seq(a, <<P[0] % Modulus, G[0] % Modulus>>) =
        <<P[0 + Len(a)] % Modulus, G[0 + Len(a)] % Modulus>>
  BY <1>1, <1>4, <1>5, SeqGoesOn, Zenon DEF P, G, N
<1>7. util_checksum_seq(a, <<0, 0>>) = <<P[k] % Modulus, G[k] % Modulus>>
  BY <1>1, <1>2, <1>3, <1>4, <1>6, Zenon
<1>8. util_checksum_seq(b, <<P[k] % Modulus, G[k] % Modulus>>) =
        <<P[k + Len(b)] % Modulus, G[k + Len(b)] % Modulus>>
  BY <1>1, <1>4, SeqGoesOn, ZenonT(30) DEF P, G, N
<1>9. util_checksum_seq(b, <<P[k] % Modulus, G[k] % Modulus>>) = <<P[N] % Modulus, G[N] % Modulus>>
  BY <1>1, <1>4, <1>8, Zenon
<1>10. Totals(Weighted(m))[N] = G[N]
  BY WeightedIsRunning, Zenon DEF N, G
<1>11. Fletcher(m) = <<P[N] % Modulus, G[N] % Modulus>>
  BY <1>10, Zenon DEF Fletcher, N, P
<1>. QED
  BY <1>7, <1>9, <1>11, Zenon DEF a, b, N

\* The range says what its checksum is.
Holds == util_checksum_compute(mem, csump, skip) = <<mem[csump + 1], mem[csump + 2]>>

\* Nothing has changed, or only a word that is skipped.
Unnoticed ==
  \/ changed = -1
  \/ changed >= Skip(Words, skip) /\ changed \notin {csump, csump + 1}

ChecksumTypes ==
  /\ mem \in [1..Words -> Word]
  /\ csump \in 0..(Words - 2)
  /\ skip \in {s \in 0..Words : s = 0 \/ csump + 1 < s \/ csump >= s}

ChecksumInv ==
  /\ ChecksumTypes
  /\ phase \in {"new", "inserted", "checked"}
  /\ phase = "new" => changed = -1
  /\ phase = "inserted" => (Holds <=> Unnoticed)
  /\ phase = "checked" => (valid <=> Unnoticed)

\* A range of words, for the lemmas above.
LEMMA RangeOfWords ==
  ASSUME NEW m \in [1..Words -> Word]
  PROVE  m \in Seq(Nat) /\ Len(m) = Words
  BY ChecksumAssumption DEF Word

\* What the checksum's place and skip_off satisfy.
LEMMA PlacesFit ==
  ASSUME NEW c \in 0..(Words - 2), NEW off \in 0..Words,
         off = 0 \/ c + 1 < off \/ c >= off
  PROVE  LET s == Skip(Words, off) IN
         s \in 0..Words /\ (c + 1 < s \/ c >= s) /\ c \in Nat /\ s \in Nat
  BY ChecksumAssumption DEF Skip

\* The sums that util_checksum_compute gives are words.
LEMMA ComputeIsWords ==
  ASSUME NEW m \in [1..Words -> Word], NEW c \in Nat, NEW s \in Nat
  PROVE  AfterTurns(m, c, s)[Words][2] \in Word \X Word
<1>1. m \in Seq(Nat) /\ Len(m) = Words
  BY RangeOfWords, Zenon
<1>2. Words \in 0..Words
  BY ChecksumAssumption
<1>3. AfterTurns(m, c, s)[Words] \in Nat \X (Word \X Word)
  BY <1>1, <1>2, AfterTurnsSteps, Zenon
<1>. QED
  BY <1>3

\* A word that counts and changes changes the checksum.
LEMMA CountedNoticed ==
  ASSUME NEW m \in [1..Words -> Word], NEW c \in Nat, NEW s \in 0..Words,
         c + 1 < s \/ c >= s,
         NEW i \in 1..Words, NEW x \in Word, x # m[i], Counts(c, s, i - 1)
  PROVE  AfterTurns([m EXCEPT ![i] = x], c, s)[Words][2] # AfterTurns(m, c, s)[Words][2]
<1>. DEFINE m2 == [m EXCEPT ![i] = x]
            Only(h) == [j \in 1..Words |-> IF Counts(c, s, j - 1) THEN h[j] ELSE 0]
            f == Only(m)
            g == Only(m2)
            P == Totals(f)[Words]
            Q == Totals(g)[Words]
<1>1. m2 \in [1..Words -> Word] /\ m2[i] = x /\ \A j \in 1..Words : j # i => m2[j] = m[j]
  BY Zenon
<1>. HIDE DEF m2
<1>2. 0 \in Word
  BY ChecksumAssumption DEF Word
<1>3. f \in [1..Words -> Word] /\ g \in [1..Words -> Word]
  BY <1>1, <1>2, Zenon
<1>4. f[i] = m[i] /\ g[i] = x /\ \A j \in 1..Words : j # i => g[j] = f[j]
  BY <1>1, Zenon
<1>5. /\ \A j \in 1..Words : f[j] = IF Counts(c, s, j - 1) THEN m[j] ELSE 0
      /\ \A j \in 1..Words : g[j] = IF Counts(c, s, j - 1) THEN m2[j] ELSE 0
  BY Zenon
<1>. HIDE DEF f, g
<1>6. /\ m \in Seq(Nat) /\ Len(m) = Words /\ m2 \in Seq(Nat) /\ Len(m2) = Words
      /\ f \in Seq(Nat) /\ Len(f) = Words /\ g \in Seq(Nat) /\ Len(g) = Words
  BY <1>1, <1>3, RangeOfWords, Zenon
<1>7. Q + f[i] = P + g[i]
  <2>1. /\ Len(g) = Len(f) /\ i \in 1..Len(f) /\ f \in Seq(Nat) /\ g \in Seq(Nat)
        /\ \A j \in 1..Len(f) : j # i => g[j] = f[j]
    BY <1>4, <1>6, Zenon
  <2>2. Totals(g)[Len(f)] + f[i] = Totals(f)[Len(f)] + g[i]
    BY <2>1, TotalsOfChanged, Zenon
  <2>. QED
    BY <1>6, <2>2, Zenon
<1>8. P \in Nat /\ Q \in Nat
  <2>1. Words \in 0..Words
    BY ChecksumAssumption
  <2>. QED
    BY <1>6, <2>1, TotalsAddUp, Zenon
<1>9. Q % Modulus # P % Modulus
  <2>1. m[i] \in 0..(Modulus - 1) /\ x \in 0..(Modulus - 1) /\ Modulus \in Nat \ {0} /\ m[i] # x
    BY ChecksumAssumption, Zenon DEF Word
  <2>2. Q + m[i] = P + x
    BY <1>4, <1>7, Zenon
  <2>. HIDE DEF P, Q
  <2>. QED
    BY <1>8, <2>1, <2>2, RemainderDiffers, Zenon
<1>10. AfterTurns(m, c, s)[Words][2][1] = P % Modulus
  <2>1. /\ s \in 0..Len(m) /\ Len(f) = Len(m) /\ m \in Seq(Nat) /\ f \in Seq(Nat)
        /\ \A j \in 1..Len(m) : f[j] = IF Counts(c, s, j - 1) THEN m[j] ELSE 0
    BY <1>5, <1>6, Zenon
  <2>2. AfterTurns(m, c, s)[Len(m)][2][1] = Totals(f)[Len(f)] % Modulus
    BY <2>1, ComputeIsSums, Zenon
  <2>. QED
    BY <1>6, <2>2, Zenon
<1>11. AfterTurns(m2, c, s)[Words][2][1] = Q % Modulus
  <2>1. /\ s \in 0..Len(m2) /\ Len(g) = Len(m2) /\ m2 \in Seq(Nat) /\ g \in Seq(Nat)
        /\ \A j \in 1..Len(m2) : g[j] = IF Counts(c, s, j - 1) THEN m2[j] ELSE 0
    BY <1>5, <1>6, Zenon
  <2>2. AfterTurns(m2, c, s)[Len(m2)][2][1] = Totals(g)[Len(g)] % Modulus
    BY <2>1, ComputeIsSums, Zenon
  <2>. QED
    BY <1>6, <2>2, Zenon
<1>. QED
  BY <1>9, <1>10, <1>11, Zenon DEF m2

\* A word that does not count changes nothing.
LEMMA UncountedUnnoticed ==
  ASSUME NEW m \in [1..Words -> Word], NEW m2 \in [1..Words -> Word],
         NEW c \in Nat, NEW s \in Nat, c + 1 < s \/ c >= s,
         \A j \in 1..Words : Counts(c, s, j - 1) => m2[j] = m[j]
  PROVE  AfterTurns(m2, c, s)[Words] = AfterTurns(m, c, s)[Words]
<1>1. m \in Seq(Nat) /\ Len(m) = Words /\ m2 \in Seq(Nat) /\ Len(m2) = Words
  BY RangeOfWords, Zenon
<1>2. \A j \in 1..Len(m) : Counts(c, s, j - 1) => m2[j] = m[j]
  BY <1>1, Zenon
<1>3. AfterTurns(m2, c, s)[Len(m)] = AfterTurns(m, c, s)[Len(m)]
  BY <1>1, <1>2, UncountedUnread, Zenon
<1>. QED
  BY <1>1, <1>3, Zenon

\* What util_checksum_compute is on a range of the right size.
LEMMA ComputeOnRange ==
  ASSUME NEW m \in [1..Words -> Word], NEW c, NEW off
  PROVE  util_checksum_compute(m, c, off) = AfterTurns(m, c, Skip(Words, off))[Words][2]
<1>1. Len(m) = Words
  BY RangeOfWords, Zenon
<1>. QED
  BY <1>1, Zenon DEF util_checksum_compute

\* util_checksum inserts the checksum that it will compute.
LEMMA InsertHolds ==
  ASSUME ChecksumInv, util_checksum_insert
  PROVE  ChecksumInv'
<1>. DEFINE s == Skip(Words, skip)
            sum == AfterTurns(mem, csump, s)[Words][2]
            new == [mem EXCEPT ![csump + 1] = sum[1], ![csump + 2] = sum[2]]
<1>1. /\ mem \in [1..Words -> Word] /\ csump \in 0..(Words - 2) /\ skip \in 0..Words
      /\ skip = 0 \/ csump + 1 < skip \/ csump >= skip
      /\ phase = "new" /\ changed = -1
  BY Zenon DEF ChecksumInv, ChecksumTypes, util_checksum_insert
<1>2. s \in 0..Words /\ (csump + 1 < s \/ csump >= s) /\ csump \in Nat /\ s \in Nat
  BY <1>1, PlacesFit, Zenon
<1>3. sum \in Word \X Word
  BY <1>1, <1>2, ComputeIsWords, Zenon
<1>4. /\ mem' = new /\ phase' = "inserted" /\ csump' = csump /\ skip' = skip
      /\ changed' = changed /\ valid' = valid
  BY <1>1, ComputeOnRange, Zenon DEF util_checksum_insert
<1>. HIDE DEF s, sum
<1>5. sum[1] \in Word /\ sum[2] \in Word /\ sum = <<sum[1], sum[2]>>
  BY <1>3
<1>6. csump + 1 \in 1..Words /\ csump + 2 \in 1..Words /\ csump + 1 # csump + 2
  BY <1>1, ChecksumAssumption
<1>7. new \in [1..Words -> Word] /\ new[csump + 1] = sum[1] /\ new[csump + 2] = sum[2]
  BY <1>1, <1>5, <1>6, Zenon
<1>8. ASSUME NEW j \in 1..Words, Counts(csump, s, j - 1) PROVE new[j] = mem[j]
  <2>1. j # csump + 1 /\ j # csump + 2
    BY <1>1, <1>8 DEF Counts
  <2>. QED
    BY <1>1, <2>1, Zenon
<1>. HIDE DEF new
<1>9. AfterTurns(new, csump, s)[Words] = AfterTurns(mem, csump, s)[Words]
  BY <1>1, <1>2, <1>7, <1>8, UncountedUnnoticed, Zenon
<1>10. util_checksum_compute(new, csump, skip) = <<new[csump + 1], new[csump + 2]>>
  <2>1. util_checksum_compute(new, csump, skip) = AfterTurns(new, csump, s)[Words][2]
    BY <1>7, ComputeOnRange, Zenon DEF s
  <2>. QED
    BY <1>5, <1>7, <1>9, <2>1, Zenon DEF sum
<1>11. Holds' /\ Unnoticed'
  BY <1>1, <1>4, <1>10, Zenon DEF Holds, Unnoticed
<1>12. ChecksumTypes'
  BY <1>1, <1>4, <1>7, Zenon DEF ChecksumTypes
<1>13. phase' # "new" /\ phase' # "checked"
  BY <1>4
<1>. QED
  BY <1>4, <1>11, <1>12, <1>13, Zenon DEF ChecksumInv

\* A change of a word is noticed exactly when the word counts or is the checksum's.
LEMMA ChangeHolds ==
  ASSUME ChecksumInv, Change
  PROVE  ChecksumInv'
<1>. DEFINE s == Skip(Words, skip)
            sum == AfterTurns(mem, csump, s)[Words][2]
<1>1. /\ mem \in [1..Words -> Word] /\ csump \in 0..(Words - 2) /\ skip \in 0..Words
      /\ skip = 0 \/ csump + 1 < skip \/ csump >= skip
      /\ phase = "inserted" /\ changed = -1 /\ Holds
  BY Zenon DEF ChecksumInv, ChecksumTypes, Change, Unnoticed
<1>2. s \in 0..Words /\ (csump + 1 < s \/ csump >= s) /\ csump \in Nat /\ s \in Nat
  BY <1>1, PlacesFit, Zenon
<1>3. PICK i \in 1..Words, x \in Word :
        x # mem[i] /\ mem' = [mem EXCEPT ![i] = x] /\ changed' = i - 1
  BY Zenon DEF Change
<1>. DEFINE new == [mem EXCEPT ![i] = x]
<1>4. /\ mem' = new /\ changed' = i - 1
      /\ csump' = csump /\ skip' = skip /\ phase' = phase /\ valid' = valid
  BY <1>3, Zenon DEF Change
<1>5. new \in [1..Words -> Word] /\ new[i] = x /\ \A j \in 1..Words : j # i => new[j] = mem[j]
  BY <1>1, Zenon
<1>6. sum = <<mem[csump + 1], mem[csump + 2]>>
  BY <1>1, ComputeOnRange, Zenon DEF Holds
<1>7. Holds' <=> AfterTurns(new, csump, s)[Words][2] = <<new[csump + 1], new[csump + 2]>>
  <2>. HIDE DEF new
  <2>1. util_checksum_compute(new, csump, skip) = AfterTurns(new, csump, s)[Words][2]
    BY <1>5, ComputeOnRange, Zenon
  <2>2. Holds' <=> util_checksum_compute(new, csump, skip) = <<new[csump + 1], new[csump + 2]>>
    BY <1>4, Zenon DEF Holds
  <2>. QED
    BY <2>1, <2>2, Zenon
<1>8. Unnoticed' <=> i - 1 >= s /\ i - 1 # csump /\ i - 1 # csump + 1
  <2>1. i - 1 # -1
    OBVIOUS
  <2>. QED
    BY <1>4, <2>1, Zenon DEF Unnoticed
<1>. HIDE DEF s
<1>9. ~Counts(csump, s, i - 1) => AfterTurns(new, csump, s)[Words] = AfterTurns(mem, csump, s)[Words]
  <2>. SUFFICES ASSUME ~Counts(csump, s, i - 1)
                PROVE  AfterTurns(new, csump, s)[Words] = AfterTurns(mem, csump, s)[Words]
    BY Zenon
  <2>1. \A j \in 1..Words : Counts(csump, s, j - 1) => new[j] = mem[j]
    BY <1>5, Zenon
  <2>. HIDE DEF new
  <2>. QED
    BY <1>1, <1>2, <1>5, <2>1, UncountedUnnoticed, Zenon
<1>10. Counts(csump, s, i - 1) => AfterTurns(new, csump, s)[Words][2] # sum
  BY <1>1, <1>2, <1>3, CountedNoticed, Zenon
<1>. HIDE DEF new, sum
<1>11. csump + 1 \in 1..Words /\ csump + 2 \in 1..Words
  BY <1>1, ChecksumAssumption
<1>12. Holds' <=> Unnoticed'
  <2>1. CASE Counts(csump, s, i - 1)
    <3>1. i # csump + 1 /\ i # csump + 2 /\ ~(i - 1 >= s)
      BY <1>1, <1>2, <2>1 DEF Counts
    <3>2. new[csump + 1] = mem[csump + 1] /\ new[csump + 2] = mem[csump + 2]
      BY <1>5, <1>11, <3>1, Zenon
    <3>. QED
      BY <1>6, <1>7, <1>8, <1>10, <2>1, <3>1, <3>2, Zenon
  <2>2. CASE ~Counts(csump, s, i - 1) /\ i - 1 # csump /\ i - 1 # csump + 1
    <3>1. i # csump + 1 /\ i # csump + 2 /\ i - 1 >= s
      BY <1>1, <1>2, <2>2 DEF Counts
    <3>2. new[csump + 1] = mem[csump + 1] /\ new[csump + 2] = mem[csump + 2]
      BY <1>5, <1>11, <3>1, Zenon
    <3>. QED
      BY <1>6, <1>7, <1>8, <1>9, <2>2, <3>1, <3>2, Zenon DEF sum
  <2>3. CASE i - 1 = csump \/ i - 1 = csump + 1
    <3>1. ~Counts(csump, s, i - 1)
      BY <2>3, Zenon DEF Counts
    <3>2. i = csump + 1 \/ i = csump + 2
      BY <1>1, <2>3
    <3>3. <<new[csump + 1], new[csump + 2]>> # <<mem[csump + 1], mem[csump + 2]>>
      <4>1. new[csump + 1] # mem[csump + 1] \/ new[csump + 2] # mem[csump + 2]
        BY <1>3, <1>5, <3>2, Zenon
      <4>. QED
        BY <4>1
    <3>. QED
      BY <1>6, <1>7, <1>8, <1>9, <2>3, <3>1, <3>3, Zenon DEF sum
  <2>. QED
    BY <2>1, <2>2, <2>3, Zenon
<1>13. ChecksumTypes'
  BY <1>1, <1>4, <1>5, Zenon DEF ChecksumTypes
<1>14. phase' = "inserted" /\ phase' # "new" /\ phase' # "checked"
  BY <1>1, <1>4
<1>. QED
  BY <1>12, <1>13, <1>14, Zenon DEF ChecksumInv

\* util_checksum without insert answers whether the range says its checksum.
LEMMA CheckHolds ==
  ASSUME ChecksumInv, util_checksum_check
  PROVE  ChecksumInv'
<1>1. /\ ChecksumTypes /\ phase = "inserted" /\ (Holds <=> Unnoticed)
      /\ valid' = Holds /\ phase' = "checked"
      /\ mem' = mem /\ csump' = csump /\ skip' = skip /\ changed' = changed
  BY Zenon DEF ChecksumInv, util_checksum_check, Holds
<1>2. ChecksumTypes' /\ (Unnoticed' <=> Unnoticed)
  BY <1>1, Zenon DEF ChecksumTypes, Unnoticed
<1>3. phase' # "new" /\ phase' # "inserted"
  BY <1>1
<1>. QED
  BY <1>1, <1>2, <1>3, Zenon DEF ChecksumInv

\* The checksum that is computed is the reference one.
LEMMA RangeIsFletcher ==
  ASSUME ChecksumTypes
  PROVE  IsFletcher
<1>. DEFINE s == Skip(Words, skip)
            f == Counted
<1>1. /\ mem \in [1..Words -> Word] /\ csump \in 0..(Words - 2) /\ skip \in 0..Words
      /\ skip = 0 \/ csump + 1 < skip \/ csump >= skip
  BY Zenon DEF ChecksumTypes
<1>2. s \in 0..Words /\ (csump + 1 < s \/ csump >= s) /\ csump \in Nat /\ s \in Nat
  BY <1>1, PlacesFit, Zenon
<1>3. 0 \in Word
  BY ChecksumAssumption DEF Word
<1>4. f \in [1..Words -> Word]
  BY <1>1, <1>3, Zenon DEF Counted
<1>5. ASSUME NEW j \in 1..Words
      PROVE  f[j] = IF Counts(csump, s, j - 1) THEN mem[j] ELSE 0
  <2>1. f[j] = IF j - 1 \in {csump, csump + 1} \/ j - 1 >= s THEN 0 ELSE mem[j]
    BY Zenon DEF Counted
  <2>2. Counts(csump, s, j - 1) <=> ~(j - 1 \in {csump, csump + 1} \/ j - 1 >= s)
    BY <1>2 DEF Counts
  <2>. QED
    BY <2>1, <2>2, Zenon
<1>. HIDE DEF f, s
<1>6. mem \in Seq(Nat) /\ Len(mem) = Words /\ f \in Seq(Nat) /\ Len(f) = Words
  BY <1>1, <1>4, RangeOfWords, Zenon
<1>7. ASSUME (Words - s) % 2 = 0
      PROVE  util_checksum_compute(mem, csump, skip) = Fletcher(f)
  <2>1. /\ s \in 0..Len(mem) /\ Len(f) = Len(mem) /\ (Len(mem) - s) % 2 = 0
        /\ \A j \in 1..Len(mem) : f[j] = IF Counts(csump, s, j - 1) THEN mem[j] ELSE 0
    BY <1>2, <1>5, <1>6, <1>7, Zenon
  <2>2. AfterTurns(mem, csump, s)[Len(mem)][2] =
          <<Totals(f)[Len(f)] % Modulus, Running(f)[Len(f)] % Modulus>>
    BY <1>2, <1>6, <2>1, ComputeIsSums, Zenon
  <2>3. Fletcher(f) = <<Totals(f)[Len(f)] % Modulus, Running(f)[Len(f)] % Modulus>>
    BY <1>6, WeightedIsRunning, Zenon DEF Fletcher
  <2>4. util_checksum_compute(mem, csump, skip) = AfterTurns(mem, csump, s)[Len(mem)][2]
    BY <1>6, Zenon DEF util_checksum_compute, s
  <2>. QED
    BY <2>2, <2>3, <2>4, Zenon
<1>8. ASSUME NEW k \in 0..Words
      PROVE  util_checksum_seq(SubSeq(mem, k + 1, Words),
               util_checksum_seq(SubSeq(mem, 1, k), <<0, 0>>)) = Fletcher(mem)
  <2>1. k \in 0..Len(mem)
    BY <1>6, Zenon
  <2>2. util_checksum_seq(SubSeq(mem, k + 1, Len(mem)),
          util_checksum_seq(SubSeq(mem, 1, k), <<0, 0>>)) = Fletcher(mem)
    BY <1>6, <2>1, SeqInTwoPieces, Zenon
  <2>. QED
    BY <1>6, <2>2, Zenon
<1>. QED
  BY <1>7, <1>8, Zenon DEF IsFletcher, f, s

\* util_checksum_compute (util.c) gives the Fletcher checksum of the words that
\* count, util_checksum_seq that of the whole range also in two pieces, and
\* util_checksum accepts a range exactly when no word has changed but a skipped one:
\* for every size of the range, every place of the checksum and every width of words.
THEOREM ChecksumIsRight == CSpec => []ChecksumRight
<1>1. CInit => ChecksumInv
  <2>. SUFFICES ASSUME CInit PROVE ChecksumInv
    BY Zenon
  <2>1. phase = "new" /\ changed = -1 /\ ChecksumTypes
    BY Zenon DEF CInit, ChecksumTypes
  <2>2. phase # "inserted" /\ phase # "checked"
    BY <2>1
  <2>. QED
    BY <2>1, <2>2, Zenon DEF ChecksumInv
<1>2. ChecksumInv /\ [CNext]_cvars => ChecksumInv'
  <2>. SUFFICES ASSUME ChecksumInv, [CNext]_cvars PROVE ChecksumInv'
    BY Zenon
  <2>1. ASSUME UNCHANGED cvars PROVE ChecksumInv'
    BY <2>1, Zenon DEF cvars, ChecksumInv, ChecksumTypes, Holds, Unnoticed
  <2>. QED
    BY <2>1, InsertHolds, ChangeHolds, CheckHolds, Zenon DEF CNext
<1>3. ChecksumInv => ChecksumRight
  <2>. SUFFICES ASSUME ChecksumInv PROVE ChecksumRight
    BY Zenon
  <2>1. IsFletcher
    BY RangeIsFletcher, Zenon DEF ChecksumInv
  <2>2. DetectsChange
    BY Zenon DEF ChecksumInv, DetectsChange, Unnoticed
  <2>. QED
    BY <2>1, <2>2, Zenon DEF ChecksumRight
<1>. QED
  BY <1>1, <1>2, <1>3, PTL DEF CSpec

------------------------------------------------------------------------------
(***************************************************************************)
(* util_tmpfile: who is between the two calls of umask, and whose file has *)
(* a name.                                                                 *)
(***************************************************************************)
Places == {"out", "block", "umask", "mkstemp", "restore", "unlink", "unblock"}
Masked == {"mkstemp", "restore"}
Blocking == {"umask", "mkstemp", "restore", "unlink", "unblock"}

TmpType ==
  /\ at \in [Callers -> Places] /\ prev \in [Callers -> {USER, PRIVATE}]
  /\ blocked \in [Callers -> BOOLEAN] /\ fd \in [Callers -> {"none", "open"}]
  /\ named \subseteq Callers /\ overlap \in BOOLEAN /\ mask \in {USER, PRIVATE}

\* A name exists only while its thread has its signals blocked.
NameInv ==
  /\ \A c \in Callers : at[c] \in Blocking <=> blocked[c]
  /\ \A c \in named : at[c] \in {"restore", "unlink"} /\ fd[c] = "open"
  /\ killed \cap named = {}

\* Without an overlap one thread at most has changed the mask, and it knows the
\* mask it found.
MaskInv ==
  ~overlap =>
    /\ \A c, d \in Callers : at[c] \in Masked /\ at[d] \in Masked => c = d
    /\ \A c \in Callers : at[c] \in Masked => prev[c] = USER
    /\ (\A c \in Callers : at[c] \notin Masked) => mask = USER

TmpInv == TmpType /\ NameInv /\ MaskInv

\* At the beginning nobody is in util_tmpfile.
LEMMA TmpInit == PInit => TmpInv
<1>. SUFFICES ASSUME PInit PROVE TmpInv
  BY Zenon
<1>1. \A c \in Callers : at[c] = "out" /\ blocked[c] = FALSE
  BY Zenon DEF PInit
<1>2. TmpType
  BY Zenon DEF PInit, TmpType, Places
<1>3. NameInv
  BY <1>1, Zenon DEF PInit, NameInv, Blocking
<1>4. MaskInv
  BY <1>1, Zenon DEF PInit, MaskInv, Masked
<1>. QED
  BY <1>2, <1>3, <1>4, Zenon DEF TmpInv

\* A step of one caller leaves the places of the others alone.
LEMMA MovesOne ==
  ASSUME NEW c \in Callers, NEW from, NEW to, TmpType, Moves(c, from, to)
  PROVE  /\ killed = {} /\ at[c] = from /\ at'[c] = to
         /\ \A d \in Callers \ {c} : at'[d] = at[d]
         /\ to \in Places => at' \in [Callers -> Places]
  BY Zenon DEF Moves, TmpType

\* The mask's part of the invariant when no caller goes between the calls of
\* umask or leaves from there.
LEMMA MaskKept ==
  ASSUME MaskInv, mask' = mask, prev' = prev, overlap' = overlap,
         \A d \in Callers : at'[d] \in Masked <=> at[d] \in Masked
  PROVE  MaskInv'
  BY Zenon DEF MaskInv

\* The names' part when one caller moves.
LEMMA NameKept ==
  ASSUME NameInv, NEW c \in Callers, killed' = {},
         \A d \in Callers \ {c} : /\ at'[d] = at[d] /\ blocked'[d] = blocked[d]
                                  /\ fd'[d] = fd[d] /\ (d \in named' => d \in named),
         at'[c] \in Blocking <=> blocked'[c],
         named' \subseteq Callers,
         c \in named' => at'[c] \in {"restore", "unlink"} /\ fd'[c] = "open"
  PROVE  NameInv'
<1>1. \A d \in Callers : at'[d] \in Blocking <=> blocked'[d]
  <2>. SUFFICES ASSUME NEW d \in Callers PROVE at'[d] \in Blocking <=> blocked'[d]
    BY Zenon
  <2>1. CASE d = c
    BY <2>1, Zenon
  <2>2. CASE d # c
    BY <2>2, Zenon DEF NameInv
  <2>. QED
    BY <2>1, <2>2, Zenon
<1>2. \A d \in named' : at'[d] \in {"restore", "unlink"} /\ fd'[d] = "open"
  BY Zenon DEF NameInv
<1>. QED
  BY <1>1, <1>2, Zenon DEF NameInv

\* Each step of util_tmpfile, of its caller and of the signals keeps the
\* invariant.
LEMMA TmpStep == TmpInv /\ [PNext]_pvars => TmpInv'
<1>. SUFFICES ASSUME TmpInv, [PNext]_pvars PROVE TmpInv'
  BY Zenon
<1>1. TmpType /\ NameInv /\ MaskInv
  BY Zenon DEF TmpInv
<1>2. CASE UNCHANGED pvars
  BY <1>1, <1>2, Zenon DEF pvars, TmpInv, TmpType, NameInv, MaskInv
<1>. SUFFICES ASSUME NEW c \in Callers,
                     \/ util_tmpfile(c) \/ tmpfile_block(c) \/ tmpfile_umask(c)
                     \/ tmpfile_mkstemp(c) \/ tmpfile_restore(c) \/ tmpfile_unlink(c)
                     \/ tmpfile_unblock(c) \/ os_close(c) \/ Signal(c)
              PROVE  TmpInv'
  BY <1>2, Zenon DEF PNext
<1>3. CASE util_tmpfile(c)
  <2>1. PICK to \in {"out", "block"} : Moves(c, "out", to)
    BY <1>3, Zenon DEF util_tmpfile
  <2>2. /\ killed = {} /\ at[c] = "out" /\ at'[c] = to
        /\ \A d \in Callers \ {c} : at'[d] = at[d]
        /\ at' \in [Callers -> Places]
    BY <1>1, <2>1, MovesOne, Zenon DEF Places
  <2>3. /\ UNCHANGED <<mask, prev, blocked, named, overlap, killed>>
        /\ fd' \in [Callers -> {"none", "open"}]
        /\ \A d \in Callers \ {c} : fd'[d] = fd[d]
    BY <1>1, <1>3, Zenon DEF util_tmpfile, TmpType
  <2>4. TmpType'
    BY <1>1, <2>2, <2>3, Zenon DEF TmpType
  <2>5. NameInv'
    <3>1. c \notin named /\ ~blocked[c] /\ at[c] \notin Blocking /\ to \notin Blocking
      BY <1>1, <2>1, <2>2, Zenon DEF NameInv, Blocking
    <3>. QED
      BY <1>1, <2>2, <2>3, <2>4, <3>1, NameKept, Zenon DEF TmpType
  <2>6. MaskInv'
    BY <1>1, <2>1, <2>2, <2>3, MaskKept, Zenon DEF Masked
  <2>. QED
    BY <2>4, <2>5, <2>6, Zenon DEF TmpInv
<1>4. CASE tmpfile_block(c)
  <2>1. /\ killed = {} /\ at[c] = "block" /\ at'[c] = "umask"
        /\ \A d \in Callers \ {c} : at'[d] = at[d]
        /\ at' \in [Callers -> Places]
    BY <1>1, <1>4, MovesOne, Zenon DEF Places, tmpfile_block
  <2>2. /\ UNCHANGED <<mask, prev, named, fd, overlap, killed>>
        /\ blocked' \in [Callers -> BOOLEAN]
        /\ blocked'[c] = TRUE /\ \A d \in Callers \ {c} : blocked'[d] = blocked[d]
    BY <1>1, <1>4, Zenon DEF tmpfile_block, TmpType
  <2>3. TmpType'
    BY <1>1, <2>1, <2>2, Zenon DEF TmpType
  <2>4. NameInv'
    <3>1. c \notin named /\ "umask" \in Blocking
      BY <1>1, <2>1, Zenon DEF NameInv, Blocking
    <3>. QED
      BY <1>1, <2>1, <2>2, <2>3, <3>1, NameKept, Zenon DEF TmpType
  <2>5. MaskInv'
    BY <1>1, <2>1, <2>2, MaskKept, Zenon DEF Masked
  <2>. QED
    BY <2>3, <2>4, <2>5, Zenon DEF TmpInv
<1>5. CASE tmpfile_umask(c)
  <2>1. /\ killed = {} /\ at[c] = "umask" /\ at'[c] = "mkstemp"
        /\ \A d \in Callers \ {c} : at'[d] = at[d]
        /\ at' \in [Callers -> Places]
    BY <1>1, <1>5, MovesOne, Zenon DEF Places, tmpfile_umask
  <2>2. /\ UNCHANGED <<blocked, named, fd, killed>>
        /\ prev'[c] = mask /\ \A d \in Callers \ {c} : prev'[d] = prev[d]
        /\ overlap' = (overlap \/ \E o \in Callers \ {c} : at[o] \in Masked)
    BY <1>1, <1>5, Zenon DEF tmpfile_umask, TmpType, Masked
  <2>3. overlap' \in BOOLEAN
    BY <2>2, Zenon
  <2>4. prev' \in [Callers -> {USER, PRIVATE}]
    BY <1>1, <1>5, Zenon DEF tmpfile_umask, TmpType
  <2>5. TmpType'
    BY <1>1, <1>5, <2>1, <2>2, <2>3, <2>4, Zenon DEF TmpType, tmpfile_umask
  <2>6. NameInv'
    <3>1. c \notin named /\ blocked[c] /\ "mkstemp" \in Blocking
      BY <1>1, <2>1, Zenon DEF NameInv, Blocking
    <3>. QED
      BY <1>1, <2>1, <2>2, <2>5, <3>1, NameKept, Zenon DEF TmpType
  <2>7. ASSUME ~overlap' PROVE ~overlap /\ \A o \in Callers : at[o] \notin Masked
    BY <2>1, <2>2, <2>7, Zenon DEF Masked
  <2>8. MaskInv'
    BY <1>1, <2>1, <2>2, <2>7, Zenon DEF MaskInv, Masked
  <2>. QED
    BY <2>5, <2>6, <2>8, Zenon DEF TmpInv
<1>6. CASE tmpfile_mkstemp(c)
  <2>1. /\ killed = {} /\ at[c] = "mkstemp" /\ at'[c] = "restore"
        /\ \A d \in Callers \ {c} : at'[d] = at[d]
        /\ at' \in [Callers -> Places]
    BY <1>1, <1>6, MovesOne, Zenon DEF Places, tmpfile_mkstemp
  <2>2. /\ UNCHANGED <<mask, prev, blocked, overlap, killed>>
        /\ fd' \in [Callers -> {"none", "open"}]
        /\ \A d \in Callers \ {c} : fd'[d] = fd[d]
        /\ named' = named \/ (named' = named \cup {c} /\ fd'[c] = "open")
    BY <1>1, <1>6, Zenon DEF tmpfile_mkstemp, TmpType
  <2>3. TmpType'
    BY <1>1, <2>1, <2>2, Zenon DEF TmpType
  <2>4. NameInv'
    <3>1. c \notin named /\ blocked[c] /\ "restore" \in Blocking
      BY <1>1, <2>1, Zenon DEF NameInv, Blocking
    <3>. QED
      BY <1>1, <2>1, <2>2, <2>3, <3>1, NameKept, Zenon DEF TmpType
  <2>5. MaskInv'
    BY <1>1, <2>1, <2>2, MaskKept, Zenon DEF Masked
  <2>. QED
    BY <2>3, <2>4, <2>5, Zenon DEF TmpInv
<1>7. CASE tmpfile_restore(c)
  <2>1. PICK to \in {"unlink", "unblock"} :
          Moves(c, "restore", to) /\ (fd[c] = "open" => to = "unlink")
    BY <1>7, Zenon DEF tmpfile_restore
  <2>2. /\ killed = {} /\ at[c] = "restore" /\ at'[c] = to
        /\ \A d \in Callers \ {c} : at'[d] = at[d]
        /\ at' \in [Callers -> Places]
    BY <1>1, <2>1, MovesOne, Zenon DEF Places
  <2>3. UNCHANGED <<prev, blocked, named, fd, overlap, killed>> /\ mask' = prev[c]
    BY <1>7, Zenon DEF tmpfile_restore
  <2>4. TmpType'
    BY <1>1, <2>2, <2>3, Zenon DEF TmpType
  <2>5. NameInv'
    <3>1. /\ blocked[c] /\ to \in Blocking
          /\ c \in named => fd[c] = "open" /\ to = "unlink"
      BY <1>1, <2>1, <2>2, Zenon DEF NameInv, Blocking
    <3>. QED
      BY <1>1, <2>2, <2>3, <2>4, <3>1, NameKept, Zenon DEF TmpType
  <2>6. MaskInv'
    <3>1. at[c] \in Masked /\ at'[c] \notin Masked
      BY <2>1, <2>2, Zenon DEF Masked
    <3>. QED
      BY <1>1, <2>2, <2>3, <3>1, Zenon DEF MaskInv
  <2>. QED
    BY <2>4, <2>5, <2>6, Zenon DEF TmpInv
<1>8. CASE tmpfile_unlink(c)
  <2>1. /\ killed = {} /\ at[c] = "unlink" /\ at'[c] = "unblock"
        /\ \A d \in Callers \ {c} : at'[d] = at[d]
        /\ at' \in [Callers -> Places]
    BY <1>1, <1>8, MovesOne, Zenon DEF Places, tmpfile_unlink
  <2>2. UNCHANGED <<mask, prev, blocked, fd, overlap, killed>> /\ named' = named \ {c}
    BY <1>8, Zenon DEF tmpfile_unlink
  <2>3. TmpType'
    BY <1>1, <2>1, <2>2, Zenon DEF TmpType
  <2>4. NameInv'
    <3>1. blocked[c] /\ "unblock" \in Blocking
      BY <1>1, <2>1, Zenon DEF NameInv, Blocking
    <3>. QED
      BY <1>1, <2>1, <2>2, <2>3, <3>1, NameKept, Zenon DEF TmpType
  <2>5. MaskInv'
    BY <1>1, <2>1, <2>2, MaskKept, Zenon DEF Masked
  <2>. QED
    BY <2>3, <2>4, <2>5, Zenon DEF TmpInv
<1>9. CASE tmpfile_unblock(c)
  <2>1. /\ killed = {} /\ at[c] = "unblock" /\ at'[c] = "out"
        /\ \A d \in Callers \ {c} : at'[d] = at[d]
        /\ at' \in [Callers -> Places]
    BY <1>1, <1>9, MovesOne, Zenon DEF Places, tmpfile_unblock
  <2>2. /\ UNCHANGED <<mask, prev, named, fd, overlap, killed>>
        /\ blocked' \in [Callers -> BOOLEAN]
        /\ ~blocked'[c] /\ \A d \in Callers \ {c} : blocked'[d] = blocked[d]
    BY <1>1, <1>9, Zenon DEF tmpfile_unblock, TmpType
  <2>3. TmpType'
    BY <1>1, <2>1, <2>2, Zenon DEF TmpType
  <2>4. NameInv'
    <3>1. c \notin named /\ "out" \notin Blocking
      BY <1>1, <2>1, Zenon DEF NameInv, Blocking
    <3>. QED
      BY <1>1, <2>1, <2>2, <2>3, <3>1, NameKept, Zenon DEF TmpType
  <2>5. MaskInv'
    BY <1>1, <2>1, <2>2, MaskKept, Zenon DEF Masked
  <2>. QED
    BY <2>3, <2>4, <2>5, Zenon DEF TmpInv
<1>10. CASE os_close(c)
  <2>1. /\ killed = {} /\ at[c] = "out"
        /\ UNCHANGED <<mask, prev, blocked, named, at, overlap, killed>>
        /\ fd' \in [Callers -> {"none", "open"}]
        /\ \A d \in Callers \ {c} : fd'[d] = fd[d]
    BY <1>1, <1>10, Zenon DEF os_close, TmpType
  <2>2. TmpType'
    BY <1>1, <2>1, Zenon DEF TmpType
  <2>3. NameInv'
    <3>1. c \notin named /\ (at[c] \in Blocking <=> blocked[c])
      BY <1>1, <2>1, Zenon DEF NameInv
    <3>. QED
      BY <1>1, <2>1, <2>2, <3>1, NameKept, Zenon DEF TmpType
  <2>4. MaskInv'
    BY <1>1, <2>1, MaskKept, Zenon
  <2>. QED
    BY <2>2, <2>3, <2>4, Zenon DEF TmpInv
<1>11. CASE Signal(c)
  <2>1. /\ ~blocked[c] /\ killed' = {c}
        /\ UNCHANGED <<mask, prev, blocked, named, fd, at, overlap>>
    BY <1>11, Zenon DEF Signal
  <2>2. TmpType'
    BY <1>1, <2>1, Zenon DEF TmpType
  <2>3. NameInv'
    <3>1. c \notin named
      BY <1>1, <2>1, Zenon DEF NameInv, Blocking
    <3>2. killed' \cap named' = {}
      BY <2>1, <3>1, Zenon
    <3>. QED
      BY <1>1, <2>1, <3>2, Zenon DEF NameInv
  <2>4. MaskInv'
    BY <1>1, <2>1, MaskKept, Zenon
  <2>. QED
    BY <2>2, <2>3, <2>4, Zenon DEF TmpInv
<1>. QED
  BY <1>3, <1>4, <1>5, <1>6, <1>7, <1>8, <1>9, <1>10, <1>11, Zenon

\* util_tmpfile leaves no name behind when a signal hits its thread, and the
\* file creation mask as it was unless two calls overlapped, however many
\* threads make temporary files and however often.
THEOREM TmpFileLeavesNoTrace == PSpec => []LeavesNoTrace
<1>1. TmpInv => LeavesNoTrace
  BY Zenon DEF TmpInv, NameInv, MaskInv, Masked, LeavesNoTrace, NoNameLeft, MaskRestored
<1>. QED
  BY <1>1, TmpInit, TmpStep, PTL DEF PSpec

------------------------------------------------------------------------------
(***************************************************************************)
(* The log: its stream is set by out_init alone, and closed by out_fini    *)
(* alone, which falls back to stderr.                                      *)
(***************************************************************************)
LogInv ==
  /\ errno = failure
  /\ once \in BOOLEAN /\ dead \in BOOLEAN
  /\ ~once => Out_fp = "NULL"
  /\ once /\ ~dead => Out_fp = "stderr" \/ (Out_fp = "file" /\ open)

\* Whatever is logged, and wherever formatting fails, errno is left alone.
LEMMA LoggingKeepsErrno ==
  /\ \A level, fmt : out_log(level, fmt) \/ out_nonl(level, fmt) => UNCHANGED errno
  /\ \A fmt, fails : out_error(fmt, fails) => UNCHANGED errno
  /\ \A fmt : out_fatal(fmt) => UNCHANGED errno /\ dead' = TRUE
<1>1. \A place, fmt, fails, suffix : out_common(place, fmt, fails, suffix) => UNCHANGED errno
  BY Zenon DEF out_common
<1>2. \A level, fmt : out_log(level, fmt) => UNCHANGED errno
  BY <1>1, Zenon DEF out_log
<1>3. \A level, fmt : out_nonl(level, fmt) => UNCHANGED errno
  BY <1>1, Zenon DEF out_nonl
<1>4. \A fmt, fails : out_error(fmt, fails) => UNCHANGED errno
  BY Zenon DEF out_error
<1>5. \A fmt : out_fatal(fmt) => UNCHANGED errno /\ dead' = TRUE
  BY <1>1, Zenon DEF out_fatal
<1>. QED
  BY <1>2, <1>3, <1>4, <1>5, Zenon

\* Of the calls only out_init and out_fini touch the stream, and only a fatal
\* error or a failed assertion ends the process.
LEMMA LogStep == LogInv /\ [LNext]_lvars => LogInv'
<1>. SUFFICES ASSUME LogInv, [LNext]_lvars PROVE LogInv'
  BY Zenon
<1>. DEFINE Quiet == /\ errno' = failure' /\ UNCHANGED <<once, Out_fp, open>>
                     /\ dead' = TRUE \/ dead' = dead
<1>1. Quiet => LogInv'
  <2>. SUFFICES ASSUME Quiet PROVE LogInv'
    BY Zenon
  <2>1. /\ once' \in BOOLEAN /\ dead' \in BOOLEAN
        /\ dead' = FALSE => dead = FALSE
    BY Zenon DEF LogInv
  <2>2. ~once' => Out_fp' = "NULL"
    BY Zenon DEF LogInv
  <2>3. once' /\ ~dead' => Out_fp' = "stderr" \/ (Out_fp' = "file" /\ open')
    BY <2>1, Zenon DEF LogInv
  <2>. QED
    BY <2>1, <2>2, <2>3, Zenon DEF LogInv
<1>2. errno = failure
  BY Zenon DEF LogInv
<1>3. CASE UNCHANGED lvars
  BY <1>1, <1>2, <1>3, Zenon DEF lvars
<1>4. CASE out_init
  <2>1. /\ once' = TRUE /\ UNCHANGED <<errno, failure>>
        /\ ~dead /\ ~once
    BY <1>4, Zenon DEF out_init, Step
  <2>2. CASE ~DEBUG
    <3>1. Out_fp' = "stderr" /\ UNCHANGED dead
      BY <1>4, <2>2, Zenon DEF out_init
    <3>. QED
      BY <2>1, <3>1, Zenon DEF LogInv
  <2>3. CASE DEBUG
    <3>1. PICK log \in {"none", "opens", "fails"} :
            /\ dead' = (log = "fails") /\ open' = (log = "opens")
            /\ Out_fp' = CASE log = "none" -> "stderr" [] log = "opens" -> "file"
                           [] log = "fails" -> "NULL"
      BY <1>4, <2>3, Zenon DEF out_init
    <3>2. CASE log = "none"
      <4>1. Out_fp' = "stderr" /\ dead' = FALSE
        BY <3>1, <3>2, Zenon
      <4>. QED
        BY <2>1, <4>1, Zenon DEF LogInv
    <3>3. CASE log = "opens"
      <4>1. Out_fp' = "file" /\ dead' = FALSE /\ open' = TRUE
        BY <3>1, <3>3, Zenon
      <4>. QED
        BY <2>1, <4>1, Zenon DEF LogInv
    <3>4. CASE log = "fails"
      <4>1. dead' = TRUE
        BY <3>1, <3>4, Zenon
      <4>. QED
        BY <2>1, <4>1, Zenon DEF LogInv
    <3>. QED
      BY <3>2, <3>3, <3>4, Zenon
  <2>. QED
    BY <2>2, <2>3, Zenon
<1>5. CASE out_init_again
  BY <1>1, <1>2, <1>5, Zenon DEF out_init_again
<1>6. CASE out_fini
  <2>1. UNCHANGED <<once, errno, failure, dead>>
    BY <1>6, Zenon DEF out_fini
  <2>2. CASE Out_fp = "file"
    <3>1. Out_fp' = "stderr" /\ once = TRUE
      BY <1>6, <2>2, Zenon DEF out_fini, LogInv
    <3>. QED
      BY <2>1, <3>1, Zenon DEF LogInv
  <2>3. CASE Out_fp # "file"
    BY <1>1, <1>2, <1>6, <2>1, <2>3, Zenon DEF out_fini
  <2>. QED
    BY <2>2, <2>3, Zenon
<1>7. ASSUME NEW e, Failure(e) PROVE LogInv'
  BY <1>1, <1>7, Zenon DEF Failure
<1>8. ASSUME NEW f, out_set_print_func(f) PROVE LogInv'
  <2>1. UNCHANGED <<errno, failure, once, Out_fp, open, dead>>
    BY <1>8, Zenon DEF out_set_print_func, out_common
  <2>. QED
    BY <1>1, <1>2, <2>1, Zenon
<1>9. CASE out_set_vsnprintf_func
  <2>1. UNCHANGED <<errno, failure, once, Out_fp, open, dead>>
    BY <1>9, Zenon DEF out_set_vsnprintf_func, out_common
  <2>. QED
    BY <1>1, <1>2, <2>1, Zenon
<1>10. ASSUME NEW fmt, NEW level, LOG(level, fmt) \/ LOG_NONL(level, fmt) PROVE LogInv'
  <2>1. UNCHANGED <<errno, failure, once, Out_fp, open, dead>>
    BY <1>10, LoggingKeepsErrno, Zenon DEF LOG, LOG_NONL, discard, Same
  <2>. QED
    BY <1>1, <1>2, <2>1, Zenon
<1>11. ASSUME NEW fmt, out(fmt) \/ ERR(fmt) PROVE LogInv'
  <2>1. UNCHANGED <<errno, failure, once, Out_fp, open, dead>>
    BY <1>11, LoggingKeepsErrno, Zenon DEF out, ERR, out_common, Same
  <2>. QED
    BY <1>1, <1>2, <2>1, Zenon
<1>12. ASSUME NEW fmt, FATAL(fmt) PROVE LogInv'
  <2>1. UNCHANGED <<errno, failure, once, Out_fp, open>> /\ dead' = TRUE
    BY <1>12, LoggingKeepsErrno, Zenon DEF FATAL, out_fatal_abort, Same
  <2>. QED
    BY <1>1, <1>2, <2>1, Zenon
<1>13. ASSUME NEW cnd, ASSERT(cnd) PROVE LogInv'
  <2>1. UNCHANGED <<errno, failure, once, Out_fp, open>> /\ (dead' = TRUE \/ dead' = dead)
    BY <1>13, LoggingKeepsErrno, Zenon DEF ASSERT, discard, Same
  <2>. QED
    BY <1>1, <1>2, <2>1, Zenon
<1>. QED
  BY <1>3, <1>4, <1>5, <1>6, <1>7, <1>8, <1>9, <1>10, <1>11, <1>12, <1>13, Zenon DEF LNext

\* Logging leaves errno to the program and always has a stream to write to,
\* after any number of calls and for every level in the environment.
THEOREM LogIsUnobtrusive == LSpec => []LogUnobtrusive
<1>1. LInit => LogInv
  BY Zenon DEF LInit, LogInv
<1>2. LogInv => LogUnobtrusive
  BY Zenon DEF LogInv, LogUnobtrusive, ErrnoKept, GoesSomewhere
<1>. QED
  BY <1>1, <1>2, LogStep, PTL DEF LSpec

------------------------------------------------------------------------------
(***************************************************************************)
(* Windows. The processors before a group are the totals of the groups'    *)
(* sizes.                                                                  *)
(***************************************************************************)
\* Before is the sum the loop of os_cpu_set adds up.
LEMMA BeforeIsSum ==
  /\ Before[0] = 0 /\ \A g \in 0..Len(GroupSizes) : Before[g] \in Nat
  /\ \A g \in 1..Len(GroupSizes) : Before[g] = Before[g - 1] + GroupSizes[g]
<1>1. Before = Totals(GroupSizes)
  BY Zenon DEF Before, Totals
<1>. QED
  BY <1>1, TotalsAddUp, WinOsAssumption, Zenon

\* What the sums are, that they are numbers, and that they grow.
LEMMA BeforeGrows ==
  /\ Len(GroupSizes) \in Nat
  /\ Before[0] = 0
  /\ \A g \in 0..Len(GroupSizes) : Before[g] \in Nat
  /\ \A g, h \in 0..Len(GroupSizes) : g <= h => Before[g] <= Before[h]
<1>. DEFINE N == Len(GroupSizes)
<1>1. N \in Nat /\ \A i \in 1..N : GroupSizes[i] \in Nat
  BY WinOsAssumption
<1>2. \A g \in 1..N : Before[g] = Before[g - 1] + GroupSizes[g]
  BY BeforeIsSum, Zenon
<1>3. Before[0] = 0 /\ \A g \in 0..N : Before[g] \in Nat
  BY BeforeIsSum, Zenon
<1>. HIDE DEF N
<1>4. ASSUME NEW n \in Nat, n + 1 <= N
      PROVE  /\ n \in 0..N /\ n + 1 \in 0..N /\ GroupSizes[n + 1] \in Nat
             /\ Before[n + 1] = Before[n] + GroupSizes[n + 1]
  <2>1. n \in 0..N /\ n + 1 \in 0..N /\ n + 1 \in 1..N /\ n + 1 # 0 /\ (n + 1) - 1 = n
    BY <1>1, <1>4
  <2>. QED
    BY <1>1, <1>2, <2>1, Zenon
<1>5. ASSUME NEW g \in 0..N, NEW h \in 0..N, g <= h PROVE Before[g] <= Before[h]
  <2>. DEFINE S == {n \in Nat : g + n <= N => Before[g] <= Before[g + n]}
  <2>0. g \in Nat /\ g <= N /\ Before[g] \in Nat
    BY <1>1, <1>3
  <2>1. 0 \in S
    <3>1. g + 0 = g /\ Before[g] <= Before[g]
      BY <2>0
    <3>. QED
      BY <3>1, Zenon
  <2>2. ASSUME NEW n \in Nat, n \in S PROVE n + 1 \in S
    <3>1. /\ n + 1 \in Nat /\ g + n \in Nat /\ g + (n + 1) = (g + n) + 1
          /\ ((g + n) + 1 <= N => g + n <= N)
      BY <1>1, <2>0
    <3>2. ASSUME g + (n + 1) <= N PROVE Before[g] <= Before[g + (n + 1)]
      <4>1. Before[g] <= Before[g + n] /\ (g + n) + 1 <= N
        BY <2>2, <3>1, <3>2, Zenon
      <4>2. /\ g + n \in 0..N /\ GroupSizes[(g + n) + 1] \in Nat
            /\ Before[g + (n + 1)] = Before[g + n] + GroupSizes[(g + n) + 1]
        BY <1>4, <3>1, <4>1, Zenon
      <4>3. Before[g + n] \in Nat
        BY <1>3, <4>2, Zenon
      <4>. QED
        BY <2>0, <4>1, <4>2, <4>3
    <3>. QED
      BY <3>1, <3>2, Zenon
  <2>. HIDE DEF S
  <2>3. \A n \in Nat : n \in S
    BY <2>1, <2>2, Induction, Zenon
  <2>. USE DEF S
  <2>4. h - g \in Nat /\ g + (h - g) = h /\ h <= N
    BY <1>1, <1>5
  <2>. QED
    BY <2>3, <2>4, Zenon
<1>. QED
  BY <1>1, <1>3, <1>5, Zenon DEF N

\* A processor is in one group at most, and in one if it exists.
LEMMA GroupOfOne ==
  ASSUME NEW cpu \in Nat
  PROVE  /\ \A g, h \in GroupOf(cpu) : g = h
         /\ cpu < Before[Len(GroupSizes)] => GroupOf(cpu) # {}
<1>. DEFINE N == Len(GroupSizes)
<1>0. /\ N \in Nat /\ Before[0] = 0
      /\ \A g \in 0..N : Before[g] \in Nat
      /\ \A g, h \in 0..N : g <= h => Before[g] <= Before[h]
  BY BeforeGrows, Zenon
<1>1. GroupOf(cpu) = {g \in 0..(N - 1) : Before[g] <= cpu /\ cpu < Before[g + 1]}
  BY Zenon DEF GroupOf
<1>. HIDE DEF N
<1>2. ASSUME NEW g \in GroupOf(cpu), NEW h \in GroupOf(cpu), g < h PROVE FALSE
  <2>1. /\ g \in 0..(N - 1) /\ h \in 0..(N - 1)
        /\ cpu < Before[g + 1] /\ Before[h] <= cpu
    BY <1>1, Zenon
  <2>2. g + 1 \in 0..N /\ h \in 0..N /\ g + 1 <= h
    BY <1>0, <1>2, <2>1
  <2>3. Before[g + 1] <= Before[h] /\ Before[g + 1] \in Nat /\ Before[h] \in Nat
    BY <1>0, <2>2, Zenon
  <2>. QED
    BY <2>1, <2>3
<1>3. ASSUME NEW g \in GroupOf(cpu), NEW h \in GroupOf(cpu) PROVE g = h
  <2>1. g \in 0..(N - 1) /\ h \in 0..(N - 1)
    BY <1>1, Zenon
  <2>2. g < h \/ h < g \/ g = h
    BY <1>0, <2>1
  <2>. QED
    BY <1>2, <2>2, Zenon
<1>4. ASSUME cpu < Before[N], GroupOf(cpu) = {} PROVE FALSE
  <2>. DEFINE S == {n \in Nat : n <= N => Before[n] <= cpu}
  <2>1. 0 \in S
    BY <1>0
  <2>2. ASSUME NEW n \in Nat, n \in S PROVE n + 1 \in S
    <3>1. n + 1 \in Nat
      BY <2>2
    <3>2. ASSUME n + 1 <= N PROVE Before[n + 1] <= cpu
      <4>1. n <= N /\ n \in 0..(N - 1) /\ n + 1 \in 0..N
        BY <1>0, <3>2
      <4>2. Before[n] <= cpu
        BY <2>2, <4>1, Zenon
      <4>3. ~(cpu < Before[n + 1])
        BY <1>1, <1>4, <4>1, <4>2, Zenon
      <4>4. Before[n + 1] \in Nat
        BY <1>0, <4>1, Zenon
      <4>. QED
        BY <4>3, <4>4
    <3>. QED
      BY <3>1, <3>2, Zenon
  <2>. HIDE DEF S
  <2>3. N \in S
    BY <1>0, <2>1, <2>2, Induction, Zenon
  <2>. USE DEF S
  <2>4. N <= N /\ N \in 0..N
    BY <1>0
  <2>5. Before[N] <= cpu /\ Before[N] \in Nat
    BY <1>0, <2>3, <2>4, Zenon
  <2>. QED
    BY <1>4, <2>5
<1>. QED
  BY <1>3, <1>4, Zenon DEF N

\* The processors in the set.
Cpus == {Before[affinity.group] + b : b \in affinity.mask}

\* The set's processors are of its group, and are those that were asked for.
CpuInv ==
  /\ affinity \in [group : 0..Len(GroupSizes), mask : SUBSET Int]
  /\ asked \in Seq(Nat) /\ fatal \in BOOLEAN
  /\ fatal => LastAsked >= Before[Len(GroupSizes)]
  /\ ~fatal =>
       /\ \A c \in Cpus : affinity.group \in GroupOf(c)
       /\ Cpus \subseteq Asked
       /\ asked # <<>> => LastAsked \in Cpus
       /\ \A g \in 0..(Len(GroupSizes) - 1) :
            (\A c \in Asked : g \in GroupOf(c)) => Cpus = Asked

\* One more processor is asked for.
LEMMA OneMore ==
  ASSUME NEW s \in Seq(Nat), NEW x \in Nat
  PROVE  /\ Append(s, x) \in Seq(Nat) /\ Append(s, x) # <<>>
         /\ Append(s, x)[Len(Append(s, x))] = x
         /\ {Append(s, x)[i] : i \in 1..Len(Append(s, x))} = {s[i] : i \in 1..Len(s)} \cup {x}
<1>1. Append(s, x) \in Seq(Nat) /\ Append(s, x) # <<>>
  <2>1. Append(s, x) \in Seq(Nat) /\ Len(Append(s, x)) = Len(s) + 1 /\ Len(s) \in Nat
    OBVIOUS
  <2>2. Len(s) + 1 # 0
    BY <2>1
  <2>3. Append(s, x) # <<>>
    BY <2>1, <2>2, Len(<<>>) = 0
  <2>. QED
    BY <2>1, <2>3, Zenon
<1>2. Append(s, x)[Len(Append(s, x))] = x
  OBVIOUS
<1>3. {Append(s, x)[i] : i \in 1..Len(Append(s, x))} = {s[i] : i \in 1..Len(s)} \cup {x}
  <2>1. /\ Len(Append(s, x)) = Len(s) + 1
        /\ Len(s) \in Nat
        /\ \A i \in 1..Len(s) : Append(s, x)[i] = s[i]
        /\ Append(s, x)[Len(s) + 1] = x
    OBVIOUS
  <2>2. \A i : i \in 1..(Len(s) + 1) <=> i \in 1..Len(s) \/ i = Len(s) + 1
    BY <2>1
  <2>. QED
    BY <2>1, <2>2, Zenon
<1>. QED
  BY <1>1, <1>2, <1>3, Zenon

\* os_cpu_zero empties the set; os_cpu_set adds one processor to a set of its
\* group, or puts it in place of those of another group.
LEMMA CpuStep ==
  ASSUME CpuInv, os_cpu_zero \/ \E cpu \in 0..Before[Len(GroupSizes)] : os_cpu_set(cpu)
  PROVE  CpuInv'
<1>. DEFINE N == Len(GroupSizes)
<1>1. /\ affinity \in [group : 0..N, mask : SUBSET Int]
      /\ asked \in Seq(Nat) /\ fatal \in BOOLEAN
  BY Zenon DEF CpuInv
<1>2. CASE os_cpu_zero
  <2>1. /\ affinity' = [group |-> 0, mask |-> {}] /\ asked' = <<>> /\ ~fatal /\ fatal' = fatal
    BY <1>2, Zenon DEF os_cpu_zero, Call
  <2>2. affinity'.group = 0 /\ affinity'.mask = {}
    BY <2>1
  <2>3. affinity' \in [group : 0..N, mask : SUBSET Int]
    <3>1. 0 \in 0..N
      BY BeforeGrows
    <3>. QED
      BY <2>1, <3>1, Zenon
  <2>4. Cpus' = {} /\ Asked' = {}
    BY <2>1, <2>2 DEF Cpus, Asked
  <2>5. asked' \in Seq(Nat)
    BY <2>1
  <2>. QED
    BY <1>1, <2>1, <2>3, <2>4, <2>5, Zenon DEF CpuInv
<1>3. ASSUME NEW cpu \in 0..Before[N], os_cpu_set(cpu) PROVE CpuInv'
  <2>1. cpu \in Nat /\ ~fatal /\ asked' = Append(asked, cpu)
    <3>1. Before[N] \in Nat
      BY BeforeGrows
    <3>2. cpu \in Nat
      BY <3>1
    <3>. QED
      BY <1>3, <3>2, Zenon DEF os_cpu_set, Call
  <2>2. /\ asked' \in Seq(Nat) /\ asked' # <<>> /\ LastAsked' = cpu
        /\ Asked' = Asked \cup {cpu}
    <3>. DEFINE t == Append(asked, cpu)
    <3>1. /\ t \in Seq(Nat) /\ t # <<>> /\ t[Len(t)] = cpu
          /\ {t[i] : i \in 1..Len(t)} = {asked[i] : i \in 1..Len(asked)} \cup {cpu}
      BY <1>1, <2>1, OneMore, Zenon
    <3>2. asked' = t
      BY <2>1, Zenon
    <3>. HIDE DEF t
    <3>3. LastAsked' = t[Len(t)] /\ Asked' = {t[i] : i \in 1..Len(t)}
      BY <3>2, Zenon DEF Asked, LastAsked
    <3>. QED
      BY <3>1, <3>2, <3>3, Zenon DEF Asked
  <2>3. CASE GroupOf(cpu) = {}
    <3>1. fatal' = TRUE /\ affinity' = affinity
      BY <1>3, <2>3, Zenon DEF os_cpu_set
    <3>2. ~(cpu < Before[N])
      BY <2>1, <2>3, GroupOfOne, Zenon
    <3>3. cpu >= Before[N]
      BY <2>1, <3>2, BeforeGrows
    <3>. QED
      BY <1>1, <2>2, <3>1, <3>3, Zenon DEF CpuInv
  <2>4. ASSUME NEW g \in GroupOf(cpu),
               affinity' = [group |-> g,
                            mask |-> (IF affinity.group # g THEN {} ELSE affinity.mask)
                                       \cup {cpu - Before[g]}],
               UNCHANGED fatal
        PROVE  CpuInv'
    <3>1. g \in 0..(N - 1) /\ g \in 0..N /\ Before[g] \in Nat
      BY BeforeGrows DEF GroupOf
    <3>2. /\ affinity'.group = g
          /\ affinity'.mask = (IF affinity.group # g THEN {} ELSE affinity.mask)
                                \cup {cpu - Before[g]}
      BY <2>4
    <3>3. Before[g] + (cpu - Before[g]) = cpu /\ cpu - Before[g] \in Int
      BY <2>1, <3>1
    <3>4. affinity' \in [group : 0..N, mask : SUBSET Int]
      BY <1>1, <2>4, <3>1, <3>3, Zenon
    <3>5. Cpus' = {Before[g] + b : b \in affinity'.mask}
      BY <3>2, Zenon DEF Cpus
    <3>6. /\ affinity.group # g => Cpus' = {cpu}
          /\ affinity.group = g => Cpus' = Cpus \cup {cpu}
      BY <3>2, <3>3, <3>5, ZenonT(30) DEF Cpus
    <3>7. /\ \A c \in Cpus : affinity.group \in GroupOf(c)
          /\ Cpus \subseteq Asked
          /\ asked # <<>> => LastAsked \in Cpus
          /\ \A h \in 0..(N - 1) :
               (\A c \in Asked : h \in GroupOf(c)) => Cpus = Asked
      BY <2>1, Zenon DEF CpuInv
    <3>8. \A c \in Cpus' : g \in GroupOf(c)
      BY <3>6, <3>7, Zenon
    <3>9. Cpus' \subseteq Asked' /\ cpu \in Cpus'
      BY <2>2, <3>6, <3>7, Zenon
    <3>10. ASSUME NEW h \in 0..(N - 1), \A c \in Asked' : h \in GroupOf(c)
           PROVE  Cpus' = Asked'
      <4>1. h \in GroupOf(cpu) /\ \A c \in Asked : h \in GroupOf(c)
        BY <2>2, <3>10, Zenon
      <4>2. h = g
        BY <2>1, <4>1, GroupOfOne, Zenon
      <4>3. Cpus = Asked
        BY <3>7, <4>1, Zenon
      <4>4. CASE affinity.group = g
        BY <2>2, <3>6, <4>3, <4>4, Zenon
      <4>5. CASE affinity.group # g
        <5>1. Asked \subseteq Nat
          BY <1>1 DEF Asked
        <5>2. Asked = {}
          BY <3>7, <4>1, <4>2, <4>3, <4>5, <5>1, GroupOfOne, Zenon
        <5>. QED
          BY <2>2, <3>6, <4>5, <5>2, Zenon
      <4>. QED
        BY <4>4, <4>5, Zenon
    <3>. QED
      BY <1>1, <2>1, <2>2, <2>4, <3>2, <3>4, <3>8, <3>9, <3>10, Zenon DEF CpuInv
  <2>. QED
    BY <1>3, <2>3, <2>4, Zenon DEF os_cpu_set
<1>. QED
  BY <1>2, <1>3, Zenon

\* The lock of a file whose beginning was locked: each holder has locked the
\* same bytes, of which there is one at least, and nobody else has locked any.
FlockType ==
  /\ length \in Nat /\ fpos \in [Owners -> Nat] /\ holds \subseteq Owners
  /\ moved \in BOOLEAN /\ locked \in [Owners -> Nat \X Nat]

FlockInv ==
  /\ FlockType
  /\ ~moved =>
       /\ \A o \in Owners \ holds : locked[o] = <<0, 0>>
       /\ \A o \in holds : locked[o] = <<0, FlockLen>> /\ fpos[o] = 0 /\ FlockLen # 0
       /\ \A o, p \in holds : o = p

\* The first page of a file that is not empty has a first byte; no bytes are no
\* bytes.
LEMMA FirstPage ==
  /\ length \in Nat => /\ FlockLen \in Nat
                       /\ length # 0 => FlockLen # 0
                       /\ FlockLen # 0 => 0 \in Bytes(<<0, FlockLen>>)
  /\ Bytes(<<0, 0>>) = {}
<1>1. ASSUME length \in Nat PROVE FlockLen \in Nat /\ (length # 0 => FlockLen # 0)
  BY <1>1, WinOsAssumption DEF FlockLen
<1>2. ASSUME length \in Nat, FlockLen # 0 PROVE 0 \in Bytes(<<0, FlockLen>>)
  <2>. DEFINE n == FlockLen
  <2>1. n \in Nat /\ n # 0
    BY <1>1, <1>2
  <2>. HIDE DEF n
  <2>2. 0 \in Bytes(<<0, n>>)
    BY <2>1 DEF Bytes
  <2>. QED
    BY <2>2 DEF n
<1>3. Bytes(<<0, 0>>) = {}
  BY DEF Bytes
<1>. QED
  BY <1>1, <1>2, <1>3, Zenon

\* Locking, unlocking and truncating keep the lock's invariant.
LEMMA FlockStep ==
  ASSUME FlockInv,
         \/ \E o \in Owners : os_flock_lock(o) \/ os_flock_unlock(o)
         \/ \E o \in Owners, n \in 0..MaxLength : os_ftruncate(o, n)
  PROVE  FlockInv'
<1>0. /\ length \in Nat /\ fpos \in [Owners -> Nat] /\ holds \subseteq Owners
      /\ moved \in BOOLEAN /\ locked \in [Owners -> Nat \X Nat] /\ FlockLen \in Nat
  BY FirstPage, Zenon DEF FlockInv, FlockType
<1>1. ASSUME NEW o \in Owners, os_flock_lock(o) PROVE FlockInv'
  <2>1. /\ o \notin holds /\ holds' = holds \cup {o}
        /\ locked' = [locked EXCEPT ![o] = <<fpos[o], FlockLen>>]
        /\ \A p \in Owners \ {o} : Bytes(locked[p]) \cap Bytes(<<fpos[o], FlockLen>>) = {}
        /\ moved' = (moved \/ length = 0 \/ fpos[o] # 0)
        /\ length' = length /\ fpos' = fpos
    BY <1>1, Zenon DEF os_flock_lock, Region
  <2>2. FlockLen' = FlockLen
    BY <2>1, Zenon DEF FlockLen
  <2>3. FlockType'
    BY <1>0, <2>1, Zenon DEF FlockType
  <2>4. ASSUME ~moved'
        PROVE  /\ \A p \in Owners \ holds' : locked'[p] = <<0, 0>>
               /\ \A p \in holds' : locked'[p] = <<0, FlockLen>> /\ fpos[p] = 0 /\ FlockLen # 0
               /\ \A p, q \in holds' : p = q
    <3>1. ~moved /\ length # 0 /\ fpos[o] = 0
      BY <2>1, <2>4, Zenon
    <3>2. FlockLen # 0 /\ 0 \in Bytes(<<0, FlockLen>>)
      BY <1>0, <3>1, FirstPage, Zenon
    <3>3. \A p \in holds : locked[p] = <<0, FlockLen>>
      BY <3>1, Zenon DEF FlockInv
    <3>4. holds = {}
      BY <1>0, <2>1, <3>1, <3>2, <3>3, Zenon
    <3>5. \A p \in Owners : locked[p] = <<0, 0>>
      BY <3>1, <3>4, Zenon DEF FlockInv
    <3>6. locked'[o] = <<0, FlockLen>> /\ \A p \in Owners \ {o} : locked'[p] = locked[p]
      BY <1>0, <2>1, <3>1, Zenon
    <3>. QED
      BY <2>1, <3>1, <3>2, <3>4, <3>5, <3>6, Zenon
  <2>. QED
    BY <2>1, <2>2, <2>3, <2>4, Zenon DEF FlockInv
<1>2. ASSUME NEW o \in Owners, os_flock_unlock(o) PROVE FlockInv'
  <2>1. /\ o \in holds /\ holds' = holds \ {o}
        /\ locked' = [locked EXCEPT ![o] = IF @ = <<fpos[o], FlockLen>> THEN <<0, 0>> ELSE @]
        /\ moved' = moved /\ length' = length /\ fpos' = fpos
    BY <1>2, Zenon DEF os_flock_unlock, Region
  <2>2. FlockLen' = FlockLen
    BY <2>1, Zenon DEF FlockLen
  <2>3. /\ \A p \in Owners \ {o} : locked'[p] = locked[p]
        /\ locked'[o] = IF locked[o] = <<fpos[o], FlockLen>> THEN <<0, 0>> ELSE locked[o]
    BY <1>0, <2>1, Zenon
  <2>4. locked' \in [Owners -> Nat \X Nat]
    <3>1. locked[o] \in Nat \X Nat /\ <<0, 0>> \in Nat \X Nat
      BY <1>0
    <3>. QED
      BY <1>0, <2>1, <3>1, Zenon
  <2>5. FlockType'
    BY <1>0, <2>1, <2>4, Zenon DEF FlockType
  <2>6. ASSUME ~moved'
        PROVE  /\ \A p \in Owners \ holds' : locked'[p] = <<0, 0>>
               /\ \A p \in holds' : locked'[p] = <<0, FlockLen>> /\ fpos[p] = 0 /\ FlockLen # 0
               /\ \A p, q \in holds' : p = q
    <3>1. /\ \A p \in Owners \ holds : locked[p] = <<0, 0>>
          /\ \A p \in holds : locked[p] = <<0, FlockLen>> /\ fpos[p] = 0 /\ FlockLen # 0
          /\ \A p, q \in holds : p = q
      BY <2>1, <2>6, Zenon DEF FlockInv
    <3>2. locked'[o] = <<0, 0>>
      BY <2>1, <2>3, <3>1, Zenon
    <3>. QED
      BY <1>0, <2>1, <2>3, <3>1, <3>2, Zenon
  <2>. QED
    BY <2>1, <2>2, <2>5, <2>6, Zenon DEF FlockInv
<1>3. ASSUME NEW o \in Owners, NEW n \in 0..MaxLength, os_ftruncate(o, n) PROVE FlockInv'
  <2>1. /\ length' \in {n, length} /\ fpos' = [fpos EXCEPT ![o] = n]
        /\ moved' = (moved \/ holds # {}) /\ locked' = locked /\ holds' = holds
    BY <1>3, Zenon DEF os_ftruncate
  <2>2. n \in Nat
    BY WinOsAssumption
  <2>3. FlockType'
    BY <1>0, <2>1, <2>2, Zenon DEF FlockType
  <2>4. ~moved' => ~moved /\ holds = {}
    BY <2>1, Zenon
  <2>. QED
    BY <2>1, <2>3, <2>4, Zenon DEF FlockInv
<1>. QED
  BY <1>1, <1>2, <1>3, Zenon

\* One open file at most holds the lock.
LEMMA FlockInvExcludes == FlockInv => FlockExcludes
<1>. SUFFICES ASSUME FlockInv, ~moved
              PROVE  /\ \A o, p \in holds : o = p
                     /\ \A o \in Owners : Bytes(locked[o]) # {} <=> o \in holds
  BY Zenon DEF FlockExcludes
<1>1. /\ length \in Nat
      /\ \A o \in Owners \ holds : locked[o] = <<0, 0>>
      /\ \A o \in holds : locked[o] = <<0, FlockLen>> /\ FlockLen # 0
      /\ \A o, p \in holds : o = p
  BY Zenon DEF FlockInv, FlockType
<1>2. \A o \in Owners : Bytes(locked[o]) # {} <=> o \in holds
  BY <1>1, FirstPage, Zenon
<1>. QED
  BY <1>1, <1>2, Zenon

\* The environment.
LEMMA EnvStep ==
  ASSUME EnvAgrees, os_unsetenv \/ \E v \in Values, o \in BOOLEAN : os_setenv(v, o)
  PROVE  EnvAgrees'
<1>1. CASE os_unsetenv
  BY <1>1, Zenon DEF os_unsetenv, posix_unsetenv, putenv, EnvAgrees
<1>2. ASSUME NEW v \in Values, NEW o \in BOOLEAN, os_setenv(v, o) PROVE EnvAgrees'
  <2>1. /\ env' = (IF ~o /\ env # UNSET THEN env ELSE putenv(v))
        /\ posix' = (IF o \/ posix = UNSET THEN v ELSE posix)
        /\ emptied' = (emptied \/ v = "")
    BY <1>2, Zenon DEF os_setenv, posix_setenv
  <2>2. ASSUME ~emptied' PROVE env' = posix'
    <3>1. ~emptied /\ env = posix /\ putenv(v) = v
      BY <2>1, <2>2, Zenon DEF EnvAgrees, putenv
    <3>. QED
      BY <2>1, <3>1, Zenon
  <2>. QED
    BY <2>2, Zenon DEF EnvAgrees
<1>. QED
  BY <1>1, <1>2, Zenon

\* The environment, the lock of a file and the set of processors have no part in
\* one another's calls.
LEMMA WinStep ==
  EnvAgrees /\ FlockInv /\ CpuInv /\ [WNext]_wvars => (EnvAgrees /\ FlockInv /\ CpuInv)'
<1>. SUFFICES ASSUME EnvAgrees, FlockInv, CpuInv, [WNext]_wvars
              PROVE  (EnvAgrees /\ FlockInv /\ CpuInv)'
  BY Zenon
<1>1. ASSUME UNCHANGED envvars PROVE EnvAgrees'
  BY <1>1, Zenon DEF envvars, EnvAgrees
<1>2. ASSUME UNCHANGED lockvars PROVE FlockInv'
  BY <1>2, Zenon DEF lockvars, FlockInv, FlockType, FlockLen
<1>3. ASSUME UNCHANGED cpuvars PROVE CpuInv'
  BY <1>3, ZenonT(30) DEF cpuvars, CpuInv, Cpus, Asked, LastAsked
<1>4. CASE UNCHANGED wvars
  BY <1>1, <1>2, <1>3, <1>4, Zenon DEF wvars, envvars, lockvars, cpuvars
<1>5. CASE os_unsetenv \/ \E v \in Values, o \in BOOLEAN : os_setenv(v, o)
  <2>1. UNCHANGED <<lockvars, cpuvars>>
    BY <1>5, Zenon DEF os_unsetenv, os_setenv
  <2>. QED
    BY <1>2, <1>3, <1>5, <2>1, EnvStep, Zenon
<1>6. CASE \/ \E o \in Owners : os_flock_lock(o) \/ os_flock_unlock(o)
           \/ \E o \in Owners, n \in 0..MaxLength : os_ftruncate(o, n)
  <2>1. UNCHANGED <<envvars, cpuvars>>
    BY <1>6, Zenon DEF os_flock_lock, os_flock_unlock, os_ftruncate
  <2>. QED
    BY <1>1, <1>3, <1>6, <2>1, FlockStep, Zenon
<1>7. CASE os_cpu_zero \/ \E cpu \in 0..Before[Len(GroupSizes)] : os_cpu_set(cpu)
  <2>1. UNCHANGED <<envvars, lockvars>>
    BY <1>7, Zenon DEF os_cpu_zero, os_cpu_set
  <2>. QED
    BY <1>1, <1>2, <1>7, <2>1, CpuStep, Zenon
<1>. QED
  BY <1>4, <1>5, <1>6, <1>7, Zenon DEF WNext

\* At the beginning nothing is set, locked or asked for.
LEMMA WinInit == WInit => EnvAgrees /\ FlockInv /\ CpuInv
<1>. SUFFICES ASSUME WInit PROVE EnvAgrees /\ FlockInv /\ CpuInv
  BY Zenon
<1>1. EnvAgrees
  BY Zenon DEF WInit, EnvAgrees
<1>2. FlockInv
  <2>1. length \in Nat /\ 0 \in Nat
    BY WinOsAssumption DEF WInit
  <2>2. <<0, 0>> \in Nat \X Nat
    OBVIOUS
  <2>3. FlockType
    BY <2>1, <2>2, Zenon DEF WInit, FlockType
  <2>. QED
    BY <2>3, Zenon DEF WInit, FlockInv
<1>3. CpuInv
  <2>1. affinity = [group |-> 0, mask |-> {}] /\ asked = <<>> /\ fatal = FALSE
    BY Zenon DEF WInit
  <2>2. 0 \in 0..Len(GroupSizes)
    BY BeforeGrows
  <2>3. affinity \in [group : 0..Len(GroupSizes), mask : SUBSET Int]
    BY <2>1, <2>2, Zenon
  <2>4. affinity.mask = {}
    BY <2>1
  <2>5. Cpus = {} /\ Asked = {} /\ asked \in Seq(Nat)
    BY <2>1, <2>4 DEF Cpus, Asked
  <2>. QED
    BY <2>1, <2>3, <2>5, Zenon DEF CpuInv
<1>. QED
  BY <1>1, <1>2, <1>3, Zenon

\* The Windows layer keeps what callers of the POSIX functions rely on: the same
\* environment, a lock that excludes, and a set with the processors asked for,
\* for every number of open files, values and processor groups, and every page
\* size.
THEOREM WindowsAsUnderPosix == WSpec => []AsUnderPosix
<1>1. FlockInv => FlockExcludes
  BY FlockInvExcludes, Zenon
<1>2. CpuInv => CpuSetIsAsked
  BY Zenon DEF CpuInv, CpuSetIsAsked, Cpus
<1>3. EnvAgrees /\ FlockInv /\ CpuInv => AsUnderPosix
  BY <1>1, <1>2, Zenon DEF AsUnderPosix
<1>. QED
  BY <1>3, WinInit, WinStep, PTL DEF WSpec

------------------------------------------------------------------------------
(***************************************************************************)
(* The tools. What has been found is what runs; the names open in the log  *)
(* are those of the calls that have not ended.                             *)
(***************************************************************************)
Entry ==
  {<<"library_too_long">>, <<"function_too_long">>}
    \cup ({"func", "lib"} \X Apis \X {0, 1})
Name == {"func", "lib"} \X Apis

\* A sequence with one element more.
LEMMA OneLonger ==
  ASSUME NEW S, NEW s \in Seq(S), NEW e \in S
  PROVE  /\ Append(s, e) \in Seq(S) /\ Len(Append(s, e)) = Len(s) + 1
         /\ Append(s, e)[Len(s) + 1] = e
         /\ \A i \in 1..Len(s) : Append(s, e)[i] = s[i]
         /\ \A i \in 1..(Len(s) + 1) : i \in 1..Len(s) \/ i = Len(s) + 1
<1>1. \A n \in Nat : \A i \in 1..(n + 1) : i \in 1..n \/ i = n + 1
  OBVIOUS
<1>2. /\ Append(s, e) \in Seq(S) /\ Len(Append(s, e)) = Len(s) + 1
      /\ Append(s, e)[Len(s) + 1] = e /\ Len(s) \in Nat
      /\ \A i \in 1..Len(s) : Append(s, e)[i] = s[i]
  OBVIOUS
<1>. QED
  BY <1>1, <1>2, Zenon

\* The elements of a sequence up to the k-th.
LEMMA Prefix ==
  ASSUME NEW S, NEW s \in Seq(S), NEW k \in 0..Len(s)
  PROVE  /\ SubSeq(s, 1, k) \in Seq(S) /\ Len(SubSeq(s, 1, k)) = k
         /\ \A i \in 1..k : SubSeq(s, 1, k)[i] = s[i]
  OBVIOUS

\* A sequence without its last element.
LEMMA FrontAndLast ==
  ASSUME NEW S, NEW s \in Seq(S), s # <<>>
  PROVE  /\ Len(s) \in Nat /\ Len(s) \in 1..Len(s) /\ s[Len(s)] \in S
         /\ SubSeq(s, 1, Len(s) - 1) \in Seq(S) /\ Len(SubSeq(s, 1, Len(s) - 1)) = Len(s) - 1
         /\ s = Append(SubSeq(s, 1, Len(s) - 1), s[Len(s)])
         /\ \A i \in 1..(Len(s) - 1) :
              SubSeq(s, 1, Len(s) - 1)[i] = s[i] /\ i \in 1..Len(s)
<1>. DEFINE n == Len(s)
            r == SubSeq(s, 1, n - 1)
<1>1. n \in Nat /\ n # 0 /\ n \in 1..n /\ s[n] \in S
  OBVIOUS
<1>2. n - 1 \in 0..n /\ (n - 1) + 1 = n /\ \A i \in 1..(n - 1) : i \in 1..n
  <2>. HIDE DEF n
  <2>. QED
    BY <1>1
<1>3. r \in Seq(S) /\ Len(r) = n - 1 /\ \A i \in 1..(n - 1) : r[i] = s[i]
  BY <1>2, Prefix, Zenon
<1>. HIDE DEF r
<1>4. s = Append(r, s[n])
  <2>. DEFINE t == Append(r, s[n])
  <2>1. t \in Seq(S) /\ Len(t) = Len(r) + 1 /\ t[Len(r) + 1] = s[n]
        /\ \A i \in 1..Len(r) : t[i] = r[i]
    BY <1>1, <1>3
  <2>2. \A i \in 1..n : i \in 1..(n - 1) \/ i = n
    <3>. HIDE DEF n
    <3>. QED
      BY <1>1
  <2>. HIDE DEF t
  <2>3. Len(t) = n /\ \A i \in 1..n : t[i] = s[i]
    BY <1>2, <1>3, <2>1, <2>2, Zenon
  <2>4. \A u, v \in Seq(S) : Len(u) = Len(v) /\ (\A i \in 1..Len(v) : u[i] = v[i]) => u = v
    OBVIOUS
  <2>5. t = s
    BY <2>1, <2>3, <2>4, Zenon
  <2>. QED
    BY <2>5 DEF t
<1>. QED
  BY <1>1, <1>2, <1>3, <1>4, Zenon DEF r

\* A sequence of names is not Broken.
LEMMA NamesNotBroken ==
  ASSUME NEW s \in Seq(Name)
  PROVE  s # Broken
<1>. SUFFICES ASSUME s = Broken PROVE FALSE
  BY Zenon
<1>1. Len(s) = 1 /\ s[1] = <<"broken">>
  BY DEF Broken
<1>2. s[1] \in Name
  BY <1>1
<1>3. PICK kind \in {"func", "lib"}, api \in Apis : s[1] = <<kind, api>>
  BY <1>2 DEF Name
<1>4. Len(<<kind, api>>) = 2 /\ Len(<<"broken">>) = 1
  OBVIOUS
<1>5. 1 # 2
  OBVIOUS
<1>. QED
  BY <1>1, <1>3, <1>4, <1>5, Zenon

\* What one entry does to the names that are open.
LEMMA BracketOf ==
  ASSUME NEW s \in Seq(Name), NEW kind \in {"func", "lib"}, NEW api \in Apis
  PROVE  /\ Bracket(s, <<"library_too_long">>) = s
         /\ Bracket(s, <<"function_too_long">>) = s
         /\ Bracket(s, <<kind, api, 0>>) = Append(s, <<kind, api>>)
         /\ Bracket(s, <<kind, api, 1>>) =
              IF s # <<>> /\ s[Len(s)] = <<kind, api>> THEN SubSeq(s, 1, Len(s) - 1) ELSE Broken
<1>1. s # Broken
  BY NamesNotBroken, Zenon
<1>2. Len(<<"library_too_long">>) = 1 /\ Len(<<"function_too_long">>) = 1
  OBVIOUS
<1>3. \A order : /\ Len(<<kind, api, order>>) # 1 /\ <<kind, api, order>>[3] = order
                 /\ <<kind, api, order>>[1] = kind /\ <<kind, api, order>>[2] = api
  OBVIOUS
<1>4. 1 # 0
  OBVIOUS
<1>. QED
  BY <1>1, <1>2, <1>3, <1>4, Zenon DEF Bracket

\* The names that are open stay names, or Broken.
LEMMA BracketStays ==
  ASSUME NEW s \in Seq(Name) \cup {Broken}, NEW e \in Entry
  PROVE  Bracket(s, e) \in Seq(Name) \cup {Broken}
<1>1. CASE s = Broken
  BY <1>1, Zenon DEF Bracket
<1>2. CASE s \in Seq(Name) /\ e \in {<<"library_too_long">>, <<"function_too_long">>}
  <2>1. Len(e) = 1
    BY <1>2
  <2>. QED
    BY <1>2, <2>1, Zenon DEF Bracket
<1>3. ASSUME s \in Seq(Name), NEW kind \in {"func", "lib"}, NEW api \in Apis, NEW order \in {0, 1},
             e = <<kind, api, order>>
      PROVE  Bracket(s, e) \in Seq(Name) \cup {Broken}
  <2>. DEFINE nm == <<kind, api>>
  <2>1. nm \in Name
    BY Zenon DEF Name
  <2>. HIDE DEF nm
  <2>2. Append(s, nm) \in Seq(Name)
    BY <1>3, <2>1
  <2>3. s # <<>> => SubSeq(s, 1, Len(s) - 1) \in Seq(Name)
    BY <1>3
  <2>4. CASE order = 0
    BY <1>3, <2>2, <2>4, BracketOf, Zenon DEF nm
  <2>5. CASE order = 1
    BY <1>3, <2>3, <2>5, BracketOf, ZenonT(30) DEF nm
  <2>. QED
    BY <2>4, <2>5, Zenon
<1>4. CASE s \in Seq(Name) /\ e \in {"func", "lib"} \X Apis \X {0, 1}
  <2>1. PICK kind \in {"func", "lib"}, api \in Apis, order \in {0, 1} : e = <<kind, api, order>>
    BY <1>4
  <2>. QED
    BY <1>3, <1>4, <2>1, Zenon
<1>. QED
  BY <1>1, <1>2, <1>4, Zenon DEF Entry

\* The log read entry by entry.
LEMMA BracketsSteps ==
  ASSUME NEW log \in Seq(Entry)
  PROVE  /\ Brackets(log)[0] = <<>>
         /\ \A n \in 1..Len(log) : Brackets(log)[n] = Bracket(Brackets(log)[n - 1], log[n])
<1>. DEFINE N == Len(log)
            V == Seq(Name) \cup {Broken}
            F == [n \in 1..N |-> [v \in V |-> Bracket(v, log[n])]]
            Is(t) == t = [n \in 0..N |-> IF n = 0 THEN <<>> ELSE Bracket(t[n - 1], log[n])]
            T == Brackets(log)
<1>0. N \in Nat /\ \A i \in 1..N : log[i] \in Entry
  OBVIOUS
<1>. HIDE DEF N
<1>1. F \in [1..N -> [V -> V]]
  BY <1>0, BracketStays, Zenon
<1>2. PICK t : t \in [0..N -> V] /\ t[0] = <<>> /\ \A n \in 1..N : t[n] = F[n][t[n - 1]]
  <2>1. <<>> \in V
    OBVIOUS
  <2>. HIDE DEF F, V
  <2>2. \E t : Iterates(V, <<>>, N, F, t)
    BY <1>0, <1>1, <2>1, Recursion, Zenon
  <2>. QED
    BY <2>2, Zenon DEF Iterates
<1>3. \A n \in 1..N : n \in 0..N /\ n # 0 /\ n - 1 \in 0..N
  BY <1>0
<1>4. \A n \in 1..N : t[n] = Bracket(t[n - 1], log[n])
  BY <1>2, <1>3, Zenon
<1>5. \A n \in 0..N : n = 0 \/ n \in 1..N
  BY <1>0
<1>6. Is(t)
  BY <1>2, <1>4, <1>5, Zenon
<1>7. T = CHOOSE u : Is(u)
  BY Zenon DEF Brackets, N
<1>8. Is(T)
  BY <1>6, <1>7, Zenon
<1>. HIDE DEF T
<1>9. 0 \in 0..N
  BY <1>0
<1>10. T[0] = <<>> /\ \A n \in 1..N : T[n] = Bracket(T[n - 1], log[n])
  BY <1>3, <1>8, <1>9, Zenon
<1>. QED
  BY <1>10, Zenon DEF T, N

\* The calls read one by one.
LEMMA NamesOfSteps ==
  ASSUME NEW apis \in Seq(Apis)
  PROVE  /\ NamesOf(apis)[0] = <<>>
         /\ \A n \in 0..Len(apis) : NamesOf(apis)[n] \in Seq(Name)
         /\ \A n \in 1..Len(apis) : NamesOf(apis)[n] = NamesOf(apis)[n - 1] \o Names(apis[n])
<1>. DEFINE N == Len(apis)
            V == Seq(Name)
            F == [n \in 1..N |-> [v \in V |-> v \o Names(apis[n])]]
            Is(t) == t = [n \in 0..N |-> IF n = 0 THEN <<>> ELSE t[n - 1] \o Names(apis[n])]
            T == NamesOf(apis)
<1>0. N \in Nat /\ \A i \in 1..N : apis[i] \in Apis
  OBVIOUS
<1>. HIDE DEF N
<1>1. ASSUME NEW api \in Apis PROVE Names(api) \in V
  <2>. DEFINE f == <<"func", api>>
              l == <<"lib", api>>
  <2>1. f \in Name /\ l \in Name
    BY Zenon DEF Name
  <2>. HIDE DEF f, l
  <2>2. <<>> \in V /\ <<f, l>> \in V
    BY <2>1
  <2>. QED
    BY <2>2, Zenon DEF Names, f, l
<1>2. ASSUME NEW v \in V, NEW w \in V PROVE v \o w \in V
  OBVIOUS
<1>. HIDE DEF V
<1>3. F \in [1..N -> [V -> V]]
  BY <1>0, <1>1, <1>2, Zenon
<1>4. PICK t : t \in [0..N -> V] /\ t[0] = <<>> /\ \A n \in 1..N : t[n] = F[n][t[n - 1]]
  <2>1. <<>> \in V
    BY DEF V
  <2>. HIDE DEF F
  <2>2. \E t : Iterates(V, <<>>, N, F, t)
    BY <1>0, <1>3, <2>1, Recursion, Zenon
  <2>. QED
    BY <2>2, Zenon DEF Iterates
<1>5. \A n \in 1..N : n \in 0..N /\ n # 0 /\ n - 1 \in 0..N
  BY <1>0
<1>6. \A n \in 1..N : t[n] = t[n - 1] \o Names(apis[n])
  BY <1>4, <1>5, Zenon
<1>7. \A n \in 0..N : n = 0 \/ n \in 1..N
  BY <1>0
<1>8. Is(t)
  BY <1>4, <1>6, <1>7, Zenon
<1>9. T = CHOOSE u : Is(u)
  BY Zenon DEF NamesOf, N
<1>10. Is(T)
  BY <1>8, <1>9, Zenon
<1>. HIDE DEF T
<1>11. 0 \in 0..N
  BY <1>0
<1>12. T[0] = <<>> /\ \A n \in 1..N : T[n] = T[n - 1] \o Names(apis[n])
  BY <1>5, <1>10, <1>11, Zenon
<1>13. \A n \in 1..N : T[n - 1] \in V => T[n] \in V
  BY <1>0, <1>1, <1>2, <1>12, Zenon
<1>14. \A n \in 0..N : T[n] \in V
  <2>1. T[0] \in V
    BY <1>12 DEF V
  <2>. QED
    BY <1>0, <1>13, <2>1, StaysIn, Zenon
<1>. QED
  BY <1>12, <1>14, Zenon DEF T, N, V

OpenIn(log) == Brackets(log)[Len(log)]
NamesIn(apis) == NamesOf(apis)[Len(apis)]

\* One entry more in the log.
LEMMA OneEntryMore ==
  ASSUME NEW log \in Seq(Entry), NEW e \in Entry
  PROVE  /\ Append(log, e) \in Seq(Entry)
         /\ OpenIn(Append(log, e)) = Bracket(OpenIn(log), e)
<1>. DEFINE L == Append(log, e)
            N == Len(log)
            T == Brackets(log)
            U == Brackets(L)
            S == {n \in Nat : n \in 0..N => U[n] = T[n]}
<1>1. /\ L \in Seq(Entry) /\ Len(L) = N + 1 /\ L[N + 1] = e /\ N \in Nat
      /\ \A i \in 1..N : L[i] = log[i]
  OBVIOUS
<1>2. T[0] = <<>> /\ \A n \in 1..N : T[n] = Bracket(T[n - 1], log[n])
  BY BracketsSteps, Zenon
<1>. HIDE DEF L
<1>3. U[0] = <<>> /\ \A n \in 1..Len(L) : U[n] = Bracket(U[n - 1], L[n])
  BY <1>1, BracketsSteps, Zenon
<1>4. OpenIn(log) = T[N] /\ OpenIn(L) = U[Len(L)]
  BY Zenon DEF OpenIn
<1>. HIDE DEF N, T, U
<1>5. 0 \in S
  BY <1>2, <1>3, Zenon
<1>6. ASSUME NEW n \in Nat, n \in S PROVE n + 1 \in S
  <2>1. /\ n + 1 \in Nat /\ (n + 1) - 1 = n
        /\ n + 1 \in 0..N => n + 1 \in 1..N /\ n \in 0..N /\ n + 1 \in 1..(N + 1)
    BY <1>1
  <2>. QED
    BY <1>1, <1>2, <1>3, <1>6, <2>1, Zenon
<1>. HIDE DEF S
<1>7. N \in 0..N /\ N + 1 \in 1..(N + 1) /\ (N + 1) - 1 = N
  BY <1>1
<1>8. U[N] = T[N]
  <2>1. N \in S
    BY <1>1, <1>5, <1>6, Induction, Zenon
  <2>. QED
    BY <1>7, <2>1, Zenon DEF S
<1>9. U[N + 1] = Bracket(T[N], e)
  BY <1>1, <1>3, <1>7, <1>8, Zenon
<1>. QED
  BY <1>1, <1>4, <1>9, Zenon DEF L

\* One call more.
LEMMA OneCallMore ==
  ASSUME NEW apis \in Seq(Apis), NEW api \in Apis
  PROVE  NamesIn(Append(apis, api)) = NamesIn(apis) \o Names(api)
<1>. DEFINE L == Append(apis, api)
            N == Len(apis)
            T == NamesOf(apis)
            U == NamesOf(L)
            S == {n \in Nat : n \in 0..N => U[n] = T[n]}
<1>1. /\ L \in Seq(Apis) /\ Len(L) = N + 1 /\ L[N + 1] = api /\ N \in Nat
      /\ \A i \in 1..N : L[i] = apis[i]
  OBVIOUS
<1>2. T[0] = <<>> /\ \A n \in 1..N : T[n] = T[n - 1] \o Names(apis[n])
  BY NamesOfSteps, Zenon
<1>. HIDE DEF L
<1>3. U[0] = <<>> /\ \A n \in 1..Len(L) : U[n] = U[n - 1] \o Names(L[n])
  BY <1>1, NamesOfSteps, Zenon
<1>4. NamesIn(apis) = T[N] /\ NamesIn(L) = U[Len(L)]
  BY Zenon DEF NamesIn
<1>. HIDE DEF N, T, U
<1>5. 0 \in S
  BY <1>2, <1>3, Zenon
<1>6. ASSUME NEW n \in Nat, n \in S PROVE n + 1 \in S
  <2>1. /\ n + 1 \in Nat /\ (n + 1) - 1 = n
        /\ n + 1 \in 0..N => n + 1 \in 1..N /\ n \in 0..N /\ n + 1 \in 1..(N + 1)
    BY <1>1
  <2>. QED
    BY <1>1, <1>2, <1>3, <1>6, <2>1, Zenon
<1>. HIDE DEF S
<1>7. N \in 0..N /\ N + 1 \in 1..(N + 1) /\ (N + 1) - 1 = N
  BY <1>1
<1>8. U[N] = T[N]
  <2>1. N \in S
    BY <1>1, <1>5, <1>6, Induction, Zenon
  <2>. QED
    BY <1>7, <2>1, Zenon DEF S
<1>9. U[N + 1] = T[N] \o Names(api)
  BY <1>1, <1>3, <1>7, <1>8, Zenon
<1>. QED
  BY <1>1, <1>4, <1>9, Zenon DEF L

\* The names of calls are names.
LEMMA NamesInAreNames ==
  ASSUME NEW apis \in Seq(Apis)
  PROVE  NamesIn(apis) \in Seq(Name)
<1>1. Len(apis) \in 0..Len(apis)
  OBVIOUS
<1>. QED
  BY <1>1, NamesOfSteps, Zenon DEF NamesIn

\* Two entries more.
LEMMA TwoEntriesMore ==
  ASSUME NEW log \in Seq(Entry), NEW d \in Entry, NEW e \in Entry
  PROVE  /\ log \o <<d, e>> \in Seq(Entry)
         /\ OpenIn(log \o <<d, e>>) = Bracket(Bracket(OpenIn(log), d), e)
<1>1. log \o <<d, e>> = Append(Append(log, d), e)
  OBVIOUS
<1>2. Append(log, d) \in Seq(Entry) /\ OpenIn(Append(log, d)) = Bracket(OpenIn(log), d)
  BY OneEntryMore, Zenon
<1>3. /\ Append(Append(log, d), e) \in Seq(Entry)
      /\ OpenIn(Append(Append(log, d), e)) = Bracket(OpenIn(Append(log, d)), e)
  <2>. DEFINE l == Append(log, d)
  <2>1. l \in Seq(Entry)
    BY <1>2, Zenon
  <2>. HIDE DEF l
  <2>2. Append(l, e) \in Seq(Entry) /\ OpenIn(Append(l, e)) = Bracket(OpenIn(l), e)
    BY <2>1, OneEntryMore, Zenon
  <2>. QED
    BY <2>2, Zenon DEF l
<1>. QED
  BY <1>1, <1>2, <1>3, Zenon

\* The beginning and the end of this call are logged alike.
Even(api) == Len(util_emit_log(api, 0)) = Len(util_emit_log(api, 1))

\* What util_emit_log writes: a complaint, or two names.
LEMMA EmitShape ==
  ASSUME NEW api \in Apis, NEW order \in {0, 1}
  PROVE  LET x == util_emit_log(api, order) IN
         \/ x = <<<<"library_too_long">>>>
         \/ x = <<<<"function_too_long">>>>
         \/ order = 0 /\ x = <<<<"func", api, 0>>, <<"lib", api, 0>>>>
         \/ order = 1 /\ x = <<<<"lib", api, 1>>, <<"func", api, 1>>>>
<1>1. CASE order = 0
  BY <1>1, Zenon DEF util_emit_log
<1>2. CASE order = 1
  <2>1. order # 0
    BY <1>2
  <2>. QED
    BY <1>2, <2>1, Zenon DEF util_emit_log
<1>. QED
  BY <1>1, <1>2, Zenon

\* The beginning of a call opens its names.
LEMMA BeginOpens ==
  ASSUME NEW log \in Seq(Entry), NEW api \in Apis, NEW s \in Seq(Name), OpenIn(log) = s
  PROVE  /\ log \o util_emit_log(api, 0) \in Seq(Entry)
         /\ OpenIn(log \o util_emit_log(api, 0)) = s \o Names(api)
<1>. DEFINE x == util_emit_log(api, 0)
<1>1. ASSUME NEW e \in {<<"library_too_long">>, <<"function_too_long">>}, x = <<e>>
      PROVE  log \o x \in Seq(Entry) /\ OpenIn(log \o x) = s \o Names(api)
  <2>1. e \in Entry
    BY Zenon DEF Entry
  <2>2. Bracket(s, e) = s
    <3>1. Len(e) = 1
      OBVIOUS
    <3>. QED
      BY <3>1, Zenon DEF Bracket
  <2>3. Len(x) = 1 /\ log \o x = Append(log, e)
    <3>. HIDE DEF x
    <3>. QED
      BY <1>1, <2>1
  <2>4. Names(api) = <<>>
    BY <2>3, Zenon DEF Names
  <2>5. s \o <<>> = s
    OBVIOUS
  <2>. QED
    BY <2>1, <2>2, <2>3, <2>4, <2>5, OneEntryMore, Zenon
<1>2. CASE x = <<<<"func", api, 0>>, <<"lib", api, 0>>>>
  <2>. DEFINE d == <<"func", api, 0>>
              e == <<"lib", api, 0>>
              f == <<"func", api>>
              l == <<"lib", api>>
  <2>1. d \in Entry /\ e \in Entry
    BY DEF Entry
  <2>2. f \in Name /\ l \in Name
    BY DEF Name
  <2>3. Bracket(s, d) = Append(s, f)
    BY BracketOf, Zenon
  <2>. HIDE DEF f
  <2>4. Append(s, f) \in Seq(Name)
    BY <2>2
  <2>5. Bracket(Append(s, f), e) = Append(Append(s, f), l)
    BY <2>4, BracketOf, Zenon
  <2>. HIDE DEF d, e, l
  <2>6. Append(Append(s, f), l) = s \o <<f, l>>
    BY <2>2
  <2>7. x = <<d, e>>
    BY <1>2, Zenon DEF d, e
  <2>. HIDE DEF x
  <2>8. Len(x) # 1
    BY <2>7
  <2>9. Names(api) = <<f, l>>
    BY <2>8, Zenon DEF Names, x, f, l
  <2>10. log \o <<d, e>> \in Seq(Entry) /\ OpenIn(log \o <<d, e>>) = Bracket(Bracket(s, d), e)
    BY <2>1, TwoEntriesMore, Zenon
  <2>11. OpenIn(log \o <<d, e>>) = s \o <<f, l>>
    BY <2>3, <2>5, <2>6, <2>10, Zenon
  <2>. QED
    BY <2>7, <2>9, <2>10, <2>11, Zenon DEF x
<1>3. 0 # 1 /\ 0 \in {0, 1}
  OBVIOUS
<1>. QED
  BY <1>1, <1>2, <1>3, EmitShape, Zenon

\* The end of a call closes its names.
LEMMA EndCloses ==
  ASSUME NEW log \in Seq(Entry), NEW api \in Apis, Even(api), NEW r \in Seq(Name),
         OpenIn(log) = r \o Names(api)
  PROVE  OpenIn(log \o util_emit_log(api, 1)) = r
<1>. DEFINE x == util_emit_log(api, 1)
<1>1. ASSUME NEW e \in {<<"library_too_long">>, <<"function_too_long">>}, x = <<e>>
      PROVE  OpenIn(log \o x) = r
  <2>1. e \in Entry
    BY Zenon DEF Entry
  <2>2. Bracket(r, e) = r
    <3>1. Len(e) = 1
      OBVIOUS
    <3>. QED
      BY <3>1, Zenon DEF Bracket
  <2>3. Len(x) = 1 /\ log \o x = Append(log, e)
    <3>. HIDE DEF x
    <3>. QED
      BY <1>1, <2>1
  <2>4. Names(api) = <<>>
    BY <2>3, Zenon DEF Names, Even
  <2>5. r \o <<>> = r
    OBVIOUS
  <2>. QED
    BY <2>1, <2>2, <2>3, <2>4, <2>5, OneEntryMore, Zenon
<1>2. CASE x = <<<<"lib", api, 1>>, <<"func", api, 1>>>>
  <2>. DEFINE d == <<"lib", api, 1>>
              e == <<"func", api, 1>>
              f == <<"func", api>>
              l == <<"lib", api>>
              s == r \o <<f, l>>
  <2>1. d \in Entry /\ e \in Entry
    BY DEF Entry
  <2>2. f \in Name /\ l \in Name
    BY DEF Name
  <2>3. \A v \in Seq(Name) : v # <<>> /\ v[Len(v)] = l => Bracket(v, d) = SubSeq(v, 1, Len(v) - 1)
    BY BracketOf, Zenon
  <2>4. \A v \in Seq(Name) : v # <<>> /\ v[Len(v)] = f => Bracket(v, e) = SubSeq(v, 1, Len(v) - 1)
    BY BracketOf, Zenon
  <2>. HIDE DEF d, e, f, l
  <2>5. s \in Seq(Name) /\ s # <<>> /\ s[Len(s)] = l /\ SubSeq(s, 1, Len(s) - 1) = Append(r, f)
    BY <2>2
  <2>. HIDE DEF s
  <2>6. Bracket(s, d) = Append(r, f)
    BY <2>3, <2>5, Zenon
  <2>. DEFINE t == Append(r, f)
  <2>7. t \in Seq(Name) /\ t # <<>> /\ t[Len(t)] = f /\ SubSeq(t, 1, Len(t) - 1) = r
    BY <2>2
  <2>. HIDE DEF t
  <2>8. Bracket(t, e) = r
    BY <2>4, <2>7, Zenon
  <2>9. x = <<d, e>>
    BY <1>2, Zenon DEF d, e
  <2>10. Len(x) # 1
    <3>. HIDE DEF x
    <3>. QED
      BY <2>9
  <2>11. Names(api) = <<f, l>>
    BY <2>10, Zenon DEF Names, f, l, Even
  <2>12. OpenIn(log \o <<d, e>>) = Bracket(Bracket(s, d), e)
    <3>1. OpenIn(log) = s
      BY <2>11, Zenon DEF s
    <3>2. OpenIn(log \o <<d, e>>) = Bracket(Bracket(OpenIn(log), d), e)
      BY <2>1, TwoEntriesMore, Zenon
    <3>. QED
      BY <3>1, <3>2, Zenon
  <2>. QED
    BY <2>6, <2>8, <2>9, <2>12, Zenon DEF t
<1>3. 1 # 0 /\ 1 \in {0, 1}
  OBVIOUS
<1>. QED
  BY <1>1, <1>2, <1>3, EmitShape, Zenon

\* What is emitted are entries.
LEMMA EmitIsEntries ==
  ASSUME NEW log \in Seq(Entry), NEW api \in Apis, NEW order \in {0, 1}
  PROVE  log \o util_emit_log(api, order) \in Seq(Entry)
<1>. DEFINE x == util_emit_log(api, order)
<1>1. ASSUME NEW e \in Entry, x = <<e>> PROVE log \o x \in Seq(Entry)
  <2>. HIDE DEF x
  <2>. QED
    BY <1>1
<1>2. ASSUME NEW d \in Entry, NEW e \in Entry, x = <<d, e>> PROVE log \o x \in Seq(Entry)
  <2>. HIDE DEF x
  <2>. QED
    BY <1>2
<1>3. /\ <<"library_too_long">> \in Entry /\ <<"function_too_long">> \in Entry
      /\ <<"func", api, 0>> \in Entry /\ <<"lib", api, 0>> \in Entry
      /\ <<"func", api, 1>> \in Entry /\ <<"lib", api, 1>> \in Entry
  <2>1. <<"library_too_long">> \in Entry /\ <<"function_too_long">> \in Entry
    BY Zenon DEF Entry
  <2>2. \A k \in {"func", "lib"}, o \in {0, 1} : <<k, api, o>> \in Entry
    BY DEF Entry
  <2>. QED
    BY <2>1, <2>2, Zenon
<1>. HIDE DEF x
<1>4. \/ x = <<<<"library_too_long">>>>
      \/ x = <<<<"function_too_long">>>>
      \/ x = <<<<"func", api, 0>>, <<"lib", api, 0>>>>
      \/ x = <<<<"lib", api, 1>>, <<"func", api, 1>>>>
  BY EmitShape, Zenon DEF x
<1>. QED
  BY <1>1, <1>2, <1>3, <1>4, Zenon DEF x

\* What util_init finds out.
Found ==
  [valgrind |-> Flag(tool # "none"), memcheck |-> Flag(tool = "memcheck"),
   drd |-> Flag(tool = "drd"), helgrind |-> Flag(tool = "helgrind"),
   drd_or_hg |-> Flag(tool = "helgrind") + Flag(tool = "drd"),
   pmemcheck |-> Flag(tool = "pmemcheck"),
   Pmreorder_emit |-> IF tool # "none" THEN PMREORDER_EMIT_LOG ELSE 0,
   Pagesize |-> PAGESIZE, Mmap_align |-> PAGESIZE]

\* util_init asks for each tool in turn, and has it right at its end.
LEMMA InitFinds ==
  ASSUME tool \in Tools, util_init
  PROVE  On' = Found
<1>. DEFINE v == Answer("RUNNING_ON_VALGRIND")
<1>1. v = (IF tool = "none" THEN 0 ELSE 1)
  BY DEF Answer
<1>2. Answer("GET_VBITS") = (IF tool = "memcheck" THEN 3 ELSE 0)
  BY DEF Answer
<1>3. Answer("DRD_THREADID") = (IF tool = "drd" THEN 1 ELSE 0)
  BY DEF Answer
<1>4. Answer("GET_ABITS") = (IF tool = "helgrind" THEN 4 ELSE -2)
  BY DEF Answer
<1>5. Answer("IS_PMEM_MAPPING") = (IF tool = "pmemcheck" THEN 1 ELSE 0)
  BY DEF Answer
<1>6. /\ v # 0 <=> tool # "none"
      /\ v = Flag(tool # "none")
  BY <1>1 DEF Flag
<1>7. /\ v # 0 /\ Answer("GET_VBITS") # 0 <=> tool = "memcheck"
      /\ v # 0 /\ Answer("DRD_THREADID") # 0 <=> tool = "drd"
      /\ v # 0 /\ Answer("GET_ABITS") # -2 <=> tool = "helgrind"
      /\ v # 0 /\ Answer("IS_PMEM_MAPPING") # 0 <=> tool = "pmemcheck"
  <2>. HIDE DEF v
  <2>. QED
    BY <1>2, <1>3, <1>4, <1>5, <1>6
<1>8. /\ Flag(v # 0 /\ Answer("GET_VBITS") # 0) = Flag(tool = "memcheck")
      /\ Flag(v # 0 /\ Answer("DRD_THREADID") # 0) = Flag(tool = "drd")
      /\ Flag(v # 0 /\ Answer("GET_ABITS") # -2) = Flag(tool = "helgrind")
      /\ Flag(v # 0 /\ Answer("IS_PMEM_MAPPING") # 0) = Flag(tool = "pmemcheck")
  BY <1>7, Zenon DEF Flag
<1>9. (IF v # 0 THEN PMREORDER_EMIT_LOG ELSE 0) = (IF tool # "none" THEN PMREORDER_EMIT_LOG ELSE 0)
  BY <1>6, Zenon
<1>. QED
  BY <1>6, <1>8, <1>9, Zenon DEF util_init, Found

\* What is found is what a request needs.
LEMMA FoundUnderstands ==
  ASSUME tool \in Tools
  PROVE  /\ Found.drd_or_hg # 0 <=> tool \in Understood_by("hg_drd")
         /\ Found.pmemcheck # 0 <=> tool \in Understood_by("pmemcheck")
         /\ Found.memcheck # 0 <=> tool \in Understood_by("memcheck")
         /\ Found.valgrind # 0 <=> tool \in Understood_by("reporting")
         /\ Off.drd_or_hg = 0 /\ Off.pmemcheck = 0 /\ Off.memcheck = 0 /\ Off.valgrind = 0
<1>1. /\ Understood_by("hg_drd") = {"drd", "helgrind"}
      /\ Understood_by("pmemcheck") = {"pmemcheck"}
      /\ Understood_by("memcheck") = {"memcheck"}
      /\ Understood_by("reporting") = Tools \ {"none"}
  BY DEF Understood_by
<1>2. /\ Found.drd_or_hg = Flag(tool = "helgrind") + Flag(tool = "drd")
      /\ Found.pmemcheck = Flag(tool = "pmemcheck")
      /\ Found.memcheck = Flag(tool = "memcheck")
      /\ Found.valgrind = Flag(tool # "none")
  BY DEF Found
<1>3. Off.drd_or_hg = 0 /\ Off.pmemcheck = 0 /\ Off.memcheck = 0 /\ Off.valgrind = 0
  BY DEF Off
<1>. QED
  BY <1>1, <1>2, <1>3 DEF Flag

ToolsInv ==
  /\ tool \in Tools /\ ready \in BOOLEAN /\ uneven \in BOOLEAN
  /\ emitted \in Seq(Entry) /\ inside \in Seq(Apis)
  /\ On = IF ready THEN Found ELSE Off
  /\ inside # <<>> => On.pmemcheck # 0
  /\ ~uneven => /\ \A i \in 1..Len(inside) : Even(inside[i])
                /\ OpenIn(emitted) = NamesIn(inside)

\* Whether a request is passed on follows from what runs and was found.
LEMMA PassedOn ==
  ASSUME ToolsInv
  PROVE  /\ On.drd_or_hg # 0 <=> ready /\ tool \in Understood_by("hg_drd")
         /\ On.pmemcheck # 0 <=> ready /\ tool \in Understood_by("pmemcheck")
         /\ On.memcheck # 0 <=> ready /\ tool \in Understood_by("memcheck")
         /\ On.valgrind # 0 <=> ready /\ tool \in Understood_by("reporting")
  BY FoundUnderstands, Zenon DEF ToolsInv

\* An annotation is passed on to a tool that understands it.
LEMMA AnnotationUnderstood ==
  ASSUME ToolsInv, NEW kind, NEW flag, flag # 0 <=> ready /\ tool \in Understood_by(kind),
         Annotate(kind, flag)
  PROVE  RequestsUnderstood'
<1>1. last' = <<kind, flag # 0, ready>> /\ tool' = tool
  BY Zenon DEF Annotate
<1>2. last'[1] = kind /\ last'[2] = (flag # 0) /\ last'[3] = ready
  BY <1>1
<1>3. ready \in BOOLEAN
  BY Zenon DEF ToolsInv
<1>4. last'[2] => tool' \in Understood_by(last'[1])
  BY <1>1, <1>2, Zenon
<1>5. last'[3] => last'[2] = (tool' \in Understood_by(last'[1]))
  <2>. SUFFICES ASSUME ready PROVE (flag # 0) = (tool \in Understood_by(kind))
    BY <1>1, <1>2, Zenon
  <2>1. (flag # 0) <=> (tool \in Understood_by(kind))
    BY Zenon
  <2>. QED
    BY <2>1
<1>. QED
  BY <1>4, <1>5, Zenon DEF RequestsUnderstood

\* Where nothing of the state is touched but last.
LEMMA ToolsInvKept ==
  ASSUME ToolsInv, UNCHANGED <<tool, On, ready, emitted, inside, uneven>>
  PROVE  ToolsInv'
  BY Zenon DEF ToolsInv, Found

\* A call that begins is the last one that has not ended.
LEMMA ToolsBegin ==
  ASSUME ToolsInv, NEW api \in Apis, Begin(api)
  PROVE  ToolsInv'
<1>. DEFINE x == util_emit_log(api, 0)
<1>1. /\ tool \in Tools /\ ready \in BOOLEAN /\ uneven \in BOOLEAN
      /\ emitted \in Seq(Entry) /\ inside \in Seq(Apis)
      /\ On = IF ready THEN Found ELSE Off
  BY Zenon DEF ToolsInv
<1>2. /\ emitted' = emitted \o x /\ inside' = Append(inside, api) /\ On.pmemcheck # 0
      /\ uneven' = (uneven \/ ~Even(api)) /\ tool' = tool /\ On' = On /\ ready' = ready
  BY Zenon DEF Begin, Emit, Even
<1>3. emitted' \in Seq(Entry)
  <2>1. 0 \in {0, 1}
    OBVIOUS
  <2>. QED
    BY <1>1, <1>2, <2>1, EmitIsEntries, Zenon
<1>4. /\ inside' \in Seq(Apis) /\ Len(inside') = Len(inside) + 1
      /\ inside'[Len(inside) + 1] = api
      /\ \A i \in 1..Len(inside) : inside'[i] = inside[i]
      /\ \A i \in 1..(Len(inside) + 1) : i \in 1..Len(inside) \/ i = Len(inside) + 1
  <2>. DEFINE L == Append(inside, api)
  <2>1. /\ L \in Seq(Apis) /\ Len(L) = Len(inside) + 1 /\ L[Len(inside) + 1] = api
        /\ \A i \in 1..Len(inside) : L[i] = inside[i]
        /\ \A i \in 1..(Len(inside) + 1) : i \in 1..Len(inside) \/ i = Len(inside) + 1
    BY <1>1, OneLonger
  <2>2. inside' = L
    BY <1>2, Zenon
  <2>. HIDE DEF L
  <2>. QED
    BY <2>1, <2>2, ZenonT(30)
<1>5. ASSUME ~uneven'
      PROVE  /\ \A i \in 1..Len(inside') : Even(inside'[i])
             /\ OpenIn(emitted') = NamesIn(inside')
  <2>1. ~uneven /\ Even(api)
    BY <1>2, <1>5, Zenon
  <2>2. (\A i \in 1..Len(inside) : Even(inside[i])) /\ OpenIn(emitted) = NamesIn(inside)
    BY <2>1, Zenon DEF ToolsInv
  <2>3. \A i \in 1..Len(inside') : Even(inside'[i])
    BY <1>4, <2>1, <2>2, Zenon
  <2>4. NamesIn(inside) \in Seq(Name)
    BY <1>1, NamesInAreNames, Zenon
  <2>5. OpenIn(emitted \o x) = NamesIn(inside) \o Names(api)
    BY <1>1, <2>2, <2>4, BeginOpens, Zenon
  <2>6. NamesIn(Append(inside, api)) = NamesIn(inside) \o Names(api)
    BY <1>1, OneCallMore, Zenon
  <2>7. OpenIn(emitted') = OpenIn(emitted \o x) /\ NamesIn(inside') = NamesIn(Append(inside, api))
    BY <1>2, Zenon
  <2>. QED
    BY <2>3, <2>5, <2>6, <2>7, Zenon
<1>6. uneven' \in BOOLEAN
  BY <1>2, Zenon
<1>. QED
  BY <1>1, <1>2, <1>3, <1>4, <1>5, <1>6, Zenon DEF ToolsInv, Found

\* A call that ends was the last one that had not ended.
LEMMA ToolsEnd ==
  ASSUME ToolsInv, End
  PROVE  ToolsInv'
<1>. DEFINE k == Len(inside)
            api == inside[k]
            rest == SubSeq(inside, 1, k - 1)
            x == util_emit_log(api, 1)
<1>1. /\ tool \in Tools /\ ready \in BOOLEAN /\ uneven \in BOOLEAN
      /\ emitted \in Seq(Entry) /\ inside \in Seq(Apis)
      /\ On = IF ready THEN Found ELSE Off
      /\ inside # <<>> /\ On.pmemcheck # 0
  BY Zenon DEF ToolsInv, End
<1>2. /\ emitted' = emitted \o x /\ inside' = rest
      /\ uneven' = uneven /\ tool' = tool /\ On' = On /\ ready' = ready
  BY <1>1, Zenon DEF End, Emit
<1>3. /\ k \in Nat /\ k \in 1..k /\ api \in Apis
      /\ rest \in Seq(Apis) /\ Len(rest) = k - 1 /\ inside = Append(rest, api)
      /\ \A i \in 1..(k - 1) : rest[i] = inside[i] /\ i \in 1..k
  BY <1>1, FrontAndLast, Zenon
<1>. HIDE DEF rest, api
<1>4. emitted' \in Seq(Entry)
  <2>1. 1 \in {0, 1}
    OBVIOUS
  <2>. QED
    BY <1>1, <1>2, <1>3, <2>1, EmitIsEntries, Zenon
<1>5. ASSUME ~uneven
      PROVE  /\ \A i \in 1..Len(rest) : Even(rest[i])
             /\ OpenIn(emitted \o x) = NamesIn(rest)
  <2>1. (\A i \in 1..k : Even(inside[i])) /\ OpenIn(emitted) = NamesIn(inside)
    BY <1>5, Zenon DEF ToolsInv
  <2>2. Even(api)
    BY <1>3, <2>1, Zenon DEF api
  <2>3. \A i \in 1..Len(rest) : Even(rest[i])
    BY <1>3, <2>1, Zenon
  <2>4. NamesIn(rest) \in Seq(Name)
    BY <1>3, NamesInAreNames, Zenon
  <2>5. OpenIn(emitted) = NamesIn(rest) \o Names(api)
    <3>1. NamesIn(Append(rest, api)) = NamesIn(rest) \o Names(api)
      BY <1>3, OneCallMore, Zenon
    <3>. QED
      BY <1>3, <2>1, <3>1, Zenon
  <2>6. OpenIn(emitted \o x) = NamesIn(rest)
    BY <1>1, <1>3, <2>2, <2>4, <2>5, EndCloses, Zenon
  <2>. QED
    BY <2>3, <2>6, Zenon
<1>. HIDE DEF x
<1>. QED
  BY <1>1, <1>2, <1>3, <1>4, <1>5, Zenon DEF ToolsInv, Found

\* A Valgrind tool is passed the requests it understands and no other, and the log
\* of pmemcheck is well bracketed (util_emit_log, valgrind_internal.h): for every
\* set of logged functions and every depth of calls.
THEOREM ToolsAreServed == ISpec => []ToolsServed
<1>. DEFINE Inv == ToolsInv /\ RequestsUnderstood
<1>1. IInit => Inv
  <2>. SUFFICES ASSUME IInit PROVE Inv
    BY Zenon
  <2>1. /\ tool \in Tools /\ On = Off /\ ready = FALSE /\ last = <<>> /\ emitted = <<>>
        /\ inside = <<>> /\ uneven = FALSE
    BY Zenon DEF IInit
  <2>2. <<>> \in Seq(Entry) /\ <<>> \in Seq(Apis) /\ Len(<<>>) = 0 /\ 1..0 = {}
    OBVIOUS
  <2>3. OpenIn(<<>>) = <<>> /\ NamesIn(<<>>) = <<>>
    BY <2>2, BracketsSteps, NamesOfSteps, Zenon DEF OpenIn, NamesIn
  <2>4. ToolsInv
    BY <2>1, <2>2, <2>3, Zenon DEF ToolsInv
  <2>. QED
    BY <2>1, <2>4, Zenon DEF RequestsUnderstood
<1>2. Inv /\ [INext]_ivars => Inv'
  <2>. SUFFICES ASSUME ToolsInv, RequestsUnderstood, [INext]_ivars PROVE Inv'
    BY Zenon
  <2>1. CASE UNCHANGED ivars
    BY <2>1, ToolsInvKept, Zenon DEF ivars, RequestsUnderstood
  <2>2. ASSUME UNCHANGED <<tool, last>> PROVE RequestsUnderstood'
    BY <2>2, Zenon DEF RequestsUnderstood
  <2>3. CASE util_init
    <3>1. On' = Found /\ ready' = TRUE /\ UNCHANGED <<tool, last, emitted, inside, uneven>>
      BY <2>3, InitFinds, Zenon DEF ToolsInv, util_init
    <3>2. Found' = Found
      BY <3>1, Zenon DEF Found
    <3>3. On.pmemcheck # 0 => On' = On
      BY <3>1, PassedOn, Zenon DEF ToolsInv
    <3>4. ToolsInv'
      BY <3>1, <3>2, <3>3, Zenon DEF ToolsInv
    <3>. QED
      BY <2>2, <3>1, <3>4, Zenon
  <2>4. ASSUME NEW kind, NEW flag, flag # 0 <=> ready /\ tool \in Understood_by(kind),
               Annotate(kind, flag)
        PROVE  Inv'
    <3>1. UNCHANGED <<tool, On, ready, emitted, inside, uneven>>
      BY <2>4, Zenon DEF Annotate
    <3>. QED
      BY <2>4, <3>1, ToolsInvKept, AnnotationUnderstood, Zenon
  <2>5. CASE VALGRIND_ANNOTATE \/ VALGRIND_PMEM \/ VALGRIND_DO_MEMPOOL \/ VALGRIND_DO_ERROR_REPORTING
    BY <2>4, <2>5, PassedOn, Zenon
       DEF VALGRIND_ANNOTATE, VALGRIND_PMEM, VALGRIND_DO_MEMPOOL, VALGRIND_DO_ERROR_REPORTING
  <2>6. ASSUME NEW api \in Apis, Begin(api) PROVE Inv'
    <3>1. UNCHANGED <<tool, last>>
      BY <2>6, Zenon DEF Begin
    <3>. QED
      BY <2>2, <2>6, <3>1, ToolsBegin, Zenon
  <2>7. CASE End
    <3>1. UNCHANGED <<tool, last>>
      BY <2>7, Zenon DEF End
    <3>. QED
      BY <2>2, <2>7, <3>1, ToolsEnd, Zenon
  <2>. QED
    BY <2>1, <2>3, <2>5, <2>6, <2>7, Zenon DEF INext
<1>3. Inv => ToolsServed
  BY Zenon DEF ToolsInv, ToolsServed, LogBracketed, OpenIn, NamesIn
<1>. QED
  BY <1>1, <1>2, <1>3, PTL DEF ISpec

==============================================================================
