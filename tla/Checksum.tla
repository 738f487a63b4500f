------------------------------- MODULE Checksum ------------------------------
(***************************************************************************)
(* The Fletcher64-like checksum of util.c, on words of w bits instead of   *)
(* 32: it is inserted into a range, the range changes in at most one word, *)
(* and is checked. Offsets are in words, counted from 0 as in the code.    *)
(***************************************************************************)
EXTENDS Integers, Sequences

CONSTANTS
  Modulus,    \* 2 to the width of a word
  Words       \* words of the range

\* The range has room for the checksum.
ASSUME ChecksumAssumption == Modulus \in Nat \ {0} /\ Words \in Nat /\ Words >= 2

Word == 0..(Modulus - 1)

VARIABLES
  mem,      \* the range
  csump,    \* offset of the checksum, two words
  skip,     \* skip_off, 0 for none
  phase,    \* "new", "inserted", "checked"
  changed,  \* offset of the word that was changed, or -1
  valid     \* what util_checksum has answered

cvars == <<mem, csump, skip, phase, changed, valid>>

\* The checksum is inside the range and on one side of skip_off.
CInit ==
  /\ mem \in [1..Words -> Word]
  /\ csump \in 0..(Words - 2)
  /\ skip \in {s \in 0..Words : s = 0 \/ csump + 1 < s \/ csump >= s}
  /\ phase = "new" /\ changed = -1 /\ valid = FALSE

\* Where skipping starts.
Skip(len, off) == IF off # 0 THEN off ELSE len

\* lo32 and hi32 after one more word.
AddWord(sum, x) ==
  LET lo == (sum[1] + x) % Modulus
  IN  <<lo, (sum[2] + lo) % Modulus>>

\* The loop of util_checksum_compute, from the offset p and the sums: at the
\* checksum, and from skip on, two words are taken as zeros in one turn, also
\* when only one is left.
Turn(m, c, s, p, sum) ==
  IF p >= Len(m) THEN <<p, sum>>
  ELSE IF p = c \/ p >= s THEN <<p + 2, AddWord(AddWord(sum, 0), 0)>>
  ELSE <<p + 1, AddWord(sum, m[p + 1])>>

\* Where the loop is after each turn. A turn takes a word at least.
AfterTurns(m, c, s) ==
  LET after[n \in 0..Len(m)] ==
        IF n = 0 THEN <<0, <<0, 0>>>> ELSE Turn(m, c, s, after[n - 1][1], after[n - 1][2])
  IN  after

\* Mutant: the place of the checksum is not taken as zeros.
util_checksum_compute_whole(m, c, off) == AfterTurns(m, -1, Skip(Len(m), off))[Len(m)][2]

util_checksum_compute(m, c, off) == AfterTurns(m, c, Skip(Len(m), off))[Len(m)][2]

\* util_checksum_seq goes on from the checksum of the buffer before.
AfterWords(m, csum) ==
  LET after[n \in 0..Len(m)] == IF n = 0 THEN csum ELSE AddWord(after[n - 1], m[n])
  IN  after

util_checksum_seq(m, csum) == AfterWords(m, csum)[Len(m)]

\* util_checksum with insert
util_checksum_insert ==
  /\ phase = "new"
  /\ LET sum == util_checksum_compute(mem, csump, skip)
     IN  mem' = [mem EXCEPT ![csump + 1] = sum[1], ![csump + 2] = sum[2]]
  /\ phase' = "inserted"
  /\ UNCHANGED <<csump, skip, changed, valid>>

\* One word of the range changes.
Change ==
  /\ phase = "inserted" /\ changed = -1
  /\ \E i \in 1..Words, x \in Word :
       x # mem[i] /\ mem' = [mem EXCEPT ![i] = x] /\ changed' = i - 1
  /\ UNCHANGED <<csump, skip, phase, valid>>

\* util_checksum without insert
util_checksum_check ==
  /\ phase = "inserted"
  /\ valid' = (util_checksum_compute(mem, csump, skip) = <<mem[csump + 1], mem[csump + 2]>>)
  /\ phase' = "checked"
  /\ UNCHANGED <<mem, csump, skip, changed>>

CNext == util_checksum_insert \/ Change \/ util_checksum_check
CSpec == CInit /\ [][CNext]_cvars

------------------------------------------------------------------------------
\* A range is valid after its checksum was inserted, and no longer once any one
\* of its words has changed, the checksum's included, except for the words that
\* are skipped.
DetectsChange ==
  phase = "checked" =>
    (valid <=> \/ changed = -1
               \/ /\ changed >= Skip(Words, skip)
                  /\ changed \notin {csump, csump + 1})

\* The range with zeros in place of what does not count.
Counted ==
  [i \in 1..Words |->
     IF i - 1 \in {csump, csump + 1} \/ i - 1 >= Skip(Words, skip) THEN 0 ELSE mem[i]]

\* The sums of the first elements of a sequence.
Totals(f) ==
  LET total[k \in 0..Len(f)] == IF k = 0 THEN 0 ELSE total[k - 1] + f[k]
  IN  total

\* The reference: the sum of the words, and their sum weighted by the distance
\* to the end.
Weighted(f) == [i \in 1..Len(f) |-> (Len(f) - i + 1) * f[i]]
Fletcher(f) == <<Totals(f)[Len(f)] % Modulus, Totals(Weighted(f))[Len(f)] % Modulus>>

\* util_checksum_compute gives the reference checksum of what counts, with an even
\* number of words skipped at the end; util_checksum_seq gives that of the whole
\* range, also when it is taken in two pieces.
IsFletcher == phase = "inserted" =>
  /\ (Words - Skip(Words, skip)) % 2 = 0 =>
       util_checksum_compute(mem, csump, skip) = Fletcher(Counted)
  /\ \A k \in 0..Words :
       util_checksum_seq(SubSeq(mem, k + 1, Words),
                         util_checksum_seq(SubSeq(mem, 1, k), <<0, 0>>)) = Fletcher(mem)

\* util_checksum and util_checksum_seq compute one function, and it notices a
\* change of any word that it covers.
ChecksumRight == DetectsChange /\ IsFletcher
=============================================================================
