------------------------------ MODULE UtilOps --------------------------------
(***************************************************************************)
(* The functions of util.h, util.c and of the Windows layer that compute a *)
(* value from their arguments, on machine words of Bits bits: alignment    *)
(* and bit operations, sizes, bounded copies, clocks and timeouts. A step  *)
(* calls one of them; the properties compare what it returned with what it *)
(* is for.                                                                 *)
(***************************************************************************)
EXTENDS Integers, Sequences, FiniteSets, SequencesExt, Bitwise

CONSTANTS
  Bits,         \* width of size_t, uint64_t and DWORD
  UnsignedBits, \* width of unsigned
  LongBits,     \* widths of unsigned long: the one of unsigned, and a greater
  Kibi, Kilo,   \* 1024 and 1000
  MaxLen,       \* length of the strings and ranges
  MsPerSec,     \* 1000
  NsPerMs,      \* 1000000
  MaxTime       \* last instant, in nanoseconds

VARIABLES call, ret     \* the call, <<function, arguments...>>, and its result

uvars == <<call, ret>>

NOTHING == <<>>
UInit == call = NOTHING /\ ret = NOTHING

Returns(c, r) == call = NOTHING /\ call' = c /\ ret' = r

Limit == 2 ^ Bits
Wrap(n) == n % Limit
Complement(n) == Limit - 1 - n

------------------------------------------------------------------------------
\* Alignment and bits.

ALIGN_UP(size, align) == Wrap(size + align - 1) & Complement(align - 1)
ALIGN_DOWN(size, align) == size & Complement(align - 1)
IS_PAGE_ALIGNED(size, align) == size & (align - 1) = 0

util_is_pow2(v) == v # 0 /\ v & (v - 1) = 0

\* The sum is formed in an unsigned long.
util_div_ceil(a, b, long) == (((a + b - 1) % 2 ^ long) \div b) % 2 ^ UnsignedBits

\* A field of bytes, indexed from 0.
util_setbit(b, i) == [b EXCEPT ![i \div 8] = @ | 2 ^ (i % 8)]
util_clrbit(b, i) == [b EXCEPT ![i \div 8] = @ & (255 - 2 ^ (i % 8))]

BitSet(v) == {i \in 0..(Bits - 1) : v & 2 ^ i # 0}
util_popcount(v) == Cardinality(BitSet(v))
util_lssb_index(v) == CHOOSE i \in BitSet(v) : \A j \in BitSet(v) : i <= j
util_mssb_index(v) == CHOOSE i \in BitSet(v) : \A j \in BitSet(v) : j <= i

align ==
  \E size \in 0..(Limit - 1), a \in {2 ^ k : k \in 0..(Bits - 1)} :
    Returns(<<"align", size, a>>,
          <<ALIGN_UP(size, a), ALIGN_DOWN(size, a), IS_PAGE_ALIGNED(size, a)>>)

div_ceil ==
  \E a \in 0..(2 ^ UnsignedBits - 1), b \in 1..(2 ^ UnsignedBits - 1), long \in LongBits :
    Returns(<<"div_ceil", a, b, long>>, util_div_ceil(a, b, long))

setbit ==
  \E b \in [0..1 -> {0, 1, 128, 170, 255}], i \in 0..15 :
    Returns(<<"setbit", b, i>>, <<util_setbit(b, i), util_clrbit(b, i)>>)

scanbits ==
  \E v \in 1..(Limit - 1) :
    Returns(<<"scanbits", v>>,
          <<util_is_pow2(v), util_popcount(v), util_lssb_index(v), util_mssb_index(v)>>)

------------------------------------------------------------------------------
\* Ranges and strings: sequences of characters, ended by NUL where the C
\* string ends before the memory does.
NUL == "0"
Char == {"x", "y"}
String == SeqOf(Char, MaxLen)
StrLen(mem) == (CHOOSE i \in 1..Len(mem) : mem[i] = NUL /\ \A j \in 1..(i - 1) : mem[j] # NUL) - 1
StrIn(mem) == SubSeq(mem, 1, StrLen(mem))

\* memcmp(a, a + 1, len - 1) compares each byte with the one behind it.
util_is_zeroed(mem) ==
  \/ mem = <<>>
  \/ mem[1] = NUL /\ \A i \in 1..(Len(mem) - 1) : mem[i] = mem[i + 1]

\* strncpy: cut at max bytes, or filled up with NUL.
strncpy(src, max) == [i \in 1..max |-> IF i <= Len(src) THEN src[i] ELSE NUL]

\* The result, and dst.
util_safe_strcpy(src, max) ==
  IF max = 0 THEN <<-1, <<>>>>
  ELSE <<IF strncpy(src, max)[max] = NUL THEN 0 ELSE -1, strncpy(src, max)>>

\* What vsnprintf answers, an error or the length that would be needed, and
\* errno: the result and errno.
util_snprintf(n, size, errno) ==
  IF n < 0 THEN <<-1, IF errno = "0" THEN "EIO" ELSE errno>>
  ELSE IF n >= size THEN <<-1, "ENOBUFS">>
  ELSE <<n, errno>>

\* malloc(strlen(s1) + strlen(s2) + 1), strcpy, strcat
util_concat_str(s1, s2) == s1 \o s2 \o <<NUL>>

\* The loop that cuts '\r' and '\n' off a system message ("y" stands for both):
\* it ends before the first character, which it never looks at.
util_strwinerror(msg) ==
  LET last == {i \in 2..Len(msg) : msg[i] # "y"}
  IN  IF last = {} THEN msg ELSE SubSeq(msg, 1, CHOOSE i \in last : \A j \in last : j <= i)

\* readlink fills at most pathlen bytes and does not end them; the terminating
\* NUL goes behind, past the buffer when it is full. When there is no link
\* (NOTHING), "unknown" is cut to the buffer.
util_getexecname(link, pathlen) ==
  IF link = NOTHING THEN [strncpy(<<"x", "x", "x">>, pathlen) EXCEPT ![pathlen] = NUL]
  ELSE Append(SubSeq(link, 1, IF Len(link) < pathlen THEN Len(link) ELSE pathlen), NUL)

is_zeroed ==
  \E mem \in SeqOf({NUL, "x", "y"}, MaxLen) : Returns(<<"is_zeroed", mem>>, util_is_zeroed(mem))

strcopy ==
  \E src \in String, max \in 0..(MaxLen + 2) :
    Returns(<<"safe_strcpy", src, max>>, util_safe_strcpy(src, max))

print ==
  \E n \in -1..MaxLen, size \in 0..MaxLen, errno \in {"0", "EINVAL"} :
    Returns(<<"snprintf", n, size, errno>>, util_snprintf(n, size, errno))

concat ==
  \E s1 \in String, s2 \in String : Returns(<<"concat", s1, s2>>, util_concat_str(s1, s2))

winerror ==
  \E msg \in String \ {<<>>} : Returns(<<"winerror", msg>>, util_strwinerror(msg))

execname ==
  \E link \in String, pathlen \in 1..MaxLen :
    Returns(<<"execname", link, pathlen>>, util_getexecname(link, pathlen))

------------------------------------------------------------------------------
\* Sizes. A string is scanned as nothing, a number, or a number and a unit.
SizeUnits ==
  [u \in {"B", "K", "M", "KiB", "MiB", "kB", "MB"} |->
     CASE u = "B" -> 1
       [] u \in {"K", "KiB"} -> Kibi
       [] u \in {"M", "MiB"} -> Kibi * Kibi
       [] u = "kB" -> Kilo
       [] u = "MB" -> Kilo * Kilo]

\* The result, and *sizep.
util_parse_size(scanned, sizep) ==
  IF Len(scanned) = 0 THEN <<-1, sizep>>
  ELSE IF Len(scanned) = 1 THEN <<0, scanned[1]>>
  ELSE IF scanned[2] \in DOMAIN SizeUnits THEN <<0, Wrap(scanned[1] * SizeUnits[scanned[2]])>>
  ELSE <<-1, sizep>>

parse_size ==
  \E scanned \in {<<>>} \cup {<<n>> : n \in 0..9}
                 \cup {<<n, u>> : n \in 0..9, u \in DOMAIN SizeUnits \cup {"mB"}} :
    Returns(<<"parse_size", scanned>>, util_parse_size(scanned, Limit))

------------------------------------------------------------------------------
\* Time. A timespec is [tv_sec, tv_nsec]; an instant is in nanoseconds.
NsPerSec == MsPerSec * NsPerMs
Timespec(t) == [tv_sec |-> t \div NsPerSec, tv_nsec |-> t % NsPerSec]

\* Mutant: a deadline that has passed is not looked for.
get_rel_wait_past(now, abstime) ==
  Wrap(abstime.tv_sec * MsPerSec + abstime.tv_nsec \div NsPerMs - now \div NsPerMs)

\* _ftime64_s gives the time in whole milliseconds; the difference becomes a
\* DWORD.
get_rel_wait(now, abstime) ==
  LET now_ms == now \div NsPerMs
      ms == abstime.tv_sec * MsPerSec + abstime.tv_nsec \div NsPerMs
  IN  IF ms - now_ms < 0 THEN 0 ELSE Wrap(ms - now_ms)

\* CLOCK_MONOTONIC: the counter and its frequency.
os_clock_gettime(count, frequency) ==
  [tv_sec |-> count \div frequency,
   tv_nsec |-> ((count % frequency) * NsPerSec) \div frequency]

\* It is some time in the first two seconds.
rel_wait ==
  \E now \in 0..(2 * NsPerSec), deadline \in 0..MaxTime :
    Returns(<<"rel_wait", now, deadline>>, get_rel_wait(now, Timespec(deadline)))

clock ==
  \E count \in 0..MaxTime, frequency \in 1..NsPerSec :
    Returns(<<"clock", count, frequency>>,
            <<os_clock_gettime(count, frequency), os_clock_gettime(count + 1, frequency)>>)

------------------------------------------------------------------------------
\* os_writev gathers the pieces and writes until all is written, each time from
\* the beginning of what it gathered: what is in the file when _write takes at
\* most `atmost` bytes. ENOMEM is 12.
os_writev(pieces, memory, atmost) ==
  LET buf == FlattenSeq(pieces)
      Written[size \in Nat] ==
        LET n == IF size < atmost THEN size ELSE atmost
        IN  IF size = 0 THEN <<>> ELSE SubSeq(buf, 1, n) \o Written[size - n]
  IN  IF ~memory THEN <<12, <<>>>> ELSE <<Len(buf), Written[Len(buf)]>>

writev ==
  \E pieces \in SeqOf({<<>>, <<"x">>, <<"y">>, <<"x", "y">>}, 3),
     memory \in BOOLEAN, atmost \in {2, 6} :
    Returns(<<"writev", pieces, memory, atmost>>, os_writev(pieces, memory, atmost))

\* The feature bits are looked at only if the processor has the leaf.
is_cpu_feature_present(highest, func, set, bit) == highest >= func /\ bit \in set

\* The codes that have an entry, by errno; the table has 16000 entries, and one
\* that is 0 is missing.
Lasterror_to_errno ==
  [EACCES |-> {5, 12, 167}, ENOENT |-> {2, 3}, EINVAL |-> {1, 6, 87, 487, 1132},
   ENOMEM |-> {8, 14}, ENOTSUP |-> {50}, EMFILE |-> {4}]

util_lasterror_to_errno(err) ==
  LET found == {e \in DOMAIN Lasterror_to_errno : err \in Lasterror_to_errno[e]}
  IN  IF err >= 16000 THEN "-1"
      ELSE IF err = 0 THEN "0"
      ELSE IF found = {} THEN "-1" ELSE CHOOSE e \in found : TRUE

\* sys_siglist has 33 entries.
os_strsignal(sig) ==
  IF sig >= 0 /\ sig < 33 THEN <<"siglist", sig>>
  ELSE IF sig >= 34 /\ sig <= 64 THEN <<"Real-time signal">>
  ELSE <<"Unknown signal">>

lookup ==
  \/ \E highest \in 0..8, set \in SUBSET {28, 29} :
       Returns(<<"cpu", highest, set>>, is_cpu_feature_present(highest, 7, set, 28))
  \/ \E err \in 0..100 \cup {15999, 16000} :
       Returns(<<"lasterror", err>>, util_lasterror_to_errno(err))
  \/ \E sig \in -1..66 : Returns(<<"signal", sig>>, os_strsignal(sig))

UNext ==
  \/ align \/ div_ceil \/ setbit \/ scanbits
  \/ is_zeroed \/ strcopy \/ print \/ concat \/ winerror \/ execname
  \/ parse_size \/ rel_wait \/ clock \/ writev \/ lookup

USpec == UInit /\ [][UNext]_uvars

------------------------------------------------------------------------------
Called(fn) == call # NOTHING /\ call[1] = fn

\* ALIGN_UP is the least multiple that is not smaller, unless that one does not
\* fit into the word, and then 0; ALIGN_DOWN the greatest that is not greater.
\* util_div_ceil is exact where an unsigned long is wider than an unsigned, and
\* elsewhere unless a + b - 1 overflows. Setting and clearing a bit changes that
\* bit and no other, and the bit scans agree with one another.
BitsExact ==
  /\ Called("align") =>
       LET size == call[2] a == call[3] up == ret[1] down == ret[2] IN
       /\ up % a = 0 /\ IF size > Limit - a THEN up = 0 ELSE up - size \in 0..(a - 1)
       /\ down % a = 0 /\ size - down \in 0..(a - 1)
       /\ ret[3] <=> up = size \/ (up = 0 /\ size = 0)
  /\ Called("div_ceil") =>
       LET a == call[2] b == call[3] IN
       call[4] > UnsignedBits \/ a + b - 1 < 2 ^ UnsignedBits
         => ret * b >= a /\ (ret - 1) * b < a
  /\ Called("setbit") =>
       \A j \in 0..15 :
         LET Bit(b) == (b[j \div 8] \div 2 ^ (j % 8)) % 2 IN
         /\ Bit(ret[1]) = IF j = call[3] THEN 1 ELSE Bit(call[2])
         /\ Bit(ret[2]) = IF j = call[3] THEN 0 ELSE Bit(call[2])
  /\ Called("scanbits") =>
       /\ ret[1] <=> ret[2] = 1
       /\ 2 ^ ret[4] <= call[2] /\ call[2] < 2 ^ (ret[4] + 1)
       /\ call[2] % 2 ^ ret[3] = 0 /\ (call[2] \div 2 ^ ret[3]) % 2 = 1

\* A copy that is reported as whole is whole and ends inside its buffer, one
\* that was cut is reported; util_is_zeroed answers for all bytes; a failed
\* util_snprintf leaves errno set; a system message loses the line ends at its
\* end and nothing else, unless it has nothing else; the name of the program
\* ends inside a buffer that is longer than it.
CopiesTold ==
  /\ Called("safe_strcpy") =>
       /\ ret[1] = 0 <=> Len(call[2]) + 1 <= call[3]
       /\ ret[1] = 0 => StrIn(ret[2]) = call[2]
  /\ Called("is_zeroed") => (ret <=> \A i \in 1..Len(call[2]) : call[2][i] = NUL)
  /\ Called("snprintf") =>
       /\ ret[1] >= 0 => ret[1] = call[2] /\ ret[1] < call[3] /\ ret[2] = call[4]
       /\ ret[1] < 0 => ret[2] # "0"
  /\ Called("concat") => StrIn(ret) = call[2] \o call[3] /\ Len(ret) = StrLen(ret) + 1
  /\ Called("winerror") =>
       /\ IsPrefix(ret, call[2])
       /\ \A i \in (Len(ret) + 1)..Len(call[2]) : call[2][i] = "y"
       /\ Len(ret) < Len(call[2]) => Last(ret) # "y"
       /\ (\E i \in 2..Len(call[2]) : call[2][i] # "y") => Last(ret) # "y"
  /\ Called("execname") /\ Len(call[2]) < call[3] =>
       Len(ret) <= call[3] /\ (call[2] # NOTHING => StrIn(ret) = call[2])

\* What was not understood never looks like a success: *sizep is the number times
\* its unit when the string was understood and the product fits into a size_t,
\* and is not touched when it was not; an error code never becomes "no error";
\* a signal without a text, and a processor without the leaf, are told apart.
Understood ==
  /\ Called("parse_size") =>
       LET known == Len(call[2]) = 2 => call[2][2] \in DOMAIN SizeUnits
           unit == IF Len(call[2]) = 2 THEN SizeUnits[call[2][2]] ELSE 1
       IN  IF call[2] # <<>> /\ known
           THEN ret[1] = 0 /\ (call[2][1] * unit < Limit => ret[2] = call[2][1] * unit)
           ELSE ret = <<-1, Limit>>
  /\ Called("lasterror") => (ret = "0" <=> call[2] = 0)
  /\ Called("signal") =>
       (ret = <<"Unknown signal">> <=> call[2] \notin (0..32) \cup (34..64))
  /\ Called("cpu") => (ret => call[2] >= 7)

\* A wait with the timeout of get_rel_wait ends less than a millisecond from its
\* deadline, on either side, or at once if the deadline has passed, unless the
\* difference does not fit into a DWORD. The monotonic clock does not run back
\* and keeps its nanoseconds below a second.
WaitEnds ==
  /\ Called("rel_wait") =>
       LET now == call[2] deadline == call[3] end == now + ret * NsPerMs IN
       IF deadline < now THEN ret = 0
       ELSE (deadline - now) \div NsPerMs < Limit - 1
              => end - deadline < NsPerMs /\ deadline - end < NsPerMs
  /\ Called("clock") =>
       /\ \A i \in 1..2 : ret[i].tv_nsec \in 0..(NsPerSec - 1)
       /\ ret[1].tv_sec * NsPerSec + ret[1].tv_nsec
            <= ret[2].tv_sec * NsPerSec + ret[2].tv_nsec

\* With memory, and as long as _write takes all it is given, the file has all
\* the pieces in their order and os_writev returns their length.
WritevWhole ==
  Called("writev") /\ call[3] /\ Len(FlattenSeq(call[2])) <= call[4]
    => ret = <<Len(FlattenSeq(call[2])), FlattenSeq(call[2])>>

\* What the functions of util.h, util.c and the Windows layer return is right up
\* to the limits of their types, and where it cannot be they say so.
ReturnsRight == BitsExact /\ CopiesTold /\ Understood /\ WaitEnds /\ WritevWhole
=============================================================================
