-------------------------------- MODULE WinOs --------------------------------
(***************************************************************************)
(* State that the Windows abstraction layer keeps in the system: the       *)
(* environment (os_setenv, os_unsetenv), the lock on a file (os_flock, on  *)
(* a file whose length os_ftruncate and writing change) and the set of     *)
(* processors of a thread (os_cpu_zero, os_cpu_set). Beside the first two  *)
(* runs what the POSIX functions make of the same calls.                   *)
(***************************************************************************)
EXTENDS Integers, Sequences

CONSTANTS
  Values,       \* values of an environment variable; "" is one of them
  Owners,       \* open files that lock
  PageSize,     \* dwPageSize
  MaxLength,    \* length to which the file grows
  GroupSizes,   \* active processors of each processor group
  MaxCalls,     \* calls that are followed
  UNSET

\* A page has bytes, and a group may have no active processor.
ASSUME WinOsAssumption ==
  /\ PageSize \in Nat \ {0} /\ MaxLength \in Nat
  /\ GroupSizes \in Seq(Nat)

VARIABLES
  env, posix,   \* the variable, here and under POSIX
  emptied,      \* an empty value was stored
  length,       \* of the file
  fpos,          \* file position of each owner
  locked,       \* the bytes each owner has locked: <<first, count>>
  holds,        \* owners whose last os_flock succeeded in locking
  moved,        \* a lock on no byte or not on the first, or a change under a lock
  affinity,     \* GROUP_AFFINITY: group and mask
  asked,        \* processors added since os_cpu_zero, in order
  fatal,        \* FATAL has ended the process
  steps

wvars == <<env, posix, emptied, length, fpos, locked, holds, moved, affinity, asked, fatal, steps>>
envvars == <<env, posix, emptied>>
lockvars == <<length, fpos, locked, holds, moved>>
cpuvars == <<affinity, asked, fatal>>

WInit ==
  /\ env = UNSET /\ posix = UNSET /\ emptied = FALSE
  /\ length \in 0..MaxLength /\ fpos = [o \in Owners |-> 0]
  /\ locked = [o \in Owners |-> <<0, 0>>] /\ holds = {} /\ moved = FALSE
  /\ affinity = [group |-> 0, mask |-> {}] /\ asked = <<>> /\ fatal = FALSE
  /\ steps = 0

Call == ~fatal /\ steps < MaxCalls /\ steps' = steps + 1

------------------------------------------------------------------------------
\* _putenv_s removes the variable when the value is empty.
putenv(value) == IF value = "" THEN UNSET ELSE value

\* os_setenv and os_unsetenv of os_posix.c.
posix_setenv(value, overwrite) ==
  posix' = IF overwrite \/ posix = UNSET THEN value ELSE posix
posix_unsetenv == posix' = UNSET

os_setenv(value, overwrite) ==
  /\ env' = (IF ~overwrite /\ env # UNSET THEN env ELSE putenv(value))
  /\ posix_setenv(value, overwrite)
  /\ emptied' = (emptied \/ value = "")
  /\ Call /\ UNCHANGED <<lockvars, cpuvars>>

os_unsetenv ==
  /\ env' = putenv("") /\ posix_unsetenv
  /\ Call /\ UNCHANGED <<emptied, lockvars, cpuvars>>

------------------------------------------------------------------------------
\* The bytes os_flock works on: the first page, or the file if it is shorter.
FlockLen == IF length > PageSize THEN PageSize ELSE length

Region(o) == <<fpos[o], FlockLen>>
Bytes(region) == region[1]..(region[1] + region[2] - 1)

\* Mutant: OS_LOCK_SH locks nothing.
os_flock_lock_shared(o) ==
  /\ o \notin holds
  /\ holds' = holds \cup {o} /\ moved' = (moved \/ length = 0 \/ fpos[o] # 0)
  /\ Call /\ UNCHANGED <<length, fpos, locked, envvars, cpuvars>>

\* OS_LOCK_EX and OS_LOCK_SH alike: _locking locks from the file position on
\* and fails when any of the bytes is locked through another open file. (A
\* blocking call tries again.)
os_flock_lock(o) ==
  /\ o \notin holds
  /\ \A p \in Owners \ {o} : Bytes(locked[p]) \cap Bytes(Region(o)) = {}
  /\ locked' = [locked EXCEPT ![o] = Region(o)]
  /\ holds' = holds \cup {o} /\ moved' = (moved \/ length = 0 \/ fpos[o] # 0)
  /\ Call /\ UNCHANGED <<length, fpos, envvars, cpuvars>>

\* OS_LOCK_UN: only the very bytes that were locked can be unlocked.
os_flock_unlock(o) ==
  /\ o \in holds
  /\ locked' = [locked EXCEPT ![o] = IF @ = Region(o) THEN <<0, 0>> ELSE @]
  /\ holds' = holds \ {o}
  /\ Call /\ UNCHANGED <<length, fpos, moved, envvars, cpuvars>>

\* os_ftruncate moves the file position to the new end, also when SetEndOfFile
\* fails after that.
os_ftruncate(o, n) ==
  /\ length' \in {n, length} /\ fpos' = [fpos EXCEPT ![o] = n]
  /\ moved' = (moved \/ holds # {})
  /\ Call /\ UNCHANGED <<locked, holds, envvars, cpuvars>>

------------------------------------------------------------------------------
\* Processors before a group: sum, as the loop of os_cpu_set adds it up.
Before[group \in 0..Len(GroupSizes)] ==
  IF group = 0 THEN 0 ELSE Before[group - 1] + GroupSizes[group]

\* The loop of os_cpu_set ends at the group that has the processor, if any.
GroupOf(cpu) == {g \in 0..(Len(GroupSizes) - 1) : Before[g] <= cpu /\ cpu < Before[g + 1]}

os_cpu_zero ==
  /\ affinity' = [group |-> 0, mask |-> {}] /\ asked' = <<>>
  /\ Call /\ UNCHANGED <<fatal, envvars, lockvars>>

\* A set has processors of one group: another group's processor clears it. A
\* processor that is in no group is FATAL.
os_cpu_set(cpu) ==
  /\ asked' = Append(asked, cpu)
  /\ \/ \E g \in GroupOf(cpu) :
          /\ affinity' =
               [group |-> g,
                mask |-> (IF affinity.group # g THEN {} ELSE affinity.mask)
                           \cup {cpu - Before[g]}]
          /\ UNCHANGED fatal
     \/ GroupOf(cpu) = {} /\ fatal' = TRUE /\ UNCHANGED affinity
  /\ Call /\ UNCHANGED <<envvars, lockvars>>

WNext ==
  \/ \E v \in Values, o \in BOOLEAN : os_setenv(v, o)
  \/ os_unsetenv
  \/ \E o \in Owners : os_flock_lock(o) \/ os_flock_unlock(o)
  \/ \E o \in Owners, n \in 0..MaxLength : os_ftruncate(o, n)
  \/ os_cpu_zero
  \/ \E cpu \in 0..Before[Len(GroupSizes)] : os_cpu_set(cpu)

WSpec == WInit /\ [][WNext]_wvars

------------------------------------------------------------------------------
\* As long as no empty value is stored, os_getenv answers as under POSIX after
\* any sequence of os_setenv and os_unsetenv.
EnvAgrees == ~emptied => env = posix

\* os_flock excludes: as long as it was called at the beginning of a file that
\* was not empty, and nothing was truncated under the lock, two open files do
\* not hold the lock at once, and it is free when nobody does.
FlockExcludes ==
  ~moved => /\ \A o, p \in holds : o = p
            /\ \A o \in Owners : Bytes(locked[o]) # {} <=> o \in holds

\* The processors asked for since os_cpu_zero, and the last of them.
Asked == {asked[i] : i \in 1..Len(asked)}
LastAsked == asked[Len(asked)]

\* The processors in the set are the ones asked for since the group last
\* changed: the last one always, all of them if they are in one group, and no
\* other; a processor that exists is never fatal.
CpuSetIsAsked ==
  LET Cpus == {Before[affinity.group] + b : b \in affinity.mask} IN
  /\ fatal => LastAsked >= Before[Len(GroupSizes)]
  /\ ~fatal =>
       /\ Cpus \subseteq Asked
       /\ asked # <<>> => LastAsked \in Cpus
       /\ (\E g \in 0..(Len(GroupSizes) - 1) : \A c \in Asked : g \in GroupOf(c))
            => Cpus = Asked

\* The Windows layer keeps what the callers of the POSIX functions rely on, in
\* the environment, in the lock of a file and in the set of processors.
AsUnderPosix == EnvAgrees /\ FlockExcludes /\ CpuSetIsAsked
=============================================================================
