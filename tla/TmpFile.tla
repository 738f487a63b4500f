------------------------------- MODULE TmpFile -------------------------------
(***************************************************************************)
(* util_tmpfile of util_posix.c by several threads: a file without a name, *)
(* or, where the file system has no O_TMPFILE, a file whose name is        *)
(* removed again. The file creation mask belongs to the process, the mask  *)
(* of blocked signals to the thread. A signal that arrives ends the        *)
(* process.                                                                *)
(***************************************************************************)
EXTENDS Integers

CONSTANTS
  Callers,
  TmpFiles     \* calls of util_tmpfile that are followed, in all

USER == "022"       \* the mask the program has set
PRIVATE == "077"    \* S_IRWXG | S_IRWXO

VARIABLES
  mask,      \* umask of the process
  prev,      \* prev_umask
  blocked,   \* signals of the thread are blocked
  named,     \* callers whose file has a name in the directory
  fd,        \* what the callers hold: "none", "open"
  tmp_errno,     \* "ok", or the reason of the last failure
  at,        \* where each caller is
  calls,
  overlap,   \* two threads have been between umask and umask
  killed     \* callers whose thread a signal has hit

pvars == <<mask, prev, blocked, named, fd, tmp_errno, at, calls, overlap, killed>>

PInit ==
  /\ mask = USER /\ prev = [c \in Callers |-> USER]
  /\ blocked = [c \in Callers |-> FALSE]
  /\ named = {} /\ fd = [c \in Callers |-> "none"]
  /\ tmp_errno = [c \in Callers |-> "ok"]
  /\ at = [c \in Callers |-> "out"]
  /\ calls = 0 /\ overlap = FALSE /\ killed = {}

Moves(c, from, to) == killed = {} /\ at[c] = from /\ at' = [at EXCEPT ![c] = to]

\* os_open with O_TMPFILE: the file, an error, or EOPNOTSUPP, after which the
\* file is made by util_tmpfile_mkstemp.
util_tmpfile(c) ==
  /\ calls < TmpFiles /\ calls' = calls + 1
  /\ fd[c] = "none"
  /\ \/ Moves(c, "out", "out") /\ fd' = [fd EXCEPT ![c] = "open"] /\ UNCHANGED tmp_errno
     \/ Moves(c, "out", "out") /\ tmp_errno' = [tmp_errno EXCEPT ![c] = "open"] /\ UNCHANGED fd
     \/ Moves(c, "out", "block") /\ UNCHANGED <<fd, tmp_errno>>
  /\ UNCHANGED <<mask, prev, blocked, named, overlap, killed>>

\* Mutant: no signals are blocked.
tmpfile_block_not(c) ==
  /\ Moves(c, "block", "umask")
  /\ UNCHANGED <<mask, prev, blocked, named, fd, tmp_errno, calls, overlap, killed>>

\* sigprocmask(SIG_BLOCK)
tmpfile_block(c) ==
  /\ Moves(c, "block", "umask")
  /\ blocked' = [blocked EXCEPT ![c] = TRUE]
  /\ UNCHANGED <<mask, prev, named, fd, tmp_errno, calls, overlap, killed>>

\* umask(S_IRWXG | S_IRWXO)
tmpfile_umask(c) ==
  /\ Moves(c, "umask", "mkstemp")
  /\ prev' = [prev EXCEPT ![c] = mask] /\ mask' = PRIVATE
  /\ overlap' = (overlap \/ \E o \in Callers \ {c} : at[o] \in {"mkstemp", "restore"})
  /\ UNCHANGED <<blocked, named, fd, tmp_errno, calls, killed>>

\* os_mkstemp
tmpfile_mkstemp(c) ==
  /\ Moves(c, "mkstemp", "restore")
  /\ \/ named' = named \cup {c} /\ fd' = [fd EXCEPT ![c] = "open"] /\ UNCHANGED tmp_errno
     \/ tmp_errno' = [tmp_errno EXCEPT ![c] = "mkstemp"] /\ UNCHANGED <<named, fd>>
  /\ UNCHANGED <<mask, prev, blocked, calls, overlap, killed>>

\* umask(prev_umask), then on to os_unlink or to err.
tmpfile_restore(c) ==
  /\ Moves(c, "restore", IF fd[c] = "open" THEN "unlink" ELSE "unblock")
  /\ mask' = prev[c]
  /\ UNCHANGED <<prev, blocked, named, fd, tmp_errno, calls, overlap, killed>>

\* os_unlink
tmpfile_unlink(c) ==
  /\ Moves(c, "unlink", "unblock")
  /\ named' = named \ {c}
  /\ UNCHANGED <<mask, prev, blocked, fd, tmp_errno, calls, overlap, killed>>

\* sigprocmask(SIG_SETMASK, &oldset), on either path.
tmpfile_unblock(c) ==
  /\ Moves(c, "unblock", "out")
  /\ blocked' = [blocked EXCEPT ![c] = FALSE]
  /\ UNCHANGED <<mask, prev, named, fd, tmp_errno, calls, overlap, killed>>

\* The caller closes its file.
os_close(c) ==
  /\ at[c] = "out" /\ killed = {} /\ fd[c] = "open"
  /\ fd' = [fd EXCEPT ![c] = "none"]
  /\ UNCHANGED <<mask, prev, blocked, named, tmp_errno, at, calls, overlap, killed>>

\* A signal is delivered to the thread.
Signal(c) ==
  /\ killed = {} /\ ~blocked[c]
  /\ killed' = {c}
  /\ UNCHANGED <<mask, prev, blocked, named, fd, tmp_errno, at, calls, overlap>>

PNext == \E c \in Callers :
  \/ util_tmpfile(c) \/ tmpfile_block(c) \/ tmpfile_umask(c) \/ tmpfile_mkstemp(c)
  \/ tmpfile_restore(c) \/ tmpfile_unlink(c) \/ tmpfile_unblock(c)
  \/ os_close(c) \/ Signal(c)

PSpec == PInit /\ [][PNext]_pvars

------------------------------------------------------------------------------
\* A temporary file with a name does not survive a signal that hits the thread
\* which makes it: signals are blocked for as long as the name exists.
NoNameLeft == killed \cap named = {}

\* "Restore previous settings once the file is created" (the comment of
\* util_windows.c on what util_posix.c does): outside the calls the process has
\* its own file creation mask, unless two calls overlapped.
MaskRestored ==
  (\A c \in Callers : at[c] \notin {"mkstemp", "restore"}) /\ ~overlap => mask = USER

\* util_tmpfile leaves nothing behind but the file: no name, no changed mask.
LeavesNoTrace == NoNameLeft /\ MaskRestored
=============================================================================
