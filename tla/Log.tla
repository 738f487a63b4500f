--------------------------------- MODULE Log ---------------------------------
(***************************************************************************)
(* The log of out.c by one thread (the message of each thread is in        *)
(* ErrorMsg): initialisation from the environment, messages with their     *)
(* level, errors, fatal errors, assertions, and the end of the log. Of a   *)
(* text only the pieces count that it is put together from. The program    *)
(* sets errno between the calls.                                           *)
(***************************************************************************)
EXTENDS Integers, Sequences

CONSTANTS
  Levels,      \* values of the variable for the level, as atoi reads them
  MaxMessages  \* calls that are followed

VARIABLES
  DEBUG,       \* the build
  once,        \* out_init has been here
  Log_level,
  Out_fp,      \* "NULL", "stderr" or "file"
  open,        \* the log file is open
  Print_func,  \* "out_print_func" or "user"
  errno,
  failure,     \* the last failure of the program's own calls
  sent,        \* where the last text went: <<stream, pieces>>, or <<>>
  told,        \* the last error message, <<>> if none
  dead,        \* abort() was called
  count

lvars == <<DEBUG, once, Log_level, Out_fp, open, Print_func, errno, failure, sent, told, dead, count>>

LInit ==
  /\ DEBUG \in BOOLEAN /\ once = FALSE
  /\ Log_level = 0 /\ Out_fp = "NULL" /\ open = FALSE
  /\ Print_func = "out_print_func" /\ errno = "ok" /\ failure = "ok"
  /\ sent = <<>> /\ told = <<>> /\ dead = FALSE /\ count = 0

Step == ~dead /\ count < MaxMessages /\ count' = count + 1

\* A message: its prefix is there if it comes with a place in the source, "!"
\* before its format adds the text of errno, and Vsnprintf may fail on either.
Formats == {"text", "!text"}
ErrorText(fmt, e) == IF fmt = "!text" THEN <<": ", e>> ELSE <<>>

\* The pieces out_common prints, and which of the two calls fails, if any.
Pieces(file, fmt, e, fails, suffix) ==
  IF fails = "prefix" THEN <<"out_snprintf failed">>
  ELSE IF fails = "text" THEN <<"Vsnprintf failed">>
  ELSE (IF file THEN <<"prefix">> ELSE <<>>) \o <<"text">> \o ErrorText(fmt, e) \o suffix

\* What may fail.
Failing(file) == {"none", "text"} \cup IF file THEN {"prefix"} ELSE {}

\* Print: the stream the text goes to.
Print_to(out_fp) == IF Print_func = "user" THEN "user" ELSE out_fp

\* Mutant: a failure returns without restoring errno.
out_common_leaves(file, fmt, fails, suffix) ==
  /\ sent' = <<Print_to(Out_fp), Pieces(file, fmt, errno, fails, suffix)>>
  /\ errno' = IF fails = "none" THEN errno ELSE "EIO"

\* Formatting and printing change errno; it is restored on every path.
out_common(file, fmt, fails, suffix) ==
  /\ sent' = <<Print_to(Out_fp), Pieces(file, fmt, errno, fails, suffix)>>
  /\ UNCHANGED errno

\* The message of the thread, and in a debug build the log from level 1 on,
\* unless the message could not be formatted.
out_error(fmt, fails) ==
  /\ told' = IF fails = "text" THEN <<"Vsnprintf failed">>
             ELSE <<"text">> \o ErrorText(fmt, errno)
  /\ sent' = IF DEBUG /\ Log_level >= 1 /\ fails # "text"
             THEN <<Print_to(Out_fp),
                    IF fails = "prefix" THEN <<"out_snprintf failed">>
                    ELSE <<"prefix">> \o told' \o <<"\n">>>>
             ELSE sent
  /\ UNCHANGED errno

------------------------------------------------------------------------------
\* out_init: level and file are read in a debug build only. A level below 0 is
\* 0. A file that cannot be opened ends the process. The last of the lines that
\* are logged at level 1 remains.
out_init ==
  /\ ~once /\ once' = TRUE
  /\ \E level \in Levels \cup {0}, file \in {"none", "opens", "fails"} :
       IF ~DEBUG
       THEN /\ Out_fp' = "stderr" /\ UNCHANGED <<Log_level, open, sent, dead>>
       ELSE /\ Log_level' = IF level < 0 THEN 0 ELSE level
            /\ dead' = (file = "fails")
            /\ open' = (file = "opens")
            /\ Out_fp' = CASE file = "none" -> "stderr" [] file = "opens" -> "file"
                           [] file = "fails" -> "NULL"
            /\ sent' = IF file # "fails" /\ Log_level' >= 1
                       THEN <<Print_to(Out_fp'), <<"prefix", "text", "\n">>>> ELSE sent
  /\ Step /\ UNCHANGED <<DEBUG, Print_func, errno, failure, told>>

\* The calls after the first.
out_init_again ==
  /\ once /\ Step
  /\ UNCHANGED <<DEBUG, once, Log_level, Out_fp, open, Print_func, errno, failure, sent, told, dead>>

out_fini ==
  /\ IF Out_fp = "file" THEN open' = FALSE /\ Out_fp' = "stderr" ELSE UNCHANGED <<open, Out_fp>>
  /\ Step /\ UNCHANGED <<DEBUG, once, Log_level, Print_func, errno, failure, sent, told, dead>>

\* It logs at level 3 before it changes anything; NULL is the default.
out_set_print_func(print_func) ==
  /\ IF DEBUG /\ Log_level >= 3
     THEN \E fails \in Failing(TRUE) : out_common(TRUE, "text", fails, <<"\n">>)
     ELSE UNCHANGED <<errno, sent>>
  /\ Print_func' = IF print_func = "NULL" THEN "out_print_func" ELSE print_func
  /\ Step /\ UNCHANGED <<DEBUG, once, Log_level, Out_fp, open, failure, told, dead>>

\* Likewise. Which function formats the texts makes no difference here: any may
\* fail.
out_set_vsnprintf_func ==
  /\ IF DEBUG /\ Log_level >= 3
     THEN \E fails \in Failing(TRUE) : out_common(TRUE, "text", fails, <<"\n">>)
     ELSE UNCHANGED <<errno, sent>>
  /\ Step /\ UNCHANGED <<DEBUG, once, Log_level, Out_fp, open, Print_func, failure, told, dead>>

------------------------------------------------------------------------------
\* A call of the program fails.
Failure(e) ==
  /\ errno' = e /\ failure' = e
  /\ Step /\ UNCHANGED <<DEBUG, once, Log_level, Out_fp, open, Print_func, sent, told, dead>>

Same == UNCHANGED <<DEBUG, once, Log_level, Out_fp, open, Print_func, failure>>

\* Below the level nothing is printed.
out_log(level, fmt) ==
  IF Log_level >= level
    THEN \E fails \in Failing(TRUE) : out_common(TRUE, fmt, fails, <<"\n">>)
    ELSE UNCHANGED <<errno, sent>>

out_nonl(level, fmt) ==
  IF Log_level >= level
    THEN \E fails \in Failing(FALSE) : out_common(FALSE, fmt, fails, <<>>)
    ELSE UNCHANGED <<errno, sent>>

\* Prints whatever the level, and ends the process.
out_fatal(fmt) ==
  /\ \E fails \in Failing(TRUE) : out_common(TRUE, fmt, fails, <<"\n">>)
  /\ dead' = TRUE

\* In a release build the macros stand for functions that do nothing, and for
\* one that only ends the process.
discard == UNCHANGED <<errno, sent>>
out_fatal_abort == dead' = TRUE /\ UNCHANGED <<errno, sent>>

LOG(level, fmt) ==
  /\ IF DEBUG THEN out_log(level, fmt) ELSE discard
  /\ Step /\ Same /\ UNCHANGED <<told, dead>>

LOG_NONL(level, fmt) ==
  /\ IF DEBUG THEN out_nonl(level, fmt) ELSE discard
  /\ Step /\ Same /\ UNCHANGED <<told, dead>>

out(fmt) ==
  /\ \E fails \in Failing(FALSE) : out_common(FALSE, fmt, fails, <<"\n">>)
  /\ Step /\ Same /\ UNCHANGED <<told, dead>>

\* out_err
ERR(fmt) ==
  /\ \E fails \in Failing(TRUE) : out_error(fmt, fails)
  /\ Step /\ Same /\ UNCHANGED dead

FATAL(fmt) ==
  /\ IF DEBUG THEN out_fatal(fmt) ELSE out_fatal_abort
  /\ Step /\ Same /\ UNCHANGED told

\* The condition is not even looked at in a release build.
ASSERT(cnd) ==
  /\ IF DEBUG /\ ~cnd THEN out_fatal("text") ELSE discard /\ UNCHANGED dead
  /\ Step /\ Same /\ UNCHANGED told

LNext ==
  \/ out_init \/ out_init_again \/ out_fini
  \/ \E e \in {"e1", "e2"} : Failure(e)
  \/ \E f \in {"NULL", "user"} : out_set_print_func(f)
  \/ out_set_vsnprintf_func
  \/ \E fmt \in Formats :
       \/ \E level \in {1, 3} : LOG(level, fmt) \/ LOG_NONL(level, fmt)
       \/ out(fmt) \/ ERR(fmt) \/ FATAL(fmt)
  \/ \E cnd \in BOOLEAN : ASSERT(cnd)

LSpec == LInit /\ [][LNext]_lvars

------------------------------------------------------------------------------
\* Logging does not disturb the code it is put into: whatever was logged in
\* between, errno is the one of the program's last failure, so that the text a
\* later "!" adds is the text of that failure.
ErrnoKept == errno = failure

\* Once the log is initialised, every text of the default print function goes to
\* a stream that is open, whatever has been closed and initialised again since.
GoesSomewhere == once /\ ~dead => Out_fp = "stderr" \/ (Out_fp = "file" /\ open)

\* The log neither disturbs the program nor loses its stream.
LogUnobtrusive == ErrnoKept /\ GoesSomewhere
=============================================================================
