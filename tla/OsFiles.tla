------------------------------- MODULE OsFiles -------------------------------
(***************************************************************************)
(* Routines that acquire several things one after the other, each of       *)
(* which may fail: the Windows os_open, os_fopen, os_unlink, os_mkstemp,   *)
(* util_tmpfile and the conversions to and from UTF-8 they rest on, the    *)
(* hardware check of util_dml.c and util_localtime; the wrappers of        *)
(* sys_util.h that end the process on a failure; and what the example      *)
(* programs basic and basic-async acquire. A function is the set of its    *)
(* outcomes: whether it succeeded, or ended the process, its error, and    *)
(* which things are still held when it returns.                            *)
(***************************************************************************)
EXTENDS Integers, FiniteSets

VARIABLES
  function,   \* the function that was called, or "none"
  outcome     \* how it returned

fvars == <<function, outcome>>

\* errno of the caller is "old".
Start == [ok |-> TRUE, fatal |-> FALSE, errno |-> "old", live |-> {}]
FInit == function = "none" /\ outcome = Start

Hold(o, x) == [o EXCEPT !.live = @ \cup {x}]
Free(o, x) == [o EXCEPT !.live = @ \ {x}]
Fail(o, err) == [o EXCEPT !.ok = FALSE, !.errno = err]

\* A step of the C library or of the system: it gives x, or fails.
Acquire(o, x, err) == {Hold(o, x), Fail(o, err)}

\* The rest of a function after the outcomes so far: a failure returns.
Then(outcomes, Rest(_)) == UNION {IF o.ok THEN Rest(o) ELSE {o} : o \in outcomes}

------------------------------------------------------------------------------
\* util_toUTF16 and util_toUTF8: the size, memory, and the conversion, whose
\* failure frees the memory.
util_toUTF16(o, x) ==
  {Fail(o, "EINVAL")}
  \cup Then(Acquire(o, x, "ENOMEM"), LAMBDA a : {a, Fail(Free(a, x), "EINVAL")})

util_toUTF8(o, x) ==
  {Fail(o, "EINVAL")}
  \cup Then(Acquire(o, x, "ENOMEM"), LAMBDA a : {a, Fail(Free(a, x), "EINVAL")})

\* The conversions into a buffer of the caller, which may be too small for what
\* the first call of the system says is needed.
util_toUTF16_buff(o, fits) == IF fits THEN {o, Fail(o, "EINVAL")} ELSE {Fail(o, "EINVAL")}
util_toUTF8_buff(o, fits) == IF fits THEN {o, Fail(o, "EINVAL")} ELSE {Fail(o, "EINVAL")}

\* Reading the byte order mark may change errno, which is put back.
skipBOM(o) == {[e EXCEPT !.errno = o.errno] : e \in {o, [o EXCEPT !.errno = "EIO"]}}

os_open ==
  Then(util_toUTF16(Start, "path"), LAMBDA p :
    Then({Free(r, "path") : r \in Acquire(p, "fd", "ENOENT")}, LAMBDA r : skipBOM(r)))

os_unlink ==
  Then(util_toUTF16(Start, "path"), LAMBDA p :
    {Free(p, "path"), Fail(Free(p, "path"), "ENOENT")})

\* Mutant: the path is kept when the mode cannot be converted.
os_fopen_keeps ==
  Then(util_toUTF16(Start, "path"), LAMBDA p :
    Then(util_toUTF16(p, "wmode"), LAMBDA w :
      Then({Free(Free(r, "path"), "wmode") : r \in Acquire(w, "fd", "ENOENT")},
           LAMBDA r : skipBOM(r))))

os_fopen ==
  Then(util_toUTF16(Start, "path"), LAMBDA p :
    Then({IF w.ok THEN w ELSE Free(w, "path") : w \in util_toUTF16(p, "wmode")}, LAMBDA w :
      Then({Free(Free(r, "path"), "wmode") : r \in Acquire(w, "fd", "ENOENT")},
           LAMBDA r : skipBOM(r))))

\* _wmktemp makes the name in place; the number that is appended always fits.
os_mkstemp(o) ==
  Then(util_toUTF16(o, "utemp"), LAMBDA u :
    Then({u, Fail(Free(u, "utemp"), "EEXIST")}, LAMBDA v :
      Then({Free(n, "utemp") : n \in Acquire(v, "npath", "ENOMEM")}, LAMBDA n :
        {Free(r, "npath") : r \in Acquire(n, "fd", "EEXIST")})))

\* The Windows util_tmpfile; the name always fits its memory.
util_tmpfile_windows ==
  Then(Acquire(Start, "fullname", "ENOMEM"), LAMBDA f :
    {Free(r, "fullname") : r \in os_mkstemp(f)})

\* util_dml_check_hw_available: "fd" stands for the answer that DML can be used.
\* The memory it asks for is taken to be there, as the code does; a job that was
\* initialised is finalised, whether it could be executed or not.
util_dml_check_hw_available ==
  LET end(o) == Free(Free(o, "dst"), "buf")
      job(o) == Free(Free(o, "init"), "job")
      bufs == Hold(Hold(Start, "buf"), "dst")
  IN  {Fail(Start, "no movdir64b")}
      \cup {end(r) : r \in
             {Fail(bufs, "dml_get_job_size")}
             \cup {job(e) : e \in Then(Acquire(Hold(bufs, "job"), "init", "dml_init_job"),
                                       LAMBDA i : Acquire(i, "fd", "dml_execute_job"))}}

\* localtime_r may set errno when it succeeds.
util_localtime ==
  {[e EXCEPT !.errno = IF e.ok THEN "old" ELSE @] :
     e \in {Start, [Start EXCEPT !.errno = "ENOENT"], Fail(Start, "EOVERFLOW")}}

------------------------------------------------------------------------------
\* sys_util.h: an error of the wrapped function (tmp) goes to errno and ends the
\* process, unless it is one the caller is told of.
Wrapped(tmp, told) ==
  CASE tmp = "0" -> Start
    [] tmp \in told -> Fail(Start, tmp)
    [] OTHER -> [Fail(Start, tmp) EXCEPT !.fatal = TRUE]

\* util_mutex_init, util_mutex_destroy and util_mutex_lock
util_mutex == {Wrapped(tmp, {}) : tmp \in {"0", "EAGAIN", "EBUSY", "EINVAL"}}
util_mutex_trylock == {Wrapped(tmp, {"EBUSY"}) : tmp \in {"0", "EBUSY", "EINVAL"}}
util_mutex_unlock == {Wrapped(tmp, {}) : tmp \in {"0", "EPERM"}}
\* util_rwlock_init, _rdlock, _wrlock, _unlock and _destroy
util_rwlock == {Wrapped(tmp, {}) : tmp \in {"0", "EAGAIN", "EDEADLK", "EPERM", "EBUSY"}}
util_spin_init == {Wrapped(tmp, {"EAGAIN", "ENOMEM"}) : tmp \in {"0", "EAGAIN", "ENOMEM"}}
\* util_spin_destroy, util_spin_lock and util_spin_unlock
util_spin == {Wrapped(tmp, {}) : tmp \in {"0", "EBUSY", "EDEADLK", "EINVAL"}}
\* util_semaphore_init and util_semaphore_destroy
util_semaphore == {Wrapped(tmp, {}) : tmp \in {"0", "EINVAL", "ENOSYS"}}

------------------------------------------------------------------------------
\* The example programs; their exit status is the error. runtime_new is taken to
\* succeed, as they do, and every future is waited for before its buffers go.
\* x is acquired, or what is held already is given up.
OrEnd(o, x, held) == {IF r.ok THEN r ELSE [r EXCEPT !.live = @ \ held] : r \in Acquire(o, x, "1")}

src_dst_new(o) ==
  Then(OrEnd(o, "src1", {}), LAMBDA a :
    Then(OrEnd(a, "dst1", {"src1"}), LAMBDA b :
      Then(OrEnd(b, "src2", {"src1", "dst1"}), LAMBDA c :
        OrEnd(c, "dst2", {"src1", "dst1", "src2"}))))
src_dst_del(o) == [o EXCEPT !.live = @ \ {"src1", "dst1", "src2", "dst2"}]

\* basic-async: two turns of the loop.
basic_async_main ==
  Then(OrEnd(Hold(Start, "r"), "dmt", {"r"}), LAMBDA d :
    {Free(Free(e, "dmt"), "r") : e \in
       Then(src_dst_new(d), LAMBDA s : {src_dst_del(t) : t \in src_dst_new(src_dst_del(s))})})

basic_main ==
  Then(OrEnd(Start, "buf_a", {}), LAMBDA a :
    Then(OrEnd(a, "buf_b", {"buf_a"}), LAMBDA b :
      Then(OrEnd(Hold(b, "r"), "dmt", {"buf_a", "buf_b", "r"}), LAMBDA d :
        {[d EXCEPT !.live = @ \ {"r", "dmt", "buf_a", "buf_b"}]})))

Routines ==
  [util_mutex |-> util_mutex, util_mutex_unlock |-> util_mutex_unlock,
   util_mutex_trylock |-> util_mutex_trylock, util_rwlock |-> util_rwlock,
   util_spin_init |-> util_spin_init, util_spin |-> util_spin,
   util_semaphore |-> util_semaphore,
   os_open |-> os_open, os_fopen |-> os_fopen, os_unlink |-> os_unlink,
   os_mkstemp |-> os_mkstemp(Start), util_tmpfile |-> util_tmpfile_windows,
   util_toUTF8 |-> {Free(o, "str") : o \in util_toUTF8(Start, "str")},
   util_toUTF16_buff |-> util_toUTF16_buff(Start, TRUE) \cup util_toUTF16_buff(Start, FALSE),
   util_toUTF8_buff |-> util_toUTF8_buff(Start, TRUE) \cup util_toUTF8_buff(Start, FALSE),
   util_dml_check_hw_available |-> util_dml_check_hw_available,
   util_localtime |-> util_localtime,
   basic_async |-> basic_async_main, basic |-> basic_main]

Invoke ==
  /\ function = "none"
  /\ \E f \in DOMAIN Routines : function' = f /\ outcome' \in Routines[f]

FNext == Invoke
FSpec == FInit /\ [][FNext]_fvars

------------------------------------------------------------------------------
\* Whatever fails on the way, nothing is held when a function returns but what
\* it returns, and that only when it succeeded; a failure leaves errno set and a
\* success leaves it alone, the calls inside that change it notwithstanding. The
\* wrappers that "never fail from caller perspective" return only if they did
\* not fail.
FailsClean ==
  function # "none" =>
    /\ outcome.live \subseteq {"fd"}
    /\ ~outcome.ok => outcome.live = {} /\ outcome.errno # "old"
    /\ outcome.ok => outcome.errno = "old" /\ ~outcome.fatal
    /\ function \in {"util_mutex", "util_mutex_unlock", "util_rwlock", "util_spin", "util_semaphore"}
         => outcome.ok \/ outcome.fatal
=============================================================================
