--------------------------- MODULE Instrumentation ---------------------------
(***************************************************************************)
(* Running under a Valgrind tool: util_init finds out which tool it is,    *)
(* the macros of valgrind_internal.h pass a request on to a tool that was  *)
(* found, and util_emit_log writes the begin and the end of calls to the   *)
(* log of pmemcheck. How a tool answers requests is external.              *)
(***************************************************************************)
EXTENDS Integers, Sequences

CONSTANTS
  Apis,        \* functions that are logged: [lib, func], the lengths of names
  MaxDepth     \* calls inside one another that are followed

PMREORDER_EMIT_LOG == 1     \* the environment variable
PAGESIZE == 4096            \* sysconf(_SC_PAGESIZE)

Tools == {"none", "memcheck", "drd", "helgrind", "pmemcheck", "other"}

VARIABLES
  tool,        \* what the program runs under
  On,          \* _On_valgrind, _On_memcheck and so on, and Pagesize
  ready,       \* util_init has been called
  last,        \* the last annotation, if it was passed on, and ready then
  emitted,     \* what pmemcheck has been given for its log
  inside,      \* calls that have begun and not ended
  uneven       \* a name was used whose end fits where its beginning does not

ivars == <<tool, On, ready, last, emitted, inside, uneven>>

Off == [valgrind |-> 0, memcheck |-> 0, drd |-> 0, helgrind |-> 0, drd_or_hg |-> 0,
        pmemcheck |-> 0, Pmreorder_emit |-> 0, Pagesize |-> 0, Mmap_align |-> 0]

IInit ==
  /\ tool \in Tools /\ On = Off /\ ready = FALSE
  /\ last = <<>> /\ emitted = <<>> /\ inside = <<>> /\ uneven = FALSE

\* The answer of a tool to a request, the default when it does not know it.
Answer(request) ==
  CASE request = "RUNNING_ON_VALGRIND" -> IF tool = "none" THEN 0 ELSE 1
    [] request = "GET_VBITS" -> IF tool = "memcheck" THEN 3 ELSE 0
    [] request = "DRD_THREADID" -> IF tool = "drd" THEN 1 ELSE 0
    [] request = "GET_ABITS" -> IF tool = "helgrind" THEN 4 ELSE -2
    [] request = "IS_PMEM_MAPPING" -> IF tool = "pmemcheck" THEN 1 ELSE 0

Flag(b) == IF b THEN 1 ELSE 0

util_init ==
  /\ LET v == Answer("RUNNING_ON_VALGRIND")
         hg == Flag(v # 0 /\ Answer("GET_ABITS") # -2)
         drd == Flag(v # 0 /\ Answer("DRD_THREADID") # 0)
     IN  On' = [valgrind |-> v,
                memcheck |-> Flag(v # 0 /\ Answer("GET_VBITS") # 0),
                drd |-> drd, helgrind |-> hg, drd_or_hg |-> hg + drd,
                pmemcheck |-> Flag(v # 0 /\ Answer("IS_PMEM_MAPPING") # 0),
                Pmreorder_emit |-> IF v # 0 THEN PMREORDER_EMIT_LOG ELSE 0,
                Pagesize |-> PAGESIZE, Mmap_align |-> PAGESIZE]
  /\ ready' = TRUE
  /\ UNCHANGED <<tool, last, emitted, inside, uneven>>

------------------------------------------------------------------------------
\* The macros, by the flag that guards them.
Annotate(kind, flag) ==
  /\ last' = <<kind, flag # 0, ready>>
  /\ UNCHANGED <<tool, On, ready, emitted, inside, uneven>>

VALGRIND_ANNOTATE == Annotate("hg_drd", On.drd_or_hg)
VALGRIND_PMEM == Annotate("pmemcheck", On.pmemcheck)
VALGRIND_DO_MEMPOOL == Annotate("memcheck", On.memcheck)
VALGRIND_DO_ERROR_REPORTING == Annotate("reporting", On.valgrind)

LIB_LOG_LEN == 20
FUNC_LOG_LEN == 50
SuffixLen(order) == IF order = 0 THEN 6 ELSE 4      \* ".BEGIN" and ".END"

\* Mutant: both orders emit the function first.
util_emit_log_order(api, order) ==
  IF api.lib + SuffixLen(order) + 1 > LIB_LOG_LEN THEN <<<<"library_too_long">>>>
  ELSE IF api.func + SuffixLen(order) + 1 > FUNC_LOG_LEN
    THEN <<<<"function_too_long">>>>
  ELSE <<<<"func", api, order>>, <<"lib", api, order>>>>

\* What is emitted for the beginning (order 0) and the end of a call.
util_emit_log(api, order) ==
  IF api.lib + SuffixLen(order) + 1 > LIB_LOG_LEN THEN <<<<"library_too_long">>>>
  ELSE IF api.func + SuffixLen(order) + 1 > FUNC_LOG_LEN
    THEN <<<<"function_too_long">>>>
  ELSE IF order = 0 THEN <<<<"func", api, order>>, <<"lib", api, order>>>>
  ELSE <<<<"lib", api, order>>, <<"func", api, order>>>>

\* VALGRIND_EMIT_LOG passes on what there is only to pmemcheck.
Emit(api, order) ==
  emitted' = IF On.pmemcheck # 0 THEN emitted \o util_emit_log(api, order) ELSE emitted

Begin(api) ==
  /\ Len(inside) < MaxDepth /\ On.pmemcheck # 0
  /\ Emit(api, 0) /\ inside' = Append(inside, api)
  /\ uneven' = (uneven \/ Len(util_emit_log(api, 0)) # Len(util_emit_log(api, 1)))
  /\ UNCHANGED <<tool, On, ready, last>>

End ==
  /\ inside # <<>>
  /\ Emit(inside[Len(inside)], 1) /\ inside' = SubSeq(inside, 1, Len(inside) - 1)
  /\ UNCHANGED <<tool, On, ready, last, uneven>>

INext ==
  \/ util_init
  \/ VALGRIND_ANNOTATE \/ VALGRIND_PMEM \/ VALGRIND_DO_MEMPOOL \/ VALGRIND_DO_ERROR_REPORTING
  \/ Len(emitted) < 3 * MaxDepth /\ \E api \in Apis : Begin(api)
  \/ End

ISpec == IInit /\ [][INext]_ivars

------------------------------------------------------------------------------
Understood_by(kind) ==
  CASE kind = "hg_drd" -> {"drd", "helgrind"}
    [] kind = "pmemcheck" -> {"pmemcheck"}
    [] kind = "memcheck" -> {"memcheck"}
    [] kind = "reporting" -> Tools \ {"none"}

\* A request reaches a tool that understands it and no other; and after util_init
\* no annotation for the tool that is running is lost.
RequestsUnderstood ==
  last # <<>> =>
    /\ last[2] => tool \in Understood_by(last[1])
    /\ last[3] => last[2] = (tool \in Understood_by(last[1]))

\* The log read as brackets: the names that are open after one entry more,
\* Broken when an end does not close the last beginning.
Broken == <<<<"broken">>>>
Bracket(s, e) ==
  IF Len(e) = 1 \/ s = Broken THEN s
  ELSE IF e[3] = 0 THEN Append(s, <<e[1], e[2]>>)
  ELSE IF s # <<>> /\ s[Len(s)] = <<e[1], e[2]>> THEN SubSeq(s, 1, Len(s) - 1)
  ELSE Broken

Brackets(log) ==
  LET after[n \in 0..Len(log)] == IF n = 0 THEN <<>> ELSE Bracket(after[n - 1], log[n])
  IN  after

\* The names a call leaves in the log, if they fit, and those of calls in their
\* order.
Names(api) ==
  IF Len(util_emit_log(api, 0)) = 1 THEN <<>> ELSE <<<<"func", api>>, <<"lib", api>>>>
NamesOf(calls) ==
  LET of[n \in 0..Len(calls)] == IF n = 0 THEN <<>> ELSE of[n - 1] \o Names(calls[n])
  IN  of

\* The log is well bracketed: what is open in it are the calls that have not
\* ended, in their order, and those only whose names fit; unless a name was used
\* that fits with ".END" and not with ".BEGIN".
LogBracketed ==
  ~uneven => Brackets(emitted)[Len(emitted)] = NamesOf(inside)[Len(inside)]

\* A Valgrind tool gets what it understands, in an order it can make sense of.
ToolsServed == RequestsUnderstood /\ LogBracketed
=============================================================================
