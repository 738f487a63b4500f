-------------------------------- MODULE MCUtil -------------------------------
(***************************************************************************)
(* The utility and operating system layer on a small instance. Its parts   *)
(* share no state: a behaviour is one of one part, the others stay in one  *)
(* of their initial states.                                                *)
(***************************************************************************)
EXTENDS Streams, TmpFile, Checksum, WinOs, UtilOps, OsFiles, Log, Instrumentation,
        Atomics, SequencesExt

VARIABLE part   \* the part that runs

Parts == {"streams", "tmpfile", "checksum", "winos", "ops", "files", "log", "valgrind", "atomics"}

vars == <<svars, pvars, cvars, wvars, uvars, fvars, lvars, ivars, avars, part>>

\* Every file of up to six bytes, and up to three after a piece of the mark.
Text_bytes == {"a", "\r", "\n"}
MCContents ==
  SeqOf(Text_bytes, 6)
  \cup {SubSeq(UTF8_BOM, 1, k) \o s : k \in 1..3, s \in SeqOf(Text_bytes, 3)}

\* Two processor groups, of two processors and of one.
MCGroupSizes == <<2, 1>>

MCLevels == {-1, 1, 3}

\* Names that fit, that fit with ".END" only, and that are too long.
MCApis ==
  {[lib |-> 13, func |-> 43], [lib |-> 15, func |-> 10],
   [lib |-> 16, func |-> 10], [lib |-> 3, func |-> 46]}

\* What the atomics start from where another part runs.
AnyLitmus == CHOOSE p \in Litmus : TRUE

Init ==
  /\ part \in Parts
  /\ AInit /\ (part = "atomics" \/ (compiler = "gcc" /\ litmus = AnyLitmus))
  /\ SInit /\ (part = "streams" \/ file = <<>>)
  /\ PInit
  /\ CInit /\ (part = "checksum" \/ (mem = [i \in 1..Words |-> 0] /\ csump = 0 /\ skip = 0))
  /\ WInit /\ (part = "winos" \/ length = 0)
  /\ UInit
  /\ FInit
  /\ LInit /\ (part = "log" \/ ~DEBUG)
  /\ IInit /\ (part = "valgrind" \/ tool = "none")

Next ==
  \/ part = "streams" /\ SNext
       /\ UNCHANGED <<pvars, cvars, wvars, uvars, fvars, lvars, ivars, avars, part>>
  \/ part = "tmpfile" /\ PNext
       /\ UNCHANGED <<svars, cvars, wvars, uvars, fvars, lvars, ivars, avars, part>>
  \/ part = "checksum" /\ CNext
       /\ UNCHANGED <<svars, pvars, wvars, uvars, fvars, lvars, ivars, avars, part>>
  \/ part = "winos" /\ WNext
       /\ UNCHANGED <<svars, pvars, cvars, uvars, fvars, lvars, ivars, avars, part>>
  \/ part = "ops" /\ UNext
       /\ UNCHANGED <<svars, pvars, cvars, wvars, fvars, lvars, ivars, avars, part>>
  \/ part = "files" /\ FNext
       /\ UNCHANGED <<svars, pvars, cvars, wvars, uvars, lvars, ivars, avars, part>>
  \/ part = "log" /\ LNext
       /\ UNCHANGED <<svars, pvars, cvars, wvars, uvars, fvars, ivars, avars, part>>
  \/ part = "valgrind" /\ INext
       /\ UNCHANGED <<svars, pvars, cvars, wvars, uvars, fvars, lvars, avars, part>>
  \/ part = "atomics" /\ ANext
       /\ UNCHANGED <<svars, pvars, cvars, wvars, uvars, fvars, lvars, ivars, part>>

Spec == Init /\ [][Next]_vars
=============================================================================
