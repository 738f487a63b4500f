------------------------------- MODULE Streams -------------------------------
(***************************************************************************)
(* Reading a text file: it is opened on Windows (os_open, os_fopen), where *)
(* a byte order mark is skipped, and read line by line (util_readline on   *)
(* top of util_fgets) into a buffer that grows while a line does not end.  *)
(* A byte is "a" (any character), "\r", "\n" or one of the mark's three.   *)
(***************************************************************************)
EXTENDS Integers, Sequences

CONSTANTS
  Contents,          \* the files that are read
  PARSER_MAX_LINE    \* size of the first buffer

Byte == {"a", "\r", "\n", "EF", "BB", "BF"}

\* Half of the first buffer holds a byte and the NUL.
ASSUME StreamsAssumption ==
  /\ \A f \in Contents : f \in Seq(Byte)
  /\ PARSER_MAX_LINE \in Nat /\ PARSER_MAX_LINE >= 4

UTF8_BOM == <<"EF", "BB", "BF">>

VARIABLES
  file,     \* the file's content
  pos,      \* bytes read from it
  eof,      \* feof()
  buffer,   \* the line so far; its length is position
  bufsize,
  lines,    \* the lines util_readline has returned
  state     \* "new", "raw" (os_open), "open" (os_fopen), "line", "end", "failed"

svars == <<file, pos, eof, buffer, bufsize, lines, state>>

SInit ==
  /\ file \in Contents
  /\ pos = 0 /\ eof = FALSE
  /\ buffer = <<>> /\ bufsize = PARSER_MAX_LINE
  /\ lines = <<>> /\ state = "new"

\* The file begins with a whole mark.
Marked == Len(file) >= 3 /\ SubSeq(file, 1, 3) = UTF8_BOM

\* os_open: a mark that is not found, or not whole, is not skipped.
os_open_text ==
  /\ state = "new"
  /\ pos' = IF Marked THEN 3 ELSE 0
  /\ state' = "raw"
  /\ UNCHANGED <<file, eof, buffer, bufsize, lines>>

\* os_fopen with os_skipBOM: fread may come back short, and only a file of
\* three bytes or more is reset to its beginning (which clears feof()).
os_fopen_text ==
  /\ state = "new"
  /\ IF Len(file) < 3 THEN pos' = Len(file) /\ eof' = TRUE
     ELSE pos' = (IF Marked THEN 3 ELSE 0) /\ UNCHANGED eof
  /\ state' = "open"
  /\ UNCHANGED <<file, buffer, bufsize, lines>>

\* fgets(buf, max): the next bytes up to a newline, max - 1 of them or the end
\* of the file, whichever comes first.
fgets(max) ==
  LET stops == {n \in 0..(max - 1) : \/ n = max - 1 \/ pos + n >= Len(file)
                                     \/ n > 0 /\ file[pos + n] = "\n"}
      got == CHOOSE n \in stops : \A k \in stops : n <= k
  IN  SubSeq(file, pos + 1, pos + got)

\* It has met the end of the file when it wanted a byte that is not there.
MeetsEof(max) ==
  LET got == fgets(max)
  IN  pos + Len(got) = Len(file) /\ Len(got) < max - 1
        /\ (got = <<>> \/ got[Len(got)] # "\n")

\* Mutant: CR LF is left as it is.
util_fgets_keeps(str) == str

EndsInCRLF(str) == Len(str) >= 2 /\ SubSeq(str, Len(str) - 1, Len(str)) = <<"\r", "\n">>

\* util_fgets: CR LF at the end of what was read becomes LF.
util_fgets(str) ==
  IF EndsInCRLF(str) THEN Append(SubSeq(str, 1, Len(str) - 2), "\n") ELSE str

NextSize(size) == 2 * size

\* util_readline is called, and one turn of its loop: the end of the file frees
\* the buffer and returns NULL; otherwise the loop goes on until feof() or a
\* newline.
readline_begin ==
  /\ state = "open"
  /\ state' = "line" /\ buffer' = <<>> /\ bufsize' = PARSER_MAX_LINE
  /\ UNCHANGED <<file, pos, eof, lines>>

readline_end ==
  /\ state = "line" /\ fgets(bufsize \div 2) = <<>>
  /\ state' = "end" /\ buffer' = <<>> /\ eof' = TRUE
  /\ UNCHANGED <<file, pos, bufsize, lines>>

readline_turn ==
  /\ state = "line" /\ fgets(bufsize \div 2) # <<>>
  /\ LET got == fgets(bufsize \div 2) IN
       /\ pos' = pos + Len(got)
       /\ eof' = (eof \/ MeetsEof(bufsize \div 2))
       /\ buffer' = buffer \o util_fgets(got)
  /\ bufsize' = NextSize(bufsize)
  /\ IF eof' \/ buffer'[Len(buffer')] = "\n"
     THEN state' = "open" /\ lines' = Append(lines, buffer')
     ELSE UNCHANGED <<state, lines>>
  /\ UNCHANGED file

\* realloc fails: the old buffer is freed and NULL returned.
readline_no_memory ==
  /\ state = "line"
  /\ state' = "failed" /\ buffer' = <<>>
  /\ UNCHANGED <<file, pos, eof, bufsize, lines>>

SNext ==
  \/ os_open_text \/ os_fopen_text
  \/ readline_begin \/ readline_end \/ readline_turn \/ readline_no_memory

SSpec == SInit /\ [][SNext]_svars

------------------------------------------------------------------------------
\* The reference: the text behind the mark cut after each newline.
Text == IF Marked THEN SubSeq(file, 4, Len(file)) ELSE file

LastCut(i) ==
  LET cuts == {j \in 0..(i - 1) : j = 0 \/ Text[j] = "\n"}
  IN  CHOOSE j \in cuts : \A k \in cuts : k <= j

\* Where the lines end.
Ends == {i \in 1..Len(Text) : Text[i] = "\n" \/ i = Len(Text)}
RawLine(i) == SubSeq(Text, LastCut(i) + 1, i)

\* Bytes of a line that have been read after each turn of the loop, all of them
\* full, and the size of the buffer then.
FullTurn(r) == <<r[1] + r[2] \div 2 - 1, 2 * r[2]>>
AfterTurn ==
  LET after[t \in 0..Len(file)] ==
        IF t = 0 THEN <<0, PARSER_MAX_LINE>> ELSE FullTurn(after[t - 1])
  IN  after
Turns == {AfterTurn[t][1] : t \in 1..Len(file)}

\* What is returned for a line: its CR LF as LF, unless a turn of the loop ends
\* between the two; nothing for a last line without newline that ends with a
\* turn of the loop.
Dropped(i) == Text[i] # "\n" /\ Len(RawLine(i)) \in Turns
Returned(i) ==
  LET l == RawLine(i) IN
  IF Len(l) - 1 \notin Turns /\ EndsInCRLF(l)
  THEN SubSeq(l, 1, Len(l) - 2) \o <<"\n">>
  ELSE l

\* The lines that are returned, by their ends, and how many end up to i.
Kept == {i \in Ends : ~Dropped(i)}
Count(i) == IF i \in Kept THEN 1 ELSE 0
Upto ==
  LET upto[i \in 0..Len(Text)] == IF i = 0 THEN 0 ELSE upto[i - 1] + Count(i)
  IN  upto

\* os_open leaves the file behind its byte order mark and nowhere else, and so
\* does os_fopen for files that could hold a mark; util_readline returns every
\* line of the file once, in order, whole and with LF at its end, with the two
\* exceptions at the end of a turn that Returned and Dropped describe.
LinesFaithful ==
  /\ state = "raw" => SubSeq(file, pos + 1, Len(file)) = Text
  /\ state = "end" /\ Len(file) >= 3 =>
       Len(lines) = Upto[Len(Text)] /\ \A i \in Kept : lines[Upto[i]] = Returned(i)

\* Each turn of util_readline reads into memory it has: position and what fgets
\* may add, with its terminating NUL, stay inside the buffer, which has just
\* been enlarged to bufsize.
BufferFits == state = "line" => Len(buffer) + bufsize \div 2 <= bufsize

\* util_readline returns what is in the file and reads only into its buffer.
ReadsFaithfully == LinesFaithful /\ BufferFits
=============================================================================
