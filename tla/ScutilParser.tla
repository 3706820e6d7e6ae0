--------------------------- MODULE ScutilParser ----------------------------
(***************************************************************************)
(* The command reader of scutil (src/scutil.tproj/scutil.c): main()'s loop *)
(* calls process_line(), which reads a line with getLine() into the stack  *)
(* buffer line[LINE_LENGTH] and splits it into arguments with getString(). *)
(*                                                                         *)
(* The buffer is modelled byte by byte because what getString() reads      *)
(* depends on where the NUL terminator is and on what is left after it:   *)
(* fgets() writes only the new line and its terminator, so the rest of    *)
(* the buffer keeps the bytes of earlier, longer lines.  A byte outside   *)
(* the buffer is read as OOB.  On a terminal, main() may instead read     *)
(* lines with editline, which getLine() copies in with strncpy().         *)
(***************************************************************************)
EXTENDS Naturals, Sequences

CONSTANTS
  LineLength,   \* LINE_LENGTH, the size of the line buffer
  MaxLineLen,   \* longest input line enumerated
  MaxLines      \* bound on the lines read in a behaviour

ASSUME LineLength \in Nat /\ LineLength >= 2
ASSUME MaxLineLen \in Nat /\ MaxLines \in Nat

\* Characters: a letter, the comment mark, blank, double quote, backslash,
\* newline and the NUL terminator; OOB stands for a read outside line[].
SP == " "
DQ == "\""
BS == "\\"
NL == "\n"
NUL == "nul"
OOB == "oob"
Content == {"a", "#", SP, DQ, BS, NUL}
Idx == 0 .. LineLength - 1

\* The input lines: every sequence of Content up to MaxLineLen bytes.
InputLines == UNION {[1 .. k -> Content] : k \in 0 .. MaxLineLen}

VARIABLES
  mem,      \* the bytes of line[] (process_line, line 186)
  pos,      \* the cursor s that getString() advances (line 203)
  argv,     \* the arguments split so far: text and malloc() size
  phase,    \* "read", "parse", "command", "exit" or "fault"
  lines,    \* lines read so far (bounded by MaxLines)
  fresh,    \* bytes of line[] fgets() wrote for this line, NUL included
  executed, \* the argv last passed to do_command()
  el        \* src->el: lines come from editline rather than fgets()

vars == << mem, pos, argv, phase, lines, fresh, executed, el >>

At(p) == IF p \in Idx THEN mem[p] ELSE OOB

IsSpace(c) == c \in {SP, NL}

\* strlen(): the index of the first NUL of buffer m; without one it runs
\* off the end of line[] (LineLength).
StrLen(m) ==
  LET nuls == {n \in Idx : m[n] = NUL}
  IN IF nuls = {} THEN LineLength ELSE CHOOSE n \in nuls : \A j \in nuls : n <= j

\* main(), lines 360-399: editline is used when stdin is a terminal and the
\* edit mode, off when the terminal does not echo unless the editrc read by
\* el_source() turns it on, is still set when read back with el_get().
UsesEditLine(tty, echo, rcMode, getOk) ==
  LET editmode == CASE rcMode = "on" -> TRUE
                    [] rcMode = "off" -> FALSE
                    [] OTHER -> echo
  IN tty /\ getOk /\ editmode

Init ==
  /\ \E tty, echo, getOk \in BOOLEAN, rcMode \in {"none", "on", "off"} :
       el = UsesEditLine(tty, echo, rcMode, getOk)
  /\ mem = [p \in Idx |-> NUL]
  /\ pos = 0
  /\ argv = << >>
  /\ phase = "read"
  /\ lines = 0
  /\ fresh = 0
  /\ executed = << >>

-----------------------------------------------------------------------------
(* getLine(), lines 92-129, as called by process_line() (lines 189-191)   *)

\* Mutant of Fgets: off by one, len bytes are stored before the NUL.
FgetsWholeBuffer(full) ==
  SubSeq(full, 1, IF Len(full) <= LineLength THEN Len(full) ELSE LineLength)

\* fgets(buf, len, fp) stores at most len-1 bytes of the input line, up to
\* and including its newline (the last line of the input may have none),
\* then a NUL; the rest of buf is left as it was.
Fgets(full) ==
  SubSeq(full, 1, IF Len(full) < LineLength THEN Len(full) ELSE LineLength - 1)

\* strncpy(buf, line, len) copies the bytes of line up to its first NUL, at
\* most len of them, and pads what is left of buf with NUL; a line of len
\* bytes or more before its NUL leaves buf unterminated.
Strncpy(line) ==
  LET nuls == {i \in DOMAIN line : line[i] = NUL}
      k    == IF nuls = {} THEN Len(line) ELSE (CHOOSE i \in nuls : \A j \in nuls : i <= j) - 1
  IN  [p \in Idx |-> IF p < k THEN line[p + 1] ELSE NUL]

Store(got) ==
  [p \in Idx |-> IF p < Len(got) THEN got[p + 1]
                 ELSE IF p = Len(got) THEN NUL ELSE mem[p]]

\* Read one line, with el_gets() and strncpy() or with fgets() (lines
\* 97-109); n = strlen(buf) and buf[n-1] is read even when n = 0.  A
\* trailing newline is replaced by NUL; otherwise, on the fgets() path, the
\* rest of the input line is discarded (lines 115-120), which leaves the
\* buffer as it is.
ReadLine ==
  /\ phase = "read"
  /\ lines < MaxLines
  /\ lines' = lines + 1
  /\ \E line \in InputLines, newline \in BOOLEAN :
       LET full == IF newline THEN line \o << NL >> ELSE line
           m    == IF el THEN Strncpy(full) ELSE Store(Fgets(full))
           n    == StrLen(m)
       IN /\ full # << >>
          /\ mem' = IF n \in 1 .. LineLength - 1 /\ m[n - 1] = NL THEN [m EXCEPT ![n - 1] = NUL]
                                             ELSE m
          /\ fresh' = IF el THEN LineLength ELSE Len(Fgets(full)) + 1
          /\ phase' = IF n \in {0, LineLength} THEN "fault" ELSE "parse"
  /\ pos' = 0
  /\ argv' = << >>
  /\ UNCHANGED << executed, el >>

\* getLine() returns NULL at end of input, or the line is "exit", "quit" or
\* "q" (lines 198-200): process_line() returns FALSE and main() exits.
EndOfInput ==
  /\ phase = "read"
  /\ phase' = "exit"
  /\ UNCHANGED << mem, pos, argv, lines, fresh, executed, el >>

-----------------------------------------------------------------------------
(* getString(), lines 132-180                                              *)

\* Lines 141-142: skip leading white space.
RECURSIVE SkipSpace(_)
SkipSpace(p) == IF IsSpace(At(p)) THEN SkipSpace(p + 1) ELSE p

\* A character that ends the scan of lines 153-165.
Stops(c, quoted) ==
  c \in {NUL, OOB} \/ (quoted /\ c = DQ) \/ (~quoted /\ IsSpace(c))

\* Lines 153-165: find the end e of the string starting at e, counting the
\* backslashes that escape a quote or white space; a backslash makes the
\* scan step over the character after it.  Returns << e, escaped >>.
RECURSIVE Scan(_, _, _)
Scan(e, escaped, quoted) ==
  LET c == At(e) IN
  CASE Stops(c, quoted) -> << e, escaped >>
    [] c = BS /\ At(e + 1) \in {NUL, OOB} -> << e + 1, escaped >>
    [] c = BS /\ At(e + 1) \notin {NUL, OOB} ->
         Scan(e + 2, escaped + (IF At(e + 1) = DQ \/ IsSpace(At(e + 1))
                                   THEN 1 ELSE 0), quoted)
    [] OTHER -> Scan(e + 1, escaped, quoted)

\* Mutant of Dropped: only a backslash before a quote is dropped.
DroppedQuoteOnly(p) == At(p) = BS /\ At(p + 1) = DQ

\* Line 171: the copy drops every backslash followed by a quote or blank.
Dropped(p) == At(p) = BS /\ (At(p + 1) = DQ \/ IsSpace(At(p + 1)))

\* Lines 169-173: the bytes of [p, e) that the copy keeps.
RECURSIVE Copy(_, _)
Copy(p, e) ==
  IF p >= e THEN << >>
  ELSE (IF Dropped(p) THEN << >> ELSE << At(p) >>) \o Copy(p + 1, e)

\* Lines 138-147: getString() returns NULL at the end of the line.
NoString == At(pos) = NUL \/ At(SkipSpace(pos)) = NUL

\* Split off one more argument.  Every byte read lies inside line[] unless
\* the scan reached OOB; the cursor moves past the closing quote of a quoted
\* string (line 176) or stays on the byte that ended the string.
GetString ==
  /\ phase = "parse"
  /\ \/ /\ NoString
        /\ phase' = "command"
        /\ UNCHANGED << pos, argv >>
     \/ /\ ~NoString
        /\ LET st     == SkipSpace(pos)
               quoted == At(st) = DQ
               s      == IF quoted THEN st + 1 ELSE st
               r      == Scan(s, 0, quoted)
               e      == r[1]
           IN /\ argv' = Append(argv, [text |-> Copy(s, e),
                                       size |-> e - s - r[2] + 1])
              /\ pos' = IF quoted THEN e + 1 ELSE e
              /\ phase' = IF OOB \in {At(pos), At(st), At(e)} THEN "fault"
                                                                ELSE "parse"
  /\ UNCHANGED << mem, lines, fresh, executed, el >>

\* Lines 213-225: a line with arguments that is not a comment is executed.
Command ==
  /\ phase = "command"
  /\ executed' = IF argv # << >> /\ ~(argv[1].text # << >> /\ argv[1].text[1] = "#")
                   THEN [i \in 1 .. Len(argv) |-> argv[i].text]
                   ELSE executed
  /\ phase' = "read"
  /\ UNCHANGED << mem, pos, argv, lines, fresh, el >>

Next == ReadLine \/ EndOfInput \/ GetString \/ Command

Spec == Init /\ [][Next]_vars

-----------------------------------------------------------------------------
TypeOK ==
  /\ mem \in [Idx -> Content \cup {NL}]
  /\ pos \in 0 .. LineLength + 1
  /\ argv \in Seq([text : Seq(Content \cup {NL}), size : Nat])
  /\ phase \in {"read", "parse", "command", "exit", "fault"}
  /\ lines \in 0 .. MaxLines
  /\ fresh \in 0 .. LineLength
  /\ executed \in Seq(Seq(Content \cup {NL}))
  /\ el \in BOOLEAN

\* Every argument getString() copies, with its terminating NUL, fits in the
\* malloc(e - s - escaped + 1) made for it: the copy drops at least every
\* backslash the scan counted.
CopyFitsAllocation ==
  \A i \in 1 .. Len(argv) : Len(argv[i].text) + 1 <= argv[i].size

\* getString() only ever reads bytes fgets() wrote for the line just read:
\* the cursor never passes the NUL that ends it, so no argument is split
\* out of bytes left over from an earlier line or lying beyond line[].
ParseReadsOnlyNewBytes ==
  phase = "parse" => pos < fresh

\* line[] always holds a NUL, so strlen() at line 111 and the scan of
\* getString() stop inside it, whichever input path filled it.
LineTerminated == \E p \in Idx : mem[p] = NUL

\* No byte outside line[] is read or written.
NoOutOfBounds == phase # "fault"

=============================================================================
