------------------------------- MODULE Filter -------------------------------
(***************************************************************************)
(* The programs that copy their inputs to their outputs: cat, cat -n       *)
(* ("number"), cut, pv and tee, from src/bin/.  Each of them reads an      *)
(* input to its end, block by block or line by line, and writes what it    *)
(* makes of it; tee writes it to files before stdout.  They differ in what *)
(* an error changes.  Stdout is a pipe.                                    *)
(*                                                                         *)
(* The files that tee writes are not the inputs.  A write to the pipe is   *)
(* atomic.  The "bad" byte is not valid UTF-8.                             *)
(***************************************************************************)
EXTENDS Output, Cut, TLC

CONSTANT Block       \* how much a read or a write transfers at most

VARIABLES
  command,     \* program, inputs, outputs, append, range, unit, profile
  files,       \* the contents of the files that exist; "stdin" is one of them
  pipe,        \* what stdout has got and its reader has not taken
  broken,      \* the pipe has no reader any more
  phase,       \* where the program is
  opened,      \* how many outputs have been opened
  input,       \* the number of the current input
  position,    \* up to where it has been read
  buffered,    \* what has been read and not been used
  lines,       \* the number of the last line (cat -n)
  writing,     \* what is being written
  next, offset, \* to which output, and how much of it that output has
  held,        \* what LineWriter holds back
  taken,       \* history: what has been read of each input, and not given up
  skipped      \* history: an error has been passed over

reading == <<opened, input, position, buffered, lines, taken>>
output == <<writing, next, offset>>

Phases == {"open", "read", "write", "success", "failure"}
Over == phase \in {"success", "failure"}
ByLine == command.program \in {"number", "cut"}
Stdout == Len(command.outputs) + 1

Init ==
  /\ pipe = <<>> /\ phase = "open"
  /\ opened = 0 /\ input = 0 /\ position = 0 /\ buffered = <<>> /\ lines = 0
  /\ writing = <<>> /\ next = 1 /\ offset = 0 /\ held = <<>>
  /\ taken = <<>> /\ skipped = FALSE

-----------------------------------------------------------------------------
(* Ends of the program: exit() flushes stdout and ignores errors, a panic  *)
(* does so unless it aborts.                                               *)

Exit(status) ==
  /\ phase' = status
  /\ pipe' = IF broken THEN pipe ELSE pipe \o held
  /\ held' = <<>>

Panic ==
  /\ phase' = "failure"
  /\ pipe' = IF broken \/ command.profile = "release" THEN pipe ELSE pipe \o held
  /\ held' = <<>>

\* An error of a write, or of reading a block: cat goes on to the next input and
\* will exit with 0, cut panics, the others fail.
GiveUp ==
  CASE command.program \in {"cat", "number"} ->
         phase' = "open" /\ skipped' = TRUE /\ UNCHANGED <<pipe, held>>
    [] command.program = "cut" -> Panic /\ UNCHANGED skipped
    [] OTHER -> Exit("failure") /\ UNCHANGED skipped

-----------------------------------------------------------------------------

\* tee: Output::try_from, of one file after the other.
OpenOutput ==
  /\ phase = "open" /\ opened < Len(command.outputs)
  /\ files' = Opened(files, command.outputs[opened + 1], command.append)
  /\ opened' = opened + 1
  /\ UNCHANGED <<pipe, phase, input, position, buffered, lines, output, held, taken, skipped>>

OpenOutputFails ==
  /\ phase = "open" /\ opened < Len(command.outputs)
  /\ Exit("failure")
  /\ UNCHANGED <<files, reading, output, skipped>>

\* Input::try_from
OpenInput ==
  /\ phase = "open" /\ opened = Len(command.outputs) /\ input < Len(command.inputs)
  /\ command.inputs[input + 1] \in DOMAIN files
  /\ phase' = "read" /\ input' = input + 1
  /\ position' = 0 /\ buffered' = <<>> /\ lines' = 0 /\ taken' = Append(taken, <<>>)
  /\ UNCHANGED <<files, pipe, opened, output, held, skipped>>

\* Also when pv cannot get the metadata of the file it has opened.
OpenInputFails ==
  /\ phase = "open" /\ opened = Len(command.outputs) /\ input < Len(command.inputs)
  /\ command.inputs[input + 1] # "stdin"
  /\ IF command.program \in {"cat", "number"}
     THEN /\ input' = input + 1 /\ taken' = Append(taken, <<>>) /\ skipped' = TRUE
          /\ UNCHANGED <<pipe, phase, held>>
     ELSE Exit("failure") /\ UNCHANGED <<input, taken, skipped>>
  /\ UNCHANGED <<files, opened, position, buffered, lines, output>>

AllRead ==
  /\ phase = "open" /\ opened = Len(command.outputs) /\ input = Len(command.inputs)
  /\ Exit("success")
  /\ UNCHANGED <<files, reading, output, skipped>>

-----------------------------------------------------------------------------

Contents == files[command.inputs[input]]
NeedsMore == IF ByLine THEN ~Contains(buffered, "nl") ELSE buffered = <<>>

\* read(), which delivers a part of the rest.
Read ==
  /\ phase = "read" /\ NeedsMore
  /\ \E n \in 1..Block :
       /\ position + n <= Len(Contents)
       /\ LET data == SubSeq(Contents, position + 1, position + n)
          IN  /\ buffered' = buffered \o data
              /\ taken' = [taken EXCEPT ![input] = @ \o data]
       /\ position' = position + n
  /\ UNCHANGED <<files, pipe, phase, opened, input, lines, output, held, skipped>>

\* BufRead::lines() drops the part of a line that was read before an error, and
\* the programs that use it skip the error.
ReadFails ==
  /\ phase = "read" /\ NeedsMore
  /\ IF ByLine
     THEN /\ taken' = [taken EXCEPT ![input] = SubSeq(@, 1, Len(@) - Len(buffered))]
          /\ buffered' = <<>> /\ skipped' = TRUE
          /\ UNCHANGED <<pipe, phase, held>>
     ELSE GiveUp /\ UNCHANGED <<buffered, taken>>
  /\ UNCHANGED <<files, opened, input, position, lines, output>>

\* The number of bytes that are used next: a line with its newline, the rest at
\* the end of the input, or the whole block.
Used == IF ByLine /\ Contains(buffered, "nl")
        THEN SelectInSeq(buffered, LAMBDA b : b = "nl") ELSE Len(buffered)

\* The line in them, without "\n" or "\r\n".
LineIn(used) ==
  LET n == Len(used)
  IN  IF ~Contains(used, "nl") THEN used
      ELSE IF n > 1 /\ used[n - 1] = "cr" THEN SubSeq(used, 1, n - 2)
      ELSE SubSeq(used, 1, n - 1)

\* What the program makes of it.
Made(line) ==
  CASE command.program = "number" -> <<ToString(lines + 1)>> \o line \o <<"nl">>
    [] command.program = "cut"    -> CutLine(line, command.unit, command.range)

AtEnd == NeedsMore /\ position >= Len(Contents)

UseLine ==
  /\ phase = "read" /\ ByLine /\ buffered # <<>> /\ (NeedsMore => AtEnd)
  /\ LET line == LineIn(SubSeq(buffered, 1, Used))
     IN  \/ /\ Contains(line, "bad")       \* line.ok() is None
            /\ skipped' = TRUE
            /\ UNCHANGED <<phase, output, lines>>
         \/ /\ ~Contains(line, "bad")
            /\ ~(command.program = "cut" /\ command.profile = "dev" /\ Overflows(command.range))
            /\ writing' = Made(line) /\ lines' = lines + 1
            /\ phase' = "write" /\ next' = 1 /\ offset' = 0
            /\ UNCHANGED skipped
  /\ buffered' = SubSeq(buffered, Used + 1, Len(buffered))
  /\ UNCHANGED <<files, pipe, opened, input, position, held, taken>>

\* `end + 1` panics in a build with overflow checks.
RangePanics ==
  /\ phase = "read" /\ command.program = "cut" /\ buffered # <<>> /\ (NeedsMore => AtEnd)
  /\ command.profile = "dev" /\ Overflows(command.range)
  /\ ~Contains(SubSeq(buffered, 1, Used), "bad")
  /\ Panic
  /\ UNCHANGED <<files, reading, output, skipped>>

UseBlock ==
  /\ phase = "read" /\ ~ByLine /\ buffered # <<>>
  /\ writing' = buffered /\ buffered' = <<>>
  /\ phase' = "write" /\ next' = 1 /\ offset' = 0
  /\ UNCHANGED <<files, pipe, opened, input, position, lines, held, taken, skipped>>

\* pv: the clock has been set back since the first block.
ClockPanics ==
  /\ phase = "read" /\ command.program = "pv" /\ buffered # <<>>
  /\ Len(taken[input]) > Len(buffered)
  /\ Panic
  /\ UNCHANGED <<files, reading, output, skipped>>

EndOfInput ==
  /\ phase = "read" /\ AtEnd /\ buffered = <<>>
  /\ phase' = "open"
  /\ UNCHANGED <<files, pipe, reading, output, held, skipped>>

-----------------------------------------------------------------------------

\* Mutant of WriteFile: one write() for each block.
WriteFileOnce ==
  /\ phase = "write" /\ next < Stdout
  /\ \E n \in 1..(Len(writing) - offset) :
       files' = Grown(files, command.outputs[next], SubSeq(writing, offset + 1, offset + n))
  /\ next' = next + 1 /\ offset' = 0
  /\ UNCHANGED <<pipe, phase, reading, writing, held, skipped>>

\* One write of a write_all() to a file takes some of what is left.
WriteFile ==
  /\ phase = "write" /\ next < Stdout
  /\ \E n \in 1..(Len(writing) - offset) :
       /\ files' = Grown(files, command.outputs[next], SubSeq(writing, offset + 1, offset + n))
       /\ IF offset + n = Len(writing)
          THEN next' = next + 1 /\ offset' = 0
          ELSE offset' = offset + n /\ UNCHANGED next
  /\ UNCHANGED <<pipe, phase, reading, writing, held, skipped>>

\* Mutant of WriteFileFails: the other outputs go on.
WriteFileSkipped ==
  /\ phase = "write" /\ next < Stdout
  /\ next' = next + 1 /\ offset' = 0
  /\ UNCHANGED <<files, pipe, phase, reading, writing, held, skipped>>

\* An error ends try_for_each(), and with it the program.
WriteFileFails ==
  /\ phase = "write" /\ next < Stdout
  /\ Exit("failure")
  /\ UNCHANGED <<files, reading, output, skipped>>

\* LineWriter: complete lines go on, the rest is held.
WriteStdout ==
  /\ phase = "write" /\ next = Stdout
  /\ LET bytes == held \o writing
     IN  /\ broken => Flushed(bytes) = <<>>
         /\ pipe' = pipe \o Flushed(bytes)
         /\ held' = Kept(bytes)
  /\ phase' = "read"
  /\ UNCHANGED <<files, reading, output, skipped>>

\* Broken pipe.
WriteStdoutFails ==
  /\ phase = "write" /\ next = Stdout
  /\ broken /\ Flushed(held \o writing) # <<>>
  /\ GiveUp
  /\ UNCHANGED <<files, reading, output>>

Next ==
  /\ UNCHANGED command
  /\ \/ OpenOutput \/ OpenOutputFails \/ OpenInput \/ OpenInputFails \/ AllRead
     \/ Read \/ ReadFails \/ UseLine \/ RangePanics \/ UseBlock \/ ClockPanics \/ EndOfInput
     \/ WriteFile \/ WriteFileFails \/ WriteStdout \/ WriteStdoutFails

-----------------------------------------------------------------------------
(* The reference: what the program is to make of an input, however it was  *)
(* read.  A line that is not UTF-8 is an error, which is passed over.       *)

LinesOf(bytes) ==
  LET lines_of[s \in Seq(Byte)] ==
        LET k == SelectInSeq(s, LAMBDA b : b = "nl")
            used == IF k = 0 THEN s ELSE SubSeq(s, 1, k)
            line == LineIn(used)
        IN  IF s = <<>> THEN <<>>
            ELSE (IF Contains(line, "bad") THEN <<>> ELSE <<line>>)
                   \o lines_of[SubSeq(s, Len(used) + 1, Len(s))]
  IN  lines_of[bytes]

Reference(bytes) ==
  LET all == LinesOf(bytes)
  IN  CASE command.program = "number" ->
             FlattenSeq([i \in 1..Len(all) |-> <<ToString(i)>> \o all[i] \o <<"nl">>])
        [] command.program = "cut" ->
             FlattenSeq([i \in 1..Len(all) |-> CutReference(all[i], command.unit, command.range)])
        [] OTHER -> bytes
=============================================================================
