-------------------------------- MODULE Tail --------------------------------
(***************************************************************************)
(* src/bin/tail.rs: print the last lines of a file, read backwards block   *)
(* by block, then follow it; or the last lines of stdin.  Other processes  *)
(* append to the file, and truncate it, at any time.                       *)
(***************************************************************************)
EXTENDS Naturals, Sequences, FiniteSets, FiniteSetsExt, SequencesExt

CONSTANTS
  Byte,
  Block,        \* DEFAULT_BUF_SIZE
  Texts,        \* initial contents to consider
  NumLines,     \* the values of --lines to consider
  Sources,      \* subset of {"file", "stdin"}
  MaxSize       \* bound on what others append

ASSUME ByteAssumption == "nl" \in Byte
ASSUME BlockAssumption == Block \in Nat \ {0}
ASSUME TextsAssumption == Texts \subseteq Seq(Byte)
ASSUME NumLinesAssumption == NumLines \subseteq Nat
ASSUME SourcesAssumption == Sources \subseteq {"file", "stdin"}
ASSUME MaxSizeAssumption == MaxSize \in Nat

VARIABLES
  source, lines, follow,   \* the arguments
  original,    \* history: the contents when the file was opened, or of stdin
  file,        \* the contents now
  truncated,   \* history: the file has been truncated
  main,        \* where the program is
  initial,     \* initial_position
  position, found, tail,   \* local variables of tail_filename
  cursor,      \* the file offset while following
  out,         \* what has been written to the LineWriter of stdout
  shown        \* how many bytes of that it has passed on

arguments == <<source, lines, follow>>
world == <<original, file, truncated>>
scan == <<initial, position, found, tail>>
written == <<out, shown>>
vars == <<source, lines, follow, original, file, truncated, main, initial,
          position, found, tail, cursor, out, shown>>

MainState == {"open", "read", "print", "follow", "success", "failure"}
ProcessAlive == main \in MainState \ {"success", "failure"}

Init ==
  /\ source \in Sources /\ lines \in NumLines
  /\ follow \in (IF source = "file" THEN BOOLEAN ELSE {FALSE})
  /\ file \in Texts
  /\ original = file /\ truncated = FALSE
  /\ main = "open"
  /\ initial = 0 /\ position = 0 /\ found = 0 /\ tail = <<>>
  /\ cursor = 0
  /\ out = <<>> /\ shown = 0

-----------------------------------------------------------------------------

\* Positions of the newlines of s; the lines of s, the last one with or without.
Newlines(s) == {i \in 1..Len(s) : s[i] = "nl"}
LinesOf[s \in Seq(Byte)] ==
  IF s = <<>> THEN <<>>
  ELSE IF Newlines(s) = {} THEN <<s>>
  ELSE <<SubSeq(s, 1, Min(Newlines(s)))>> \o LinesOf[SubSeq(s, Min(Newlines(s)) + 1, Len(s))]
LastOf(s, n) == IF Len(s) <= n THEN s ELSE SubSeq(s, Len(s) - n + 1, Len(s))

\* writeln! ends every line.
Terminated(line) == IF Last(line) = "nl" THEN line ELSE Append(line, "nl")

\* The LineWriter passes on every finished line; the beginning of one stays in its
\* buffer until the line ends, the buffer is full or the process ends, and is lost
\* when it cannot be written then.
EndOfLines(s) == Max(Newlines(s) \cup {0})
Write(text) ==
  /\ out' = out \o text
  /\ shown' \in EndOfLines(out')..Len(out') /\ shown' >= shown

\* stdin.lines(), without what is an error: of each line all is left, nothing when it
\* is not UTF-8, or what a failed read in the midst of it has left to be read.
Left(line) == {<<>>} \cup {<<SubSeq(line, i, Len(line))>> : i \in 1..Len(line)}
Delivered(all) ==
  {FlattenSeq(d) : d \in {d \in [DOMAIN all -> UNION {Left(all[i]) : i \in DOMAIN all}] :
                            \A i \in DOMAIN all : d[i] \in Left(all[i])}}

\* tail_stdin: a ring of `lines` lines, which with lines = 0 is never full again
\* after the first one.
TailStdin(all) ==
  LET kept == IF lines = 0 THEN all ELSE LastOf(all, lines)
  IN  FlattenSeq([i \in 1..Len(kept) |-> Terminated(kept[i])])

ReadStdin ==
  /\ main = "open" /\ source = "stdin"
  /\ \E read \in Delivered(LinesOf[file]) : Write(TailStdin(read))
  /\ main' = "success"
  /\ UNCHANGED <<arguments, world, scan, cursor>>

\* Open the file and seek to its end.
Open ==
  /\ main = "open" /\ source = "file"
  /\ main' = "read"
  /\ initial' = Len(file) /\ position' = Len(file)
  /\ original' = file
  /\ UNCHANGED <<arguments, file, truncated, found, tail, cursor, written>>

NewPosition == IF position < Block THEN 0 ELSE position - Block

\* Mutant of Scan: a block is kept from its newline on.
ScanFromNewline(buf) ==
  LET stop == {i \in Newlines(buf) :
                 found + Cardinality({j \in Newlines(buf) : j >= i}) = lines + 1}
  IN  [found |-> IF stop # {} THEN lines + 1 ELSE found + Cardinality(Newlines(buf)),
       kept  |-> IF stop = {} THEN buf
                 ELSE SubSeq(buf, CHOOSE i \in stop : TRUE, Len(buf))]

\* Backwards over a block: at the newline number lines + 1, what precedes it and
\* the newline itself are cut off.
Scan(buf) ==
  LET stop == {i \in Newlines(buf) :
                 found + Cardinality({j \in Newlines(buf) : j >= i}) = lines + 1}
  IN  [found |-> IF stop # {} THEN lines + 1 ELSE found + Cardinality(Newlines(buf)),
       kept  |-> IF stop = {} THEN buf
                 ELSE SubSeq(buf, (CHOOSE i \in stop : TRUE) + 1, Len(buf))]

\* One round of the loop, when the block can be read.
ReadBlock ==
  /\ main = "read" /\ position <= Len(file)
  /\ LET block == Scan(SubSeq(file, NewPosition + 1, position))
     IN  /\ found' = block.found
         /\ tail' = Append(tail, block.kept)
         /\ main' = IF NewPosition = 0 \/ block.found > lines THEN "print" ELSE "read"
  /\ position' = NewPosition
  /\ UNCHANGED <<arguments, world, initial, cursor, written>>

\* read_exact() meets the end of a file that has become shorter.
ReadMeetsEnd ==
  /\ main = "read" /\ position > Len(file)
  /\ main' = "failure"
  /\ UNCHANGED <<arguments, world, scan, cursor, written>>

\* The file cannot be opened, or a read, a seek or a write fails; what has been
\* written before that is left out.
IoFails ==
  /\ ProcessAlive
  /\ main' = "failure"
  /\ UNCHANGED <<arguments, world, scan, cursor, written>>

\* Mutant of PrintTail: following starts at the end of the file.
PrintThenSeekEnd ==
  /\ main = "print"
  /\ Write(FlattenSeq(Reverse(tail)))
  /\ tail' = <<>>
  /\ main' = IF follow THEN "follow" ELSE "success"
  /\ cursor' = Len(file)
  /\ UNCHANGED <<arguments, world, initial, position, found>>

\* `while let Some(chunk) = tail.pop()`, and the seek back to initial_position.
PrintTail ==
  /\ main = "print"
  /\ Write(FlattenSeq(Reverse(tail)))
  /\ tail' = <<>>
  /\ main' = IF follow THEN "follow" ELSE "success"
  /\ cursor' = initial
  /\ UNCHANGED <<arguments, world, initial, position, found>>

\* Mutant of Copy: following ends at the first read of nothing.
CopyOnce ==
  /\ main = "follow"
  /\ Write(SubSeq(file, cursor + 1, Len(file)))
  /\ cursor' = IF Len(file) > cursor THEN Len(file) ELSE cursor
  /\ main' = IF Len(file) > cursor THEN main ELSE "success"
  /\ UNCHANGED <<arguments, world, scan>>

\* io::copy up to the end of the file, with nothing to copy beyond it.
Copy ==
  /\ main = "follow" /\ Len(file) > cursor
  /\ Write(SubSeq(file, cursor + 1, Len(file)))
  /\ cursor' = Len(file)
  /\ UNCHANGED <<arguments, world, main, scan>>

Main == ReadStdin \/ Open \/ ReadBlock \/ ReadMeetsEnd \/ PrintTail \/ Copy

-----------------------------------------------------------------------------
(* Other processes. *)

Grow ==
  /\ source = "file" /\ ProcessAlive
  /\ \E b \in Byte : Len(file) < MaxSize /\ file' = Append(file, b)
  /\ UNCHANGED <<arguments, original, truncated, main, scan, cursor, written>>

Truncate ==
  /\ source = "file" /\ ProcessAlive /\ file # <<>>
  /\ file' = <<>> /\ truncated' = (main # "open")
  /\ UNCHANGED <<arguments, original, main, scan, cursor, written>>

\* Following never ends; the program may, or it waits for the file to grow.
Ended == (~ProcessAlive \/ main = "follow") /\ UNCHANGED vars

Next == Main \/ IoFails \/ Grow \/ Truncate \/ Ended
Spec == Init /\ [][Next]_vars

\* The program goes on when it can; neither errors nor the others have to come.
FairSpec == Spec /\ WF_vars(Main)

-----------------------------------------------------------------------------
(* Safety. *)

LastLines(s) == FlattenSeq(LastOf(LinesOf[s], lines))
EndsInNewline(s) == s = <<>> \/ Last(s) = "nl"

\* "output the last NUM lines" of the file as it was when it was opened, however
\* the lines lie across the blocks and whatever is appended while they are read.  Of a
\* file whose last line is not ended the code prints one line more.
LastLinesPrinted ==
  source = "file" /\ ~truncated =>
    /\ EndsInNewline(original) =>
         /\ main = "success" => out = LastLines(original) /\ shown = Len(out)
         /\ main = "follow" => IsPrefix(LastLines(original), out)
    /\ main = "success" => IsSuffix(LastLines(original), out)

\* "output appended data as the file grow": what has been appended since the
\* file was opened follows the first output, without a gap and without overlap.
NothingMissed ==
  main = "follow" /\ ~truncated =>
    /\ cursor >= Len(original)
    /\ IsSuffix(SubSeq(file, Len(original) + 1, cursor), out)
    /\ IsSuffix(SubSeq(out, 1, Len(out) - (cursor - Len(original))), original)

-----------------------------------------------------------------------------
(* Liveness. *)

\* The place in the file up to which its contents have passed through stdout.
ShownUpTo == cursor - (Len(out) - shown)

\* "output appended data as the file grow": a line that ends at n, whenever it was
\* appended, passes through stdout in the end, unless the file is truncated or an
\* error ends the program.
AppendedIsPrinted ==
  \A n \in 1..MaxSize :
    (follow /\ n <= Len(file) /\ file[n] = "nl")
      ~> \/ truncated \/ main = "failure" \/ n > Len(file)
         \/ main = "follow" /\ ShownUpTo >= n
=============================================================================
