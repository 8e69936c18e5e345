------------------------------ MODULE Pipeline ------------------------------
(***************************************************************************)
(* `filter FILE... | sponge [-a] [file]`: a Filter whose stdout is the     *)
(* stdin of a Sponge, over the same files.  The file that sponge writes    *)
(* may be one that the filter reads: the use sponge is made for.  The two  *)
(* processes start together and run at their own pace.                     *)
(***************************************************************************)
EXTENDS Naturals, Sequences, SequencesExt

CONSTANTS
  Byte,        \* the classes of bytes
  Commands,    \* the filters to consider
  Targets,     \* the outputs of sponge to consider
  FileSystems, \* the files there may be at the start
  Block,       \* how much a read or a write transfers at most
  MaxUsize     \* the largest usize

ASSUME PipeBlockAssumption == Block \in Nat \ {0}
ASSUME MaxUsizeAssumption == MaxUsize \in Nat \ {0}

ASSUME BytesAssumption == {"nl", "tab"} \subseteq Byte

\* The programs, and the pieces of the range of cut that are parsed as numbers.
\* Only tee has files to write: each of them once, and none that is read.
ASSUME CommandsAssumption ==
  \A c \in Commands :
    /\ c.program \in {"cat", "number", "cut", "pv", "tee"}
    /\ c.inputs \in Seq(STRING) /\ c.outputs \in Seq(STRING)
    /\ c.append \in BOOLEAN /\ c.profile \in {"dev", "release"}
    /\ c.program # "tee" => c.outputs = <<>>
    /\ Range(c.inputs) \cap Range(c.outputs) = {}
    /\ \A i, j \in 1..Len(c.outputs) : c.outputs[i] = c.outputs[j] => i = j
    /\ c.unit \in {"byte", "character", "field"}
    /\ c.range.form \in {"N", "N-", "-M", "N-M"}
    /\ c.range.form # "-M" => c.range.n \in 0..MaxUsize
    /\ c.range.form \in {"-M", "N-M"} => c.range.m \in 0..MaxUsize

\* sponge does not write a file that tee writes.
ASSUME TargetsAssumption ==
  \A t \in Targets :
    /\ t.append \in BOOLEAN
    /\ \A c \in Commands : t.name \notin Range(c.outputs)

ASSUME FilesAssumption ==
  \A f \in FileSystems : f = [name \in DOMAIN f |-> f[name]] /\ Range(f) \subseteq Seq(Byte)

VARIABLES
  files, pipe,
  command, stage, opened, input, position, buffered, lines, writing, next, offset,
  held, taken, skipped,                \* the filter; its phase is "stage"
  target, main, buffer, written,       \* sponge
  before       \* history: the files at the start

filterVars == <<command, stage, opened, input, position, buffered, lines, writing,
                next, offset, held, taken, skipped>>
spongeVars == <<target, main, buffer, written>>
pipelineVars == <<files, pipe, command, stage, opened, input, position, buffered, lines,
          writing, next, offset, held, taken, skipped, target, main, buffer,
          written, before>>

Filter == INSTANCE Filter WITH phase <- stage, broken <- main \in {"success", "failure"}
Sponge == INSTANCE Sponge WITH stdin <- pipe, closed <- stage \in {"success", "failure"}

PipelineInit ==
  /\ command \in Commands /\ target \in Targets
  /\ before \in FileSystems /\ files = before
  /\ Filter!Init /\ Sponge!Init

FilterStep == Filter!Next /\ UNCHANGED <<spongeVars, before>>
SpongeStep == Sponge!Next /\ UNCHANGED <<filterVars, before>>
PipelineEnded == ~Sponge!ProcessAlive /\ Filter!Over /\ UNCHANGED pipelineVars

PipelineNext == FilterStep \/ SpongeStep \/ PipelineEnded
PipelineSpec == PipelineInit /\ [][PipelineNext]_pipelineVars

-----------------------------------------------------------------------------

\* The filter reads the file that sponge empties when it opens it.
Shared == target.name \in Range(command.inputs)

\* What the filter has written to its stdout, which sponge has or will get.
Sent == buffer \o pipe

\* What a file gives when it has been opened for output.
Kept(name, append) == IF append /\ name \in DOMAIN before THEN before[name] ELSE <<>>

\* What tee has written to its i-th output.
Got(i) ==
  IF i = Filter!Stdout THEN Sent \o held
  ELSE LET name == command.outputs[i]
       IN  SubSeq(files[name], Len(Kept(name, command.append)) + 1, Len(files[name]))

\* What has been made of the inputs so far, and what is to be made of them: of a
\* file that only sponge creates, nothing.
UsedOf(i) == IF i = Len(taken) THEN SubSeq(taken[i], 1, Len(taken[i]) - Len(buffered))
             ELSE taken[i]
Done == FlattenSeq([i \in 1..Len(taken) |-> Filter!Reference(UsedOf(i))])
Wanted == FlattenSeq([i \in 1..Len(command.inputs) |->
                        Filter!Reference(Kept(command.inputs[i], TRUE))])

\* cut has been given a range that it counts from 1, as its documentation does.
AsDocumented == command.program = "cut" => Filter!CountsFromOne(command.range)

\* "soaks up all its input": as long as the filter may still read, sponge's file
\* has what it had, or nothing once sponge has opened it without -a, so that a
\* pipeline that appends to the file it reads ends; and without the filter
\* nothing is written before its last byte has been read (src/bin/sponge.rs).
SoaksUpFirst ==
  /\ ~Filter!Over /\ Sponge!ProcessAlive /\ target.name # "stdout" =>
       \/ target.name \notin DOMAIN files /\ target.name \notin DOMAIN before
       \/ target.name \in DOMAIN files
            /\ files[target.name] \in
                 {Kept(target.name, TRUE), Kept(target.name, target.append)}
  /\ written > 0 => Filter!Over /\ pipe = <<>>

\* When sponge succeeds, its file holds what it is to keep and then everything
\* the filter has written, once; and if the filter succeeded without passing over
\* an error, and its inputs were not emptied under it, that is all the filter is
\* to make of its inputs, with no line missing at the seams of two processes, two
\* inputs or two blocks.  (A filter that failed is not told from one that ended:
\* then the file holds what the filter got to.  Of a range of cut that starts at
\* 0, or -M, nothing is claimed: of that the code takes one unit too many.)
FileIsComplete ==
  main = "success" /\ target.name # "stdout" =>
    /\ files[target.name] = Kept(target.name, target.append) \o Sent
    /\ stage = "success" /\ ~skipped /\ (Shared => target.append) /\ AsDocumented =>
         Sent = Wanted

\* Whatever fails, every output of the filter is a prefix of what is to be made
\* of the bytes it has read, the earlier ones at least as far as the later ones;
\* and between two blocks, as long as nobody gave up, all of them have all of it,
\* unless the filter passed over an error of a write (cat).
OutputsAgree ==
  opened = Len(command.outputs) /\ AsDocumented =>
    /\ IsPrefix(Sent, Done)
    /\ \A i \in 1..Len(command.outputs) :
         /\ IsPrefix(Kept(command.outputs[i], command.append), files[command.outputs[i]])
         /\ IsPrefix(Got(i), Done)
         /\ Len(Got(i)) >= Len(Sent)
    /\ stage = "read" /\ Sponge!ProcessAlive => \A i \in 1..Filter!Stdout : Got(i) = Done

\* Success of the filter: it passed over an error, or it has read every input to
\* its end, tee's files have all of it, and stdout too, unless its reader has
\* ended and what is missing is an unfinished line.  Only cat and cut pass over
\* errors.
SuccessIsComplete ==
  stage = "success" /\ AsDocumented =>
    \/ skipped /\ command.program \in {"cat", "number", "cut"}
    \/ /\ ~skipped
       /\ ~Shared => Done = Wanted
       /\ \A i \in 1..Len(command.outputs) : Got(i) = Done
       /\ Sent = Done \/ (~Sponge!ProcessAlive /\ IsPrefix(Filter!Flushed(Done), Sent))
=============================================================================
