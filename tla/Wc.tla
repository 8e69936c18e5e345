--------------------------------- MODULE Wc ---------------------------------
(***************************************************************************)
(* src/bin/wc.rs: the main thread cuts every input into chunks (ChunkSplit)*)
(* and submits one counting job per chunk to a thread pool; the jobs add   *)
(* to shared counters, printed after the pool has finished.                *)
(*                                                                         *)
(* A byte is one of the classes that the counting tells apart: "nl"; "ws"  *)
(* for 9 and 11..14; "sp" for the space; "a" for every other ASCII byte;   *)
(* "lead" for the first byte of a two-byte character; "cont" for a byte    *)
(* that cannot be the first.  MaxChunkSize (ChunkSplit) is CHUNK_SIZE.     *)
(***************************************************************************)
EXTENDS ChunkSplit, FiniteSets, SequencesExt

CONSTANTS Size, NoJob,     \* see ThreadPool; Size is the number of processors
          Files,           \* the sequences of inputs to consider
          Profiles         \* the panic strategies of the build

Classes == {"nl", "ws", "sp", "a", "lead", "cont"}

ASSUME ByteAssumption == Byte = Classes /\ Delim = "nl"
ASSUME ProcessorsAssumption == Size \in Nat \ {0}
ASSUME FilesAssumption == Files \subseteq Seq(Seq(Byte))
ASSUME ProfilesAssumption == Profiles \subseteq {"unwind", "abort"}

Job == [kind: {"chunk", "bail"}, data: Seq(Byte), rest: Seq(Byte)]

VARIABLES queue, sender, holder, poisoned, worker, running   \* see ThreadPool
VARIABLES
  mode,      \* "bytes": wc_bytes, "all": wc_all
  profile,   \* the panic strategy of the build
  files,     \* the inputs not yet opened
  opened,    \* the inputs opened so far
  chunks,    \* what the reader of the current input has yet to deliver
  total,     \* the shared counters
  main,      \* where the main thread is
  joined     \* threads joined so far

INSTANCE ThreadPool

pool == <<queue, sender, holder, poisoned, worker, running>>
setting == <<mode, profile>>
reading == <<files, opened, chunks>>
wcVars == <<queue, sender, holder, poisoned, worker, running, mode, profile, files,
          opened, chunks, total, main, joined>>

Counter == {"bytes", "chars", "words", "lines", "max_line_length"}
Zero == [c \in Counter |-> 0]
Add(t, u) == [c \in Counter |-> t[c] + u[c]]

MainState == {"read", "submit", "joining", "panicked", "success", "failure"}
ProcessAlive == main \notin {"success", "failure"}

WcInit ==
  /\ New
  /\ mode \in {"bytes", "all"} /\ profile \in Profiles
  /\ files \in Files
  /\ opened = <<>> /\ chunks = <<>>
  /\ total = Zero
  /\ main = "read" /\ joined = 0

-----------------------------------------------------------------------------
(* Counting. *)

Positions(s, class) == {i \in 1..Len(s) : s[i] \in class}
NewlineEnds(s) == s # <<>> /\ Last(s) = "nl"

\* Mutant of CountBytes: the newline at the end is no byte.
CountBytesNoNewline(data) ==
  [Zero EXCEPT !["bytes"] = Len(data),
               !["lines"] = Cardinality(Positions(data, {"nl"})) + 1]

\* count_bytes: always one more byte and line, "the newline at the end".
CountBytes(data) ==
  [Zero EXCEPT !["bytes"] = Len(data) + 1,
               !["lines"] = Cardinality(Positions(data, {"nl"})) + 1]

\* BytesToChars: the first bytes of the characters; a panic is the last element.
Width(b) == CASE b = "lead" -> 2 [] b = "cont" -> 0 [] OTHER -> 1
Chars[data \in Seq(Byte)] ==
  IF data = <<>> THEN <<>>
  ELSE IF Width(data[1]) \notin 1..Len(data) THEN <<"panic">>
  ELSE <<data[1]>> \o Chars[From(data, Width(data[1]) + 1)]
Invalid(data) == Chars[data] # <<>> /\ Last(Chars[data]) = "panic"

\* The lengths of the lines of s that a newline ends.
LineLengths(s) ==
  LET ends == Positions(s, {"nl"})
  IN  {n - 1 - Max({0} \cup {m \in ends : m < n}) : n \in ends}

\* Words are the maximal runs of characters that are not white.
WordEnds(s, white) ==
  {i \in 1..Len(s) : s[i] \notin white /\ (i = Len(s) \/ s[i + 1] \in white)}

\* count_all
CountAll(data) ==
  LET chars == Chars[data]
      final == IF NewlineEnds(chars) THEN 0 ELSE 1
  IN  [bytes |-> Len(data) + final,
       chars |-> Len(chars) + final,
       words |-> Cardinality(WordEnds(chars, {"nl", "ws"})),
       lines |-> Cardinality(Positions(chars, {"nl"})) + final,
       max_line_length |-> Max({0} \cup LineLengths(chars))]

\* run(): a bailed-out job reads the rest of the input itself.
Contents(job) == job.data \o job.rest
Count(job) == IF mode = "bytes" THEN CountBytes(Contents(job)) ELSE CountAll(Contents(job))
Fails(job) == \/ mode = "all" /\ Invalid(Contents(job))
              \/ job.kind = "bail"       \* read error
Succeeds(job) == ~(mode = "all" /\ Invalid(Contents(job)))

-----------------------------------------------------------------------------
(* The main thread. *)

AfterPanic == IF profile = "abort" THEN "failure" ELSE "panicked"

Open ==
  /\ main = "read" /\ chunks = <<>> /\ files # <<>>
  /\ files' = Tail(files)
  /\ opened' = Append(opened, Head(files))
  /\ chunks' = Split[Head(files)]
  /\ UNCHANGED <<pool, setting, total, main, joined>>

\* "Unable to read": the input is skipped.
OpenFails ==
  /\ main = "read" /\ chunks = <<>> /\ files # <<>>
  /\ files' = Tail(files)
  /\ UNCHANGED <<pool, setting, opened, chunks, total, main, joined>>

\* The reader has the next chunk.
NextChunk ==
  /\ main = "read" /\ chunks # <<>>
  /\ main' = "submit"
  /\ UNCHANGED <<pool, setting, reading, total, joined>>

\* submit() waits for room in the channel.
Submit ==
  /\ main = "submit"
  /\ Send(Head(chunks))
  /\ chunks' = Tail(chunks) /\ main' = "read"
  /\ UNCHANGED <<setting, files, opened, total, joined>>

\* send().unwrap() on a dead pool.
SubmitPanics ==
  /\ main = "submit" /\ SendFails
  /\ DropSender
  /\ main' = AfterPanic
  /\ UNCHANGED <<setting, reading, total, joined>>

\* chunk.unwrap() on a read error.
ReadPanics ==
  /\ main = "read" /\ chunks # <<>>
  /\ DropSender
  /\ main' = AfterPanic
  /\ UNCHANGED <<setting, reading, total, joined>>

Finish ==
  /\ main = "read" /\ chunks = <<>> /\ files = <<>>
  /\ DropSender
  /\ main' = "joining"
  /\ UNCHANGED <<setting, reading, total, joined>>

\* The counters are printed once all the threads have been joined, and print!
\* panics when stdout cannot be written.
Join ==
  /\ main = "joining"
  /\ \/ /\ worker[joined + 1] = "exited"
        /\ joined' = joined + 1
        /\ main' \in IF joined' = Size THEN {"success", AfterPanic} ELSE {main}
     \/ /\ worker[joined + 1] = "panicked"
        /\ main' = AfterPanic
        /\ UNCHANGED joined
  /\ UNCHANGED <<pool, setting, reading, total>>

Exit ==
  /\ main = "panicked"
  /\ main' = "failure"
  /\ UNCHANGED <<pool, setting, reading, total, joined>>

Main ==
  \/ Open \/ OpenFails \/ ReadPanics
  \/ NextChunk \/ Submit \/ SubmitPanics
  \/ Finish \/ Join \/ Exit

-----------------------------------------------------------------------------
(* The worker threads. *)

WorkerLoop(w) ==
  /\ Acquire(w) \/ AcquirePoisoned(w) \/ Recv(w) \/ Disconnected(w)
  /\ UNCHANGED <<setting, reading, total, main, joined>>

\* Mutant of JobDone: store() for fetch_add().
JobDoneStores(w) ==
  /\ worker[w] = "run" /\ Succeeds(running[w])
  /\ total' = Count(running[w])
  /\ Return(w)
  /\ UNCHANGED <<setting, reading, main, joined>>

\* The additions to the counters are one step: nobody reads them before the end.
JobDone(w) ==
  /\ worker[w] = "run" /\ Succeeds(running[w])
  /\ total' = Add(total, Count(running[w]))
  /\ Return(w)
  /\ UNCHANGED <<setting, reading, main, joined>>

JobFails(w) ==
  /\ worker[w] = "run" /\ Fails(running[w])
  /\ \/ profile = "unwind" /\ JobPanics(w) /\ UNCHANGED main
     \/ profile = "abort" /\ main' = "failure" /\ UNCHANGED pool
  /\ UNCHANGED <<setting, reading, total, joined>>

WorkerStep(w) == WorkerLoop(w) \/ JobDone(w) \/ JobFails(w)

-----------------------------------------------------------------------------

\* The process has ended: the only state in which the system may stop.
WcEnded == ~ProcessAlive /\ UNCHANGED wcVars

WcNext ==
  \/ ProcessAlive /\ (Main \/ \E w \in Workers : WorkerStep(w))
  \/ WcEnded

WcSpec == WcInit /\ [][WcNext]_wcVars

-----------------------------------------------------------------------------
(* Safety. *)

Sum(counts) == FoldLeft(Add, Zero, counts)
CountsOf(t) == LET jobs == Split[t] IN Sum([i \in 1..Len(jobs) |-> Count(jobs[i])])

\* What is printed counts every chunk of every opened input exactly once,
\* whichever workers counted them and however the additions were interleaved.
EveryChunkCounted ==
  main = "success" => total = Sum([i \in 1..Len(opened) |-> CountsOf(opened[i])])

\* `wc -b` and `wc -l` are off by at most one for each input, both by as much.
BytesModeOffByOne ==
  main = "success" /\ mode = "bytes" =>
    LET all   == FlattenSeq(opened)
        newlines == Cardinality(Positions(all, {"nl"}))
    IN  /\ total["bytes"] - Len(all) = total["lines"] - newlines
        /\ total["bytes"] - Len(all) \in 0..Len(opened)

\* A word is never cut in two, nor are two joined: the words of the chunks are
\* the words of the inputs, also when a line is bailed out.
ChunkingKeepsWords ==
  main = "success" /\ mode = "all" =>
    total["words"] =
      FoldLeft(+, 0, [i \in 1..Len(opened) |->
                        Cardinality(WordEnds(Chars[opened[i]], {"nl", "ws"}))])

\* UTF-8: a continuation byte after every lead byte, and nowhere else.
ValidUtf8(t) ==
  {i + 1 : i \in Positions(t, {"lead"})} = Positions(t, {"cont"})

\* "taking care of proper multibyte char boundaries": cutting a valid text into
\* chunks splits no character, so that a job fails only on an invalid text or on
\* a read error after a bail-out.
BoundariesRespected ==
  poisoned => \E i \in 1..Len(opened) :
                \/ ~ValidUtf8(opened[i])
                \/ Last(Split[opened[i]]).kind = "bail"
=============================================================================
