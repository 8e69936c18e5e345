-------------------------------- MODULE Sort --------------------------------
(***************************************************************************)
(* src/bin/sort.rs: the main thread cuts the input into batches of lines   *)
(* and submits one Sort job per batch to a thread pool; now and then it    *)
(* takes the sorted chunks that are ready and submits jobs to merge them,  *)
(* in memory or into a temporary file; when the input is exhausted it      *)
(* waits for the pool and merges what there is onto stdout.                *)
(*                                                                         *)
(* A line is a number, its place in the byte order; its length is          *)
(* LineLen[line].  A write that fails may leave one of the Fronts of a     *)
(* line, a read that fails one of its Backs, which are lines, too.  A      *)
(* chunk is the sequence of the lines it still holds, its head (peek)      *)
(* included.                                                               *)
(***************************************************************************)
EXTENDS Naturals, Sequences, FiniteSets, SequencesExt

CONSTANTS Size, NoJob,     \* see ThreadPool; Size is --parallel
          Line, LineLen,   \* the lines there are, and their lengths
          Fronts, Backs,   \* the parts of a line without its end, or its start
          Payloads,        \* inputs and options: see Init
          NWayMerge,       \* N_WAY_MERGE
          Profiles         \* the panic strategies of the build

ASSUME ParallelAssumption == Size \in Nat \ {0}     \* NonZeroU32
ASSUME LineAssumption == Line \subseteq Nat /\ LineLen \in [Line -> Nat]
ASSUME PartsAssumption ==
  /\ Fronts \in [Line -> SUBSET Line] /\ Backs \in [Line -> SUBSET Line]
  /\ \A l \in Line : \A p \in Fronts[l] : Fronts[p] \subseteq Fronts[l]

\* line_iter: an input that cannot be opened delivers nothing, and an error drops
\* what has been read of a line (`line.ok()`), whose end is taken for a line.
Delivered(l) == {<<l>>, <<>>} \cup {<<p>> : p \in Backs[l]}
Deliveries(text) ==
  LET lines == UNION {Delivered(text[i]) : i \in 1..Len(text)}
  IN  {FlattenSeq(f) : f \in {g \in [1..Len(text) -> lines] :
                                \A i \in 1..Len(text) : g[i] \in Delivered(text[i])}}

\* The lines of the inputs, those that are read of them, and the options.
ASSUME PayloadsAssumption ==
  \A p \in Payloads :
    /\ p \in [text: Seq(Line), read: Seq(Line), batch_size: Nat \ {0}, buffer_size: Nat \ {0}]
    /\ p.read \in Deliveries(p.text)
ASSUME NWayMergeAssumption == NWayMerge \in Nat \ {0}
ASSUME ProfilesAssumption == Profiles \subseteq {"unwind", "abort"}

\* enum SortJob: the lines of a batch, or of each of the chunks to merge.
Job == [kind: {"sort", "merge", "merge_flush"}, parts: Seq(Seq(Line))]
ASSUME NoJobIsNone == NoJob \notin Job

\* struct SortedChunk; a chunk is flushed when its source is a File.
Chunk == [lines: Seq(Line), merged: BOOLEAN, flushed: BOOLEAN]

VARIABLES queue, sender, holder, poisoned, worker, running   \* see ThreadPool
VARIABLES
  payload,     \* the input and the options of this invocation
  profile,     \* the panic strategy of the build
  rest,        \* what line_iter has yet to deliver
  exhausted, bytes, batches,   \* local variables of sort()
  pending,     \* the jobs sort() is about to submit
  chunks,      \* the vector the jobs push their results to
  main,        \* where the main thread is
  joined,      \* threads joined so far
  output,      \* what has been written to stdout
  emptyChunk,  \* history: a batch was empty, and its chunk from the start
  lost         \* history: a BufWriter could not write all that it was given

INSTANCE ThreadPool

locals == <<rest, exhausted, bytes, batches, pending>>
history == <<emptyChunk, lost>>
pool == <<queue, sender, holder, poisoned, worker, running>>
setting == <<payload, profile>>
vars == <<queue, sender, holder, poisoned, worker, running, payload, profile, rest,
          exhausted, bytes, batches, pending, chunks, main, joined, output, emptyChunk,
          lost>>

(***************************************************************************)
(* "collect", "sort", "request", "announce", "merges": reading a batch,    *)
(* submitting it, taking chunks to merge, the message before a merge is    *)
(* submitted, submitting it;  "finish", "joining": before and in           *)
(* executor.finish();  "print": the final merge;  "success", "failure":    *)
(* the process ended;  "panicked": the main thread unwinds.                *)
(***************************************************************************)
MainState == {"collect", "sort", "request", "announce", "merges", "finish", "joining",
              "print", "panicked", "success", "failure"}
ProcessAlive == main \in MainState \ {"success", "failure"}

Init ==
  /\ New
  /\ payload \in Payloads
  /\ profile \in Profiles
  /\ rest = payload.read
  /\ exhausted = FALSE /\ bytes = 0 /\ batches = 0
  /\ pending = <<>> /\ chunks = <<>>
  /\ main = "collect" /\ joined = 0
  /\ output = <<>>
  /\ emptyChunk = FALSE /\ lost = FALSE

-----------------------------------------------------------------------------
(* Merging sorted chunks with a heap. *)

\* Ord for SortedChunk, as `<=`: reversed on the heads, Equal without them.
ChunkLeq(c, d) == c = <<>> \/ d = <<>> \/ Head(d) <= Head(c)

Heap == INSTANCE BinaryHeap WITH Element <- Seq(Line), Leq <- ChunkLeq

\* Mutant of Drained: the limit is not looked at.
DrainedAll(c, limit) == Len(c)

\* drain_until: how many lines leave chunk c, up to the first one, but never the
\* very first, that exceeds the limit.
Drained(c, limit) ==
  LET stop == {k \in 1..(Len(c) - 1) : c[k + 1] > limit}
  IN  IF stop = {} THEN Len(c) ELSE Min(stop)

\* One round of `while let Some(chunk) = merge.pop()`: the chunk is drained up to
\* the head of the next one, or completely when peek().peek() is None.
MergeRound(state) ==
  LET chunk == Heap!Peek(state.heap)
      left  == Heap!Popped(state.heap)
      k     == IF left = <<>> \/ left[1] = <<>> THEN Len(chunk)
               ELSE Drained(chunk, Head(left[1]))
  IN  [out  |-> state.out \o SubSeq(chunk, 1, k),
       heap |-> IF k = Len(chunk) THEN left
                ELSE Heap!PushOnto(left, SubSeq(chunk, k + 1, Len(chunk)))]

\* The whole loop, and its use: it starts with the heap that `collect` builds.
MergeState == [heap: Seq(Seq(Line)), out: Seq(Line)]
Merged[state \in MergeState] ==
  IF state.heap = <<>> THEN state.out ELSE Merged[MergeRound(state)]
MergeAll(parts) == Merged[[heap |-> Heap!FromVec(parts), out |-> <<>>]]

\* sort() of a vector: its lines in an order that has no line before a smaller one.
Sorted(s) ==
  LET positions == 1..Len(s)
      order == CHOOSE p \in Bijection(positions, positions) :
                 \A i, j \in positions : i < j => s[p[i]] <= s[p[j]]
  IN  [i \in positions |-> s[order[i]]]

\* SortJob::run, up to the push to `chunks`.
Result(job) ==
  [lines   |-> IF job.kind = "sort" THEN Sorted(job.parts[1]) ELSE MergeAll(job.parts),
   merged  |-> job.kind # "sort",
   flushed |-> job.kind = "merge_flush"]

\* What there is of lines of which a BufWriter has not written all: the first ones,
\* and maybe the front of the next.
CutOff(lines) ==
  UNION {{SubSeq(lines, 1, k)} \cup {Append(SubSeq(lines, 1, k), p) : p \in Fronts[lines[k + 1]]} :
           k \in 0..(Len(lines) - 1)}

Lines(chunk) == chunk.lines
LinesOfEach(cs) == [i \in 1..Len(cs) |-> Lines(cs[i])]

-----------------------------------------------------------------------------
(* The main thread. *)

\* The size of the input after k lines of the batch have been read.
BytesAfter(k) == FoldLeft(LAMBDA n, l : n + LineLen[l], bytes, SubSeq(rest, 1, k))

\* The inner loop of sort(): it stops at the batch size, at the buffer size, or
\* when the iterator has no more lines.
Collect ==
  LET full(k) == k >= payload.batch_size \/ BytesAfter(k) >= payload.buffer_size
      count == Min({k \in 0..Len(rest) : full(k) \/ k = Len(rest)})
  IN  /\ main = "collect"
      /\ rest' = SubSeq(rest, count + 1, Len(rest))
      /\ bytes' = BytesAfter(count)
      /\ exhausted' = ~full(count)
      /\ pending' = <<[kind |-> "sort", parts |-> <<SubSeq(rest, 1, count)>>]>>
      /\ emptyChunk' = (emptyChunk \/ count = 0)
      /\ main' = "sort"
      /\ UNCHANGED <<pool, setting, batches, chunks, joined, output, lost>>

\* executor.submit of the Sort job, and the condition to merge.
SubmitSort ==
  /\ main = "sort"
  /\ Send(Head(pending))
  /\ pending' = <<>>
  /\ IF ~exhausted /\ (bytes > payload.buffer_size \/ batches + 1 > NWayMerge)
     THEN main' = "request" /\ batches' = 0
     ELSE /\ main' = IF exhausted THEN "finish" ELSE "collect"
          /\ batches' = batches + 1
  /\ UNCHANGED <<setting, rest, exhausted, bytes, chunks, joined, output, history>>

\* Whether a chunk has been merged or flushed; the chunks of which this is so, or
\* is not, in their order.
IsDone(c) == c.flushed \/ c.merged
Those(cs, done) ==
  FlattenSeq([i \in 1..Len(cs) |-> IF IsDone(cs[i]) = done THEN <<cs[i]>> ELSE <<>>])

\* The parts of the merge jobs: as many as fit into one job, and the others.
Dealt[cs \in Seq(Seq(Line))] ==
  IF cs = <<>> THEN <<>>
  ELSE IF Len(cs) <= NWayMerge THEN <<cs>>
  ELSE <<SubSeq(cs, 1, NWayMerge)>> \o Dealt[SubSeq(cs, NWayMerge + 1, Len(cs))]

\* Mutant of Request: the chunks that are not merged are not put back.
RequestForgets ==
  LET kind  == IF bytes > payload.buffer_size THEN "merge_flush" ELSE "merge"
      group == Dealt[LinesOfEach(Those(chunks, FALSE))]
  IN  /\ main = "request"
      /\ chunks' = <<>>
      /\ pending' = [i \in 1..Len(group) |-> [kind |-> kind, parts |-> group[i]]]
      /\ bytes' = 0
      /\ main' = IF group = <<>> THEN "collect" ELSE "announce"
      /\ UNCHANGED <<pool, setting, rest, exhausted, batches, joined, output, history>>

\* Under the lock: chunks merged or flushed before go back, the others are
\* dealt out to merge jobs.
Request ==
  LET kind  == IF bytes > payload.buffer_size THEN "merge_flush" ELSE "merge"
      group == Dealt[LinesOfEach(Those(chunks, FALSE))]
  IN  /\ main = "request"
      /\ chunks' = Those(chunks, TRUE)
      /\ pending' = [i \in 1..Len(group) |-> [kind |-> kind, parts |-> group[i]]]
      /\ bytes' = 0
      /\ main' = IF group = <<>> THEN "collect" ELSE "announce"
      /\ UNCHANGED <<pool, setting, rest, exhausted, batches, joined, output, history>>

Announce ==
  /\ main = "announce"
  /\ main' = "merges"
  /\ UNCHANGED <<pool, setting, locals, chunks, joined, output, history>>

SubmitMerge ==
  /\ main = "merges"
  /\ Send(Head(pending))
  /\ pending' = Tail(pending)
  /\ main' = IF Len(pending) = 1 THEN "collect" ELSE "announce"
  /\ UNCHANGED <<setting, rest, exhausted, bytes, batches, chunks, joined, output, history>>

AfterPanic == IF profile = "abort" THEN "failure" ELSE "panicked"

\* submit() panics when every worker is dead.
SubmitPanics ==
  /\ main \in {"sort", "merges"} /\ SendFails
  /\ DropSender
  /\ main' = AfterPanic
  /\ UNCHANGED <<setting, locals, chunks, joined, output, history>>

\* eprintln! panics when stderr cannot be written: of an input that cannot be
\* opened or of the lines of a batch, of a merge, or before finish().
MessagePanics ==
  /\ main \in {"collect", "announce", "finish"}
  /\ DropSender
  /\ main' = AfterPanic
  /\ UNCHANGED <<setting, locals, chunks, joined, output, history>>

\* Mutants of Finish: the final merge does not wait for the pool, or the threads
\* are joined with the sender still alive.
FinishWithoutJoin ==
  /\ main = "finish"
  /\ DropSender
  /\ main' = "print"
  /\ UNCHANGED <<setting, locals, chunks, joined, output, history>>
FinishKeepsSender ==
  /\ main = "finish"
  /\ main' = "joining"
  /\ UNCHANGED <<pool, setting, locals, chunks, joined, output, history>>

\* executor.finish()
Finish ==
  /\ main = "finish"
  /\ DropSender
  /\ main' = "joining"
  /\ UNCHANGED <<setting, locals, chunks, joined, output, history>>

Join ==
  /\ main = "joining"
  /\ \/ /\ worker[joined + 1] = "exited"
        /\ joined' = joined + 1
        /\ main' = IF joined' = Size THEN "print" ELSE main
     \/ /\ worker[joined + 1] = "panicked"
        /\ main' = AfterPanic
        /\ UNCHANGED joined
  /\ UNCHANGED <<pool, setting, locals, chunks, output, history>>

\* The merge onto stdout, and exit(0).
PrintAll ==
  /\ main = "print"
  /\ output' = MergeAll(LinesOfEach(chunks))
  /\ chunks' = <<>>
  /\ main' = "success"
  /\ UNCHANGED <<pool, setting, locals, joined, history>>

\* The BufWriter around stdout is dropped, which ignores an error of its last
\* write: exit(0) all the same.
PrintLosesTail ==
  /\ main = "print"
  /\ output' \in CutOff(MergeAll(LinesOfEach(chunks)))
  /\ chunks' = <<>>
  /\ main' = "success" /\ lost' = TRUE
  /\ UNCHANGED <<pool, setting, locals, joined, emptyChunk>>

\* A write to stdout or a read of a temporary file fails half way, or a message
\* before or after the merge cannot be written.
PrintPanics ==
  /\ main = "print"
  /\ LET all == MergeAll(LinesOfEach(chunks)) IN output' \in {all} \cup CutOff(all)
  /\ main' = AfterPanic /\ lost' = TRUE
  /\ UNCHANGED <<pool, setting, locals, chunks, joined, emptyChunk>>

Exit ==
  /\ main = "panicked"
  /\ main' = "failure"
  /\ UNCHANGED <<pool, setting, locals, chunks, joined, output, history>>

Main ==
  \/ Collect \/ SubmitSort \/ Request \/ Announce \/ SubmitMerge \/ SubmitPanics
  \/ MessagePanics \/ Finish \/ Join \/ PrintAll \/ PrintLosesTail \/ PrintPanics \/ Exit

-----------------------------------------------------------------------------
(* The worker threads. *)

WorkerLoop(w) ==
  /\ Acquire(w) \/ AcquirePoisoned(w) \/ Recv(w) \/ Disconnected(w)
  /\ UNCHANGED <<setting, locals, chunks, main, joined, output, history>>

\* The chunk that a job pushes; that of a temporary file whose BufWriter was dropped,
\* which ignores an error of its last write.
Push(w) ==
  /\ chunks' = Append(chunks, Result(running[w]))
  /\ UNCHANGED history
PushCutOff(w) ==
  /\ running[w].kind = "merge_flush"
  /\ LET whole == Result(running[w])
     IN  \E kept \in CutOff(whole.lines) :
           chunks' = Append(chunks, [whole EXCEPT !.lines = kept])
  /\ lost' = TRUE /\ UNCHANGED emptyChunk

JobDone(w) ==
  /\ Return(w) /\ Push(w)
  /\ UNCHANGED <<setting, locals, main, joined, output>>

JobLosesTail(w) ==
  /\ Return(w) /\ PushCutOff(w)
  /\ UNCHANGED <<setting, locals, main, joined, output>>

\* A job panics: of an error of its temporary file, or of its message, when it has
\* pushed its chunk.
JobFails(w) ==
  /\ worker[w] = "run"
  /\ \/ running[w].kind = "merge_flush" /\ UNCHANGED <<chunks, history>>
     \/ Push(w) \/ PushCutOff(w)
  /\ \/ profile = "unwind" /\ JobPanics(w) /\ UNCHANGED main
     \/ profile = "abort" /\ main' = "failure" /\ UNCHANGED pool
  /\ UNCHANGED <<setting, locals, joined, output>>

WorkerStep(w) == WorkerLoop(w) \/ JobDone(w) \/ JobLosesTail(w) \/ JobFails(w)

-----------------------------------------------------------------------------

\* The process has ended: the only state in which the system may stop.
Ended == ~ProcessAlive /\ UNCHANGED vars

Next ==
  \/ ProcessAlive /\ (Main \/ \E w \in Workers : WorkerStep(w))
  \/ Ended

Spec == Init /\ [][Next]_vars

-----------------------------------------------------------------------------
(* Safety. *)

JobLines(jobs) == FlattenSeq([i \in 1..Len(jobs) |-> FlattenSeq(jobs[i].parts)])
RunningJobs ==
  FlattenSeq([w \in Workers |-> IF running[w] = NoJob THEN <<>> ELSE <<running[w]>>])

\* How often line l occurs in s.
Copies(l, s) == Cardinality({i \in 1..Len(s) : s[i] = l})

\* Every line that has been read is in exactly one place: not yet read, in a job on its
\* way to a worker, in a running job, in a chunk, or printed.  Taking chunks out
\* of the vector while workers push to it neither drops nor doubles one.
LinesConserved ==
  ~poisoned /\ ~lost /\ main \notin {"panicked", "failure"} =>
    \A l \in Line :
      Copies(l, payload.read) =
        Copies(l, rest \o JobLines(pending \o queue \o RunningJobs)
                       \o FlattenSeq(LinesOfEach(chunks)) \o output)

\* sort exits with success only when it has printed as many lines as the reads of
\* its inputs delivered, or a BufWriter has not written all (neither a read that
\* fails nor such a write changes the exit status); when a job failed it prints
\* nothing; in no case more lines, nor one that was not read and is not the front
\* of one that was, and no such front either as long as every BufWriter wrote all.
PrintsEverything ==
  /\ main = "success" /\ ~lost => Len(output) = Len(payload.read)
  /\ poisoned => output = <<>>
  /\ Len(output) <= Len(payload.read)
  /\ \A i \in 1..Len(output) : \E j \in 1..Len(payload.read) :
       output[i] \in {payload.read[j]} \cup Fronts[payload.read[j]]
  /\ ~lost => \A l \in Line : Copies(l, output) <= Copies(l, payload.read)

\* What is printed is sorted, unless a batch was empty, or a BufWriter has not
\* written all: the front of a line may be smaller than the lines before it.
SortedWithoutEmptyChunks ==
  ~emptyChunk /\ ~lost =>
    /\ IsSorted(output, <=)
    /\ \A i \in 1..Len(chunks) : IsSorted(Lines(chunks[i]), <=)

-----------------------------------------------------------------------------
(* Blocking. *)

\* Worker w is not blocked.
CanMove(w) ==
  \/ worker[w] = "lock" /\ holder = NoWorker
  \/ worker[w] = "recv" /\ (queue # <<>> \/ ~sender)
  \/ worker[w] = "run"

\* "this could block if all workers are busy": while main waits for room in the
\* channel or for a thread to end, some worker can go on, or what main waits for
\* has come.  As every step makes progress, main is never blocked for ever.
NobodyWaitsForEver ==
  /\ main \in {"sort", "merges"} /\ Len(queue) = Size =>
       ~ReceiverAlive \/ \E w \in Workers : CanMove(w)
  /\ main = "joining" =>
       worker[joined + 1] \in Over \/ \E w \in Workers : CanMove(w)

-----------------------------------------------------------------------------
(* What the documentation says and the code does not do. *)

\* "sort lines of text files", and of the comparison with an empty chunk, "these
\* cases will not occur"; also when every BufWriter writes all that it is given.
OutputSorted == ~lost => IsSorted(output, <=)
=============================================================================
