# TLA+ specifications of coreutils-rs

coreutils-rs (`src/`, one Rust crate) is a set of small Unix programs
(`src/src/bin/*.rs`) and a library of the parts they share (`src/src/*.rs`): a
thread pool, a reader that cuts its input into chunks, and helpers for input and
output.  This directory holds TLA+ models of the parts whose behaviour is hard to
test (threads, races with other processes, partial reads and writes, failures half
way), TLC configurations that check them on small instances, and proofs, checked by
TLAPS, of the properties of the two library modules on which the threaded programs
rest, and of sort, xargs, ping, timeout, tail, less and du.

All line numbers below are those of the files under `src/src/`.

- [1. The system](#1-the-system)
- [2. Modules and how they map to the code](#2-modules-and-how-they-map-to-the-code)
- [3. What the runs check](#3-what-the-runs-check)
- [4. What is proved](#4-what-is-proved)
- [5. Where the code and its documentation differ](#5-where-the-code-and-its-documentation-differ)
- [6. What is not modelled](#6-what-is-not-modelled)
- [7. Plan](#7-plan)

## 1. The system

### The library

| Component | State | Operations | Used by |
|---|---|---|---|
| `executor.rs`: `Executor`, `ThreadPool` | a bounded channel (`sync_channel(size)`), its receiver in a `Mutex` shared by `size` threads, the threads' join handles | `new`, `submit` (may block or panic), `finish`; the loop of each worker | sort, wc, xargs |
| `chunks.rs`: `ChunkedReader` | the input (an `Option`), the buffer, the leftover of the last cut | `new`, `next` | wc |
| `io.rs`: `Input`, `Output` | an open file or a standard stream | `try_from`, `as_bufread`, `into_bufread`, `write`, `flush` | most programs |
| `util.rs` | none | print the usage and exit, ring the bell | most programs |

### The programs

| Program | State | What is hard about it | What makes it correct |
|---|---|---|---|
| `sort` | lines being collected, byte and batch counts, the shared vector of sorted chunks (in memory or in temporary files), the pool | main takes chunks from the vector while workers push; merges are submitted to a channel that may be full; a heap whose order depends on the heads of the chunks; failing temporary files | every line is printed exactly once, sorted; main never blocks for ever; a failure never looks like success |
| `wc` | five shared atomic counters, the pool, a chunked reader per input | chunks counted by different threads; what a cut removes must be added back; multibyte characters at a cut; panics in workers | every chunk is counted once; cutting changes no count |
| `xargs` | the items not yet read, the pool | items are taken `n` at a time from a shared iterator; outputs of concurrent commands; commands that cannot be run | every item goes to exactly one command; outputs are not mixed; exit status 0 means that all ran |
| `ping` | the vector of slots in a mutex, the `running` flag, two threads | lost, late, duplicated, reordered and foreign packets; a sequence number of 16 bits; a panic with the mutex held; Ctrl-C | a reply marks its own slot; the statistics count requests; ping ends |
| `timeout` | the child, the start time | the child ends between the poll and the look at the clock | the child is not killed early; the exit status tells what happened |
| `tail` | file position, blocks read backwards, offset while following; a ring of lines for stdin | other processes append and truncate meanwhile; lines across blocks; newlines at block edges | the last lines, then everything that is appended, without a gap |
| `sponge` | the buffer, the output file | the process upstream may read the file that is written | nothing is written before the input has ended; all of it is written |
| `tee` | the outputs, one buffer | one write of several fails or is partial; line buffering of stdout | all outputs get the same bytes |
| `cat` | the current input, the line number | errors are passed over, in the middle of a line and between inputs | every line once, numbered; nothing out of order |
| `cut` | a range | open and empty ranges, 0, the largest number; lines that are too short | exactly the named units of every line |
| `pv` | one block, the time of the last drawing | the clock is set back; short reads and writes | the output is the input |
| `less` | scroll position, cursor, search; line editor | keys in any order in any mode; empty matches; positions at the end of the file; the screen is redrawn only on demand | positions inside the file; the screen shows the state; no panic but the known ones |
| `du` | a list of tasks, a stack of sizes | files vanish during the walk; the stack must follow the order of the tasks | each total is the sum of what is below |

### How they interact

```
  xargs ── submit(command) ──┐
  wc ───── submit(chunk) ────┼──> Executor ──> ThreadPool: channel ──> Mutex ──> workers
  sort ─── submit(batch/     │                                                    │
           merge) ───────────┘            counters (wc), chunks (sort), stdout (xargs)
  wc ────> ChunkedReader ──> reads
  cat, cut, pv, tee ──> stdout ──(pipe)──> sponge ──> Output, a file the first may read
  ping: main <── Mutex(slots) ──> listener;   timeout ──> child
```

The pool is used in the same way by its three clients: one thread submits jobs,
then calls `finish()`, which drops the sender and joins the threads in order.  What
jobs share besides (sort's vector of chunks, wc's counters, the locked stdout of
xargs) is the clients' business.

The filters meet outside the repository: in a pipeline of the shell, and in the files
that both ends of it use.  `Pipeline` is that composition.

## 2. Modules and how they map to the code

`PROJECT.json` maps every definition to the lines it stands for.  Each module has
Init, one action per step of the code, a specification, its properties, and, next to
some definitions, *mutants*: the same definition with a plausible bug, named after
the bug.  A mutant is used by no specification; substituted for the definition it
belongs to, it makes the property named in `PROJECT.json` fail, which shows that the
property does depend on that piece of code.

| Module | Models | Abstraction |
|---|---|---|
| `ThreadPool` | `executor.rs` 22-71: channel, mutex, the steps of a worker and the calls of the owner | A job is a value; what it does is added by the modules that use the pool. The mutex guard is a temporary of the `while let` scrutinee, so a worker holds the mutex *while the job runs*: `Recv` keeps `holder`. |
| `Executor` | `executor.rs` and an owner that submits any number of jobs and then calls `finish()`; both variants of the enum; unwinding panics and `panic = "abort"` (`Cargo.toml` 24-25) | Jobs are numbered in the order of submission. Ghost sequences `started` and `finished`. |
| `JobService` | the contract of `Executor`, with no pool, channel or mutex | Sets of jobs begun and done; up to `MaxConcurrent` may run at a time. |
| `BinaryHeap` | `std::collections::BinaryHeap` as far as sort uses it (external) | The algorithm itself, because sort's `Ord` is no order when a chunk is empty, and then the comparisons that the heap makes decide the output. |
| `Sort` | `bin/sort.rs` with the pool | A line is a number with a length, and the parts of it that a failed write or read may leave (`Fronts`, `Backs`) are lines, too. What the reads deliver of the inputs (`Deliveries`) is chosen at the start. A temporary file is a chunk with `flushed` set. A merge is one step of the worker that runs it (only the push to the vector is visible to others). |
| `ChunkSplit` | what the reader delivers for a text: the reference | Pure, no reads. |
| `ChunkedReader` | `chunks.rs`: `next()` over reads of any length, and errors | Bytes are model values. |
| `Wc` | `bin/wc.rs` with the pool | Bytes are classes (newline, other white space, space, ASCII, first and later byte of a two-byte character). Chunks are those of `ChunkSplit`, which `ChunkedReader` is checked against. Each job adds to the counters in one step: addition commutes, and main reads them only after the join. |
| `Xargs` | `bin/xargs.rs` on top of `Executor` (every action of `Executor` is extended, none is replaced) | An item is a sequence of byte classes, a command the items it gets; a command's output is its number. A read that fails is a mark in the input (`"err"`). |
| `Ping` | `bin/ping.rs`: both threads, the mutex, the network | A packet is a sequence number and a ghost: the request it answers. The sequence number wraps at `Wrap` instead of 2^16. |
| `Timeout` | `bin/timeout.rs`, the child and the clock | Time in ticks; nothing bounds how late the program is scheduled. The child may be one that may not be killed (`foreign`). |
| `Tail` | `bin/tail.rs`, and processes that append and truncate | Blocks of `Block` bytes instead of 2048; sleeps are left out (any delay is possible anyway). `out` is what has been written to the `LineWriter` of stdout, `shown` how much of it has gone through. |
| `Output` | `io.rs` 63-99: opening an output, adding to it; the `LineWriter` before stdout (external) | The contents of a file are a sequence of byte classes. |
| `Filter` | `bin/cat.rs`, `bin/pv.rs`, `bin/tee.rs` and the loop of `bin/cut.rs`: one state machine with the places where they differ | Blocks of `Block` bytes; every read and write may be short and may fail. A write to the pipe is atomic. tee's files are not its input. |
| `Cut` | `bin/cut.rs` 114-193: ranges and units, and a reference definition | `usize` up to `MaxUsize`; a character is one byte or two; the delimiter is one byte. |
| `Sponge` | `bin/sponge.rs`, with the file and with stdout | The pipe and the files are shared with other processes. |
| `Pipeline` | `filter FILE... \| sponge [-a] [file]`: `Filter` and `Sponge` by INSTANCE, over the same pipe and files | The two may name the same file. `stage` is where the filter is, `main` where sponge is. |
| `Less` | `bin/less.rs`: `ReadlineState`, `Pager` and the loop between them | Rendering is reduced to *which* position and search the screen was drawn with, and to the ways in which it panics (`DrawPanics`, `WriteFails`); a pattern has literals, `.`, `*` and one token that is always an error. |
| `Du` | `bin/du.rs`, processes that remove files, and readers of its outputs that quit | A tree of names with sizes, some of which cannot be looked at (`barred`); each name occurs once (`TreesAssumption`: no directory has two names or is inside itself). |
| `MC*` | values of the constants for TLC | |
| `DataLemmas`, `ExecutorProofs`, `ChunkProofs`, `WaitingProofs`, `TailProofs`, `SortProofs`, `DuProofs`, `PipelineProofs` | proofs, section 4 | |

### State and actions of the core, in detail

*ThreadPool.* `queue` is the channel (`Len(queue) <= Size`), `sender` whether the
`SyncSender` exists, `holder`/`poisoned` the `Mutex`, `worker[w]` where thread `w` is
(`"lock"`, `"recv"`, `"run"`, `"exited"`, `"panicked"`).  `Acquire` is a successful
`lock()`, `AcquirePoisoned` its `unwrap()` on a poisoned mutex, `Recv` the return of
`recv()` with a job, `Disconnected` its return of `Err` (sender gone *and* channel
empty), `Return` and `JobPanics` the end of `job.run()`: a panic drops the guard while
unwinding and poisons the mutex.  `Send` needs room in the channel; `SendFails` is the
panic of `send().unwrap()` when every worker, and so the receiver, is gone.

*Executor* adds the owner (`main`), the number of joined threads and the logs.  The
owner's steps are `Submit`, `Sent`/`SubmitPanics`, `RunInline`/`InlineReturns`/
`InlinePanics` (Synchronous), `Finish`/`FinishInline`, `Join`/`JoinPanics`, `Exit`.
After the process has ended no thread moves.

*Sort.* `main` walks through `"collect"` (the inner loop: stop at the batch size, the
buffer size or the end of the input), `"sort"` (submit the batch), `"request"` (under
the lock: chunks merged or flushed before are put back, the others are dealt out to
merge jobs of up to `NWayMerge` chunks), `"announce"` and `"merges"` (the message before each of
them, and its submission), and after the input `"finish"`, `"joining"`, `"print"` (the final
merge to stdout).  `Result(job)` is what a job pushes to the vector (`Push`); `JobFails` is a
panic on an error of a temporary file, or of the message after the push; `MessagePanics` is
one of main's messages that cannot be written.  `JobLosesTail` and `PrintLosesTail` are the
silent loss when a `BufWriter` is dropped and cannot write its buffer, recorded by the
history variable `lost`: `CutOff` of the lines remains, the first ones and maybe the front
of the next.  `payload.text` is the input, `payload.read` what its reads deliver: each line,
or nothing of it (the input could not be opened, or the read failed after the last byte of
it), or one of its `Backs`.

*ChunkedReader.* `phase = "reading"` while `next()` fills its buffer; `ReadSome` is a
read of any length that fits, followed by `Cut` (at the last delimiter, or the bail-out)
when it has filled the buffer; `ReadNothing` is the end of the input, `ReadError` an
error.

*Xargs* extends every action of `Executor` by what it does to the state of xargs and
replaces none: `CreateJob` is `create_job()` with the `submit()` that follows it,
`CommandEnds` and `WorkerCommandEnds(w)` a job that has run its command and written the
output, `CommandFails` and `WorkerCommandFails(w)` the panic of one that cannot.

*Tail.* `ReadStdin` is all of `tail_stdin`, with what is left of each line when a read
fails or it is not UTF-8 (`Left`); `Open`, `ReadBlock`, `PrintTail` and `Copy` are
`tail_filename`.  `ReadMeetsEnd` is a `read_exact()` of a file that has become shorter,
`IoFails` any other error, at any time.  `Write` adds to `out`, and passes on at least all
finished lines.

*Filter.* `phase = "open"` before an output (tee) or an input is opened, `"read"` until
there is a block or a line to use (`NeedsMore`), `"write"` while it goes to output number
`next`, of which stdout is the last.  `GiveUp` is what an error does: cat takes the next
input, cut panics, pv and tee end with 1.  `Exit` flushes what `LineWriter` holds and
ignores errors; a panic does so unless it aborts (`profile`).  `taken` (what has been read
of each input), `skipped` (an error was passed over, a line that is not UTF-8 included) are
history.

*Less.* One action for each group of keys of each mode: `InInitial`, `TypePattern`,
`TakeBack`, `EnterPattern`, `ArrowInPattern`, `TypeDigit`, `EnterNumber`, `Escape`, and
`Ignored`.  A key does what `ReadlineState::next` and the method of `Pager` it selects do,
and the drawing: `Draw`, or `Bell`, or `Panics`.  `WriteFails` is a write to the terminal
that fails, at the first screen or at what a key has written: a panic in `draw_onto`, an
error in `draw_status`.  `drawn` is what the screen shows.

*Du.* `tasks` is the linked list from its head, `carry` the stack; `ReadDir`, `Entry`,
`EntryFails`, `EntryPanics`, `MessagePanics` and `EndOfEntries` are the first half of
`DuTask::run`, `Summarize` is the second.

## 3. What the runs check

Every run is a pair of an `MC` module and a `.cfg` of the same name (a second `.cfg`
of a module has a suffix).  Deadlock is checked in all of them: the disjunct `Ended`
(`WcEnded`, `PipelineEnded`, ...) of each next-state relation names the states in which the
program may stop.

| Run | Expected | Question |
|---|---|---|
| `MCExecutor_parallel` | violated | "Threadpool implementation for parallel execution": does an accepted job start while another one takes for ever? |
| `MCSort` | holds | Are as many lines printed as were read, and in order (unless a batch was empty or a `BufWriter` could not write all); is any line in two places, or in none, before something fails; can main be blocked for ever? |
| `MCSort_empty_chunk` | violated | Is the output always sorted? |
| `MCChunkedReader` | holds | Do the items depend on the text only, however reads cut it; does it ever give up input that it has not delivered? |
| `MCWc` | holds | Is every chunk counted once; what do cuts change? |
| `MCXargs` | holds | Of the executor, as xargs uses it: is every submitted job run, once, in order and to its end before `finish()` returns; does a panic reach the owner; can anybody wait for ever; is it a `JobService`? Of xargs: does every item go to exactly one command; are outputs whole and ordered; what does exit status 0 mean? |
| `MCPing` | holds | Do replies find their slots, and what happens after the sequence number wraps; does ping end? |
| `MCTimeout` | holds | Is the command killed only late; what does the exit status say? |
| `MCTail` | holds | Are the last lines printed and everything that follows them, with others writing? |
| `MCPipeline` | holds | Is all input soaked up before anything is written; is the file complete, when both ends use it, and when the filter fails; do all outputs agree after any sequence of short reads, short writes and errors; what does success mean? |
| `MCLess` | holds | Can a sequence of keys move the pager out of the file or make it panic; does the screen follow; does a search typed letter by letter find what it should? |
| `MCDu` | holds | Are the totals sums, in whatever order entries come and whatever vanishes; can the stack run out? |

### The properties

*Executor.* `JobsRunOneAtATime`: the pool is serial, a
consequence of the guard's lifetime (and what makes the outputs of xargs ordered).
`SuccessMeansAllRan`: the promise of `finish()`.  `IndInv`: the inductive invariant of
section 4, checked before it is proved; it contains the type invariant, `NoJobLost` (as
long as a worker lives, the jobs accepted are those that started followed by those in the
channel) and, in `ExitInv` and `JoinInv`, `ShutdownOrder` (no worker leaves before the
sender is gone and the channel empty).  `ImplementsService`: refinement of `JobService`.  `Termination`
and `PanicEndsProcess`: neither `submit()` nor `join()` blocks for ever, and a poisoned
mutex always ends in a failure.

*Sort.* `LinesConserved`: until something fails, every line that the reads deliver is in
exactly one place (input, job, chunk, output).  `PrintsEverything`: success means that as
many lines were printed as were read, unless a `BufWriter` has not written all; a failed job
means that nothing was; and there is never a line in the output that was not read and is not
the front of one, nor, with all buffers written, one more often than it was read.
`SortedWithoutEmptyChunks`: chunks and output are sorted unless an empty batch was submitted
or a `BufWriter` has not written all (the front of a line may come after a greater
line).  `NobodyWaitsForEver`: when main waits for
room in the channel or for a thread, a worker can move.  As every step of `Sort` uses
up input, jobs or threads, there is no infinite behaviour without stuttering, and with
the absence of deadlock this is termination; it is stated as an invariant because the
fairness formula would have TLC evaluate every merge many times over.

*ChunkedReader.* `ItemsAsSplit`: the items are those of `Split[text]`, whatever the
reads return.  `LeftoverFits`: a read never gets an empty slice (it
would return 0, which means the end of the input).  `NothingLeftBehind`: the iterator
gives up its input only at the end of it, in a bail-out or after an error.

*Wc.* `EveryChunkCounted`, `BytesModeOffByOne` (the counts of `wc -b` and `wc -l` exceed
the real ones by at most one for each input, and by the same amount),
`ChunkingKeepsWords` (the sum over chunks is what the whole inputs have),
`BoundariesRespected` (a valid text never makes a job panic).

*Xargs.* `ItemsPassedOnce`, `OutputInOrder`, `SuccessMeansAllPassed`.  The items are those
that the reads deliver (`Separate`): an item interrupted by a failed read is dropped, what
follows is taken for an item, and the exit status is 0 all the same.

*Ping.* `RepliesFindTheirSlot`: before the sequence number wraps, slots are marked
exactly for the replies received, so that exit status 2 means that there was none.  `PoisonOnlyAfterWrap`: the only ways to poison the
mutex (a reply, or the message about one that is a duplicate or has no slot, that cannot be
printed, and sequence number 0).  `CtrlCEnds`, `PoisonEndsPing`.

*Timeout.* `StatusTellsTheEnd`: 124 is given, and a command killed, only if it was
running at the last poll and its time was up when the clock was read; otherwise the status
is the command's; if the command may not be killed, timeout panics, also only then.
`Termination`: timeout ends, and with it the command, unless that may not be killed or the
report of a failed poll could not be written; of a duration of 0 it says nothing (section 5).

*Tail.* `LastLinesPrinted`: of a file whose last line is ended, exactly the last lines it
had when it was opened are printed, and of any other file something that ends with
them.  `NothingMissed`: at any time, the output is a suffix of the original followed
by what was appended up to the cursor.  `AppendedIsPrinted`: under fairness, every line
appended that ends passes through stdout, unless the file is truncated or an error ends the
program; errors are not part of what is fair, so a behaviour without any has to print it.

*Pipeline.* `SoaksUpFirst`: as long as the filter may still read, the file sponge writes
is unchanged, or empty once it has been opened without `-a`; so a pipeline that appends to
the file it reads ends.  `FileIsComplete`: when sponge succeeds its file holds exactly
what it is to keep and what the filter sent, and that is all it should be if the filter
succeeded, passed over nothing, and was not robbed of its input.  `OutputsAgree`: every
output of the filter is a prefix of the reference (`Reference` defines what is to be made
of the bytes read, without blocks, lines across blocks or positions in a line), earlier
ones at least as far as later ones.  `SuccessIsComplete`: what exit status 0 of each filter
means.  The reference for cut is what its documentation says of a range, counted from
1; of ranges that start at 0 (as all of the form `-M` do in the code) these three say
nothing (`AsDocumented`; section 5).

*Less.* `ScreenInSync`: the screen was drawn with the current position and search, although
most keys do not draw.  `CursorOnScreen`: the screen starts at a line, with one exception,
and has the start of the match in its first or second line.  `PanicsExplained`: the complete list of the ways to panic.
`IncrementalFindsFirst`: each key of a pattern searches from where the search before it
went, and the result is still the first match after the place where it began, with one
exception.

*Du.* `TotalsAreSums`, `CarryFollowsTasks` (one size on the stack for each summary that is
due, and one more; together they are the sizes of all files seen), `PanicsOnlyOnErrors`
(an entry that is gone or cannot be looked at, or an output or message that nobody reads).

### Bounds, and why they are enough

| Run | Bounds | Why |
|---|---|---|
| `MCExecutor_parallel` | 3 threads, 3 jobs | As many threads as jobs. |
| `MCSort` | 2 threads, `NWayMerge` 2, lines of 3 values and 2 lengths and their parts, inputs of up to 4 lines (one of 5), batches of 1 or 2 lines, buffers of 2 or 3 bytes and without limit; all that reads can deliver of inputs of up to 2 lines | A merge starts with the third batch, so 4 lines give chunks that are merged, chunks put back and chunks from before. Batches end for all three reasons. The front of a line of 2 bytes is a line that may be out of order; a line may lose its start, or all. `HeapSorts` checks the heap itself on all vectors of up to 7 elements of 3 values. |
| `MCChunkedReader` | all texts of up to 6 bytes of 3, chunks of 3 | Up to two full buffers and a leftover of each possible size. |
| `MCWc` | 2 threads, chunks of 3, all texts of up to 4 bytes over the classes that interact, two and three inputs | Up to 4 chunks in flight, cuts in every position relative to newlines, characters and white space. |
| `MCXargs` | 3 threads, up to 6 commands, inputs of up to 3 bytes, reads that fail at any place among them, and three longer ones, 1 or 2 arguments | Threads are told apart only by the join order: 3 give a first, a middle and a last one, and two that wait for the mutex while one runs. 6 commands are more than the channel (3) and one running job hold, so `submit()` blocks; the shorter inputs make 0 to 3. The proofs cover every number. |
| `MCPing` | sequence numbers modulo 3, 4 requests, one foreign packet | The number wraps to 0 and goes on to collide with an old slot. |
| `MCTimeout` | durations 0 to 3, interval 2, clock up to 7 | Durations below, at and above the interval; the clock reaches any moment at which something may still happen. |
| `MCTail` | blocks of 2, initial files and stdin of up to 5 bytes of 2, appends up to 4 bytes, 0 to 2 lines | Three blocks; lines shorter and longer than a block. |
| `MCPipeline` | blocks of 3, files of up to 7 bytes, up to 3 inputs (missing and empty ones among them), up to 2 files besides stdout, all forms of ranges from 0 to the largest number | Lines and characters across one and two blocks, an unfinished last line, "\r\n", bytes that are not UTF-8; a first and a last output; ranges before, in and beyond a line; the file of sponge read by the filter, appended to, new, or stdout. |
| `MCLess` | files of 0, 1, 7 and 8 bytes, patterns of up to 2 characters, a screen of 2 rows | 2 characters give an incremental step, an empty match (`n*`), an invalid pattern and one of dots. With 3 characters (2.8 million states) the invariants hold too. One digit more than 9 overflows. |
| `MCDu` | a tree three directories deep with an empty one, three sets of entries that cannot be looked at, three combinations of inputs | Directories with siblings that come before or after them; sizes that tell all sets of files apart; any subset of the tree removed at any time. |

Bounds that appear in guards: `Job` (how many jobs a client submits), `MaxPings`,
`MaxTime`, `MaxSize`, `MaxPattern` (no more characters are typed into a pattern).

### Fairness, and why the code justifies it

- `Executor`, `Xargs`: weak fairness of the owner and of each worker separately.  They are
  operating-system threads, which are scheduled; jobs end (commands, sorting, counting a
  finite input).  Nothing stronger is needed: a worker that waits for the mutex may lose
  every race for it.  `PatientSpec` (for `MCExecutor_parallel`) drops the assumption that
  jobs end, because the question is what happens while one does not.
- `Ping`: weak fairness of the main thread only.  The listener and the network may do
  nothing for ever.
- `Timeout`: the program is scheduled and time passes; the child may run for ever.
- `Tail`: the program is scheduled; other processes do what they like, and errors
  (`IoFails`) need not come.

`Sort`, `ChunkedReader`, `Wc`, `Pipeline` and `Du` have no liveness property of their own:
each of their steps uses up input, jobs, threads, tasks or calls, so that a behaviour can
only end or be stuck, and the runs check that it is never stuck (deadlock, and
`NobodyWaitsForEver`).  That this is so of a pipeline that appends to the file it reads is
what `SoaksUpFirst` is for.  The exception is a read of cat -n or cut that fails
(`ReadFails`), which uses up nothing and may come for ever: see section 5.  `Less` goes on
as long as there are keys.

## 4. What is proved

For every value of the constants that satisfies the named assumptions.

### The thread pool (`ExecutorProofs`, from `SizeAssumption`, `NoJobAssumption`, `JobAssumption`, `KindsAssumption`, `ProfilesAssumption`)

`THEOREM Invariance == Spec => []IndInv`, and from it `TypeCorrect` (with `ChannelBound`:
no more jobs in the channel than there are threads), `NoJobIsLost`, `JobsAreSerial`, `FinishWaitsForAll` and `ShutsDownInOrder`, for the
properties that `MCXargs` checks and the parts of `IndInv` that a caller relies on.  None of these is inductive alone; `IndInv` adds

- `LockInv`: the holder of the mutex is the worker in `recv()` or in a job;
- `PoisonInv`: a poisoned mutex is held by nobody, and a thread has died: so nothing
  starts after a panic, and a join is going to fail;
- `LogInv`, `RunInv`: jobs start and return in the order of their numbers; at most one
  has started and not returned, and it is the running one unless there was a panic;
- `ExitInv`: a worker that has left its loop has seen the last job, because the sender
  was gone and the channel empty, and both stay so;
- `JoinInv`: threads are joined in order, all of them before `finish()` returns;
- `InlineInv`, `SendInv`: what a synchronous executor and a pending `send()` look like.

`SuccessMeansAllRan` follows: when `finish()` has returned, all threads have exited
(`JoinInv`), so everything submitted has started (`ExitInv`); no thread runs and none has
panicked, so everything that started has returned (`RunInv`, `PoisonInv`).

### Refinement (`ExecutorProofs`, from the same assumptions)

`THEOREM Refinement == Spec => ImplementsService`.  The mapping reads the abstract sets
off the logs and calls the service broken as soon as the mutex is poisoned or the process
has failed.  One more invariant is needed, `PanicInv`: the owner unwinds only after a
job has panicked.  Every step is then shown to be a step of `JobService` or a stutter,
action by action (`OwnerImplements`, `WorkerImplements`).

### xargs (`ExecutorProofs`, from these and `TextsAssumption`, `MaxArgsAssumption`)

`XargsUsesExecutor == XargsSpec => Spec`: a step of xargs is a step of `Executor`
(`StepIsExecutorStep`), so all of the above holds of xargs, and with `Refinement` it keeps
the contract of `JobService` (`XargsImplementsService`).  For `OutputsComeInOrder` one
more invariant is needed, `OutputLog`: the outputs written are the jobs that returned, in
that order; `LogInv` says that these are 1, 2, 3, ...

`EveryItemPassedOnce` (`ItemsPassedOnce`) and `SuccessIsComplete`
(`SuccessMeansAllPassed`) follow from `PassInv`, which adds to `ItemsPassedOnce` how many
commands have been made at each place of the owner (one more than jobs submitted while
`submit()` is under way), and that nothing is unread once the loop over the input is left.
What makes it inductive is `FlattenMove`: taking the next items from those unread and
appending them as a command leaves the commands, flattened, followed by the unread items,
as they were.

### timeout (`WaitingProofs`, from `DurationsAssumption`, `IntervalAssumption`, `CodesAssumption`, `MaxTimeAssumption`)

`StatusTellsTheEnd` speaks of the end only; the invariant `IInv` adds what leads there:
`ChildInv` (until the end there is a child that has not been killed) and `PollInv` (a child
that was found running has not exited before that poll, as long as the program has not
polled again, and the program goes on to kill it only because of the clock or an error).
A child that may not be killed stays so, and only a panic leaves it running.

### ping (`WaitingProofs`, from `WrapAssumption`, `MaxPingsAssumption`, `ForeignAssumption`, `VersionsAssumption`)

`RepliesAreMatched` and `PoisonExplained`.  Neither property is inductive: `IInv` adds
`SlotInv` (a request on the network has a slot) and `PacketInv` (a packet on its way, or
in the hands of the listener, is foreign or has the number of the request it answers; the
listener works on none while it waits for one).  `OwnSlot` is the heart of it: before the
wrap, the number in a packet is that of its slot, as `i % Wrap = i` (`SequenceOfSlot`).

### The chunked reader (`ChunkProofs`, from `ChunkAssumption`, `TextsAssumption`)

`Invariance`: `TypeOK /\ LeftoverFits /\ NothingLeftBehind` is inductive as it stands;
`LeftoverAlwaysFits` and `NothingIsLeftBehind` are its parts.  The lemma `CutStep` carries
the argument: a cut leaves less than the buffer, because the delimiter itself is dropped.

`ItemsDoNotDependOnReads` (`ItemsAsSplit`) rests on `SplitInv`: as long as the reader has
its input, the items delivered, followed by `Split` of what is ahead (buffer, leftover and
unread input), are `Split` of the text.  A read moves bytes from the unread input to the
buffer and changes nothing of what is ahead; a cut is one unfolding of `Split`.

### wc (`ChunkProofs`, from `ChunkAssumption`, `ByteAssumption`, `ProcessorsAssumption`, `FilesAssumption`, `ProfilesAssumption`)

All four invariants of `Wc`, from `WcInv` (`WcInvariance`), which TLC has checked on the
instance of `MCWc`.  Its heart is `CountInv`: unless a job has panicked, the jobs counted,
the one in hand, those in the channel and the chunks not yet submitted are, in this order,
the jobs of the inputs opened (`JobsOf`), and the counters hold what the first of these
count.  `LockInv` (only the holder of the mutex receives or runs) makes "the one in hand"
one; `ExitInv`, `PoisonInv` and `JoinInv` give that after the last join nothing is left and
nothing has panicked, so that all has been counted (`Finished`).

The rest is about the texts, by `SplitInduction`: what holds of the last chunk, of a
bail-out, and of a text when it holds of what is behind its first chunk, holds of every
text.  `BytesOfText`: the newline that a cut drops is the one that is added back, so that
only the end of the text may be off.  `WordsOfText`: `CharsConcat` (the characters of valid
text do not depend on what is behind it) and `WordEndsConcat` (no word crosses a newline)
make words add up.  `SoundText`: when every lead byte is followed by its continuation
(`Complete`), so is it in the parts before and behind a newline, and such a part is decoded
without a panic (`CompleteIsValid`).  `SumAppend` and `NumbersAppend` carry these from one
text to all: the folds of the community modules are shown to add up from left to right.

### tail (`TailProofs`, from `TextsAssumption`, `NumLinesAssumption`, `BlockAssumption`)

`LastLinesArePrinted` and `NothingIsMissed`, from `TailInv`.  While a file is read
backwards (`Scanned`), the blocks kept, put in the order of the file, are what follows the
position, and have exactly the newlines that were counted, not more than `--lines`.  A
block in which the count is exceeded is cut after a newline, and what is kept then has
`--lines` newlines: `LastLinesAfter` shows that this is what splitting the text into lines
from its start picks out (`PrintedOf`): the last `--lines` lines when the last one is ended,
one more when it is not.  The former is `LastLines`, and the latter ends with
it.  `Printed`: when tail has ended, only the beginning of a line may be left in the
`LineWriter`, so nothing of a file whose last line is ended.  `Following`: what is printed is
that, and then the file from its original length to the cursor; that others only
append (`Grown`) until they truncate is what the step of the environment shows.

### less (`WaitingProofs`, from `SizesAssumption`, `TextsAssumption`)

`ScreenFollows`, `CursorStaysOnScreen` and `OnlyKnownPanics` are proved together, as `Inv`.
It adds to the three what is needed of a number that was typed (`NumberInv`: it has not
become negative where overflow panics) and of the position (`PagerInv`; in a file of
one byte there is but one).  The top of the screen is always a place that `Scrolling`
accepts: it starts a line, or is one of the two exceptions.  Of the matcher only
this is used, that what it finds depends on the file alone.

`IncrementalSearchFinds` needs more of it, and a second invariant, `FindInv`: while the
pattern grows, the search began at the start of a line, and no match of the
pattern lies between that place and the top of the screen (`Searched`), except at the
second byte of the file, which the property leaves out.  A longer literal matches only where
the shorter one does (`LongerMatchesLess`), so nothing can have been scrolled past: where
the next search starts is below where the first one did and above every match
(`SearchFinds`, with `LineAboveNotBefore` for `scroll_up()` from the match).  The matcher is
a table over places in the pattern and in the file; `LiteralMatches` shows, by induction on
what is left of the pattern, that for literals it compares bytes.

### sort (`SortProofs`, from `ParallelAssumption`, `LineAssumption`, `PartsAssumption`, `PayloadsAssumption`, `NWayMergeAssumption`, `NoJobIsNone`)

All four invariants of the run, in three layers.

- `ControlInv` (`ControlHolds`) is about the pool and the main thread: `LockInv` (who holds
  the mutex is in `recv()` or in a job; it is poisoned once a thread has died of a panic),
  `ChannelInv` (a thread that has left its loop, and the death of all of them, leave an empty
  channel), `MainInv` (what main has in its hands at each place: the pending jobs, the rest
  of the input, the threads joined), `GoodJobs` (the shape of the jobs).
  `NobodyIsStuck` follows: while main waits, the channel is full or a thread has not ended,
  so not all threads are over, and either the holder of the mutex can go on or any
  thread that waits for it.
- `LinesInv` (`LinesHold`) counts what the reads deliver.  Lines cannot be told apart, and the statement about
  copies of one line is not additive over sequences of jobs, so it is stated for every
  *set* `T` of lines: `Everywhere(T)` adds how many lines in `T` are in the input, in jobs
  pending, queued and running, in chunks and in the output.  It is the count of what was
  read until something fails, and never more.  A `BufWriter` that cuts a line off leaves
  another line, the front of it; from then on only sets count that have, with a front, every
  line it is a front of (`Counted`, `UpClosed`, `CutOffFacts`).  With one line for `T` this is `NoLineIsLost`
  (`LinesConserved`); with all lines, at the end, or with the lines that have a given one as
  their front, it is `AllIsPrinted` (`PrintsEverything`).
  The lemmas behind it: sorting permutes (`SortedFacts`); every operation of the heap
  keeps the weight of what it holds (`SwapFacts`, `...Alike`, `PushFacts`, `PopFacts`); a
  round of the merge moves lines from the heap to the output, and the loop ends; dealing
  chunks out to jobs, and dividing them into those put back and those merged, keep them all.
- `OrderInv` (`OutputIsSorted`, `SortedWithoutEmptyChunks`): as long as no chunk was empty and no buffer lost,
  every part of a job and every chunk has lines, and they ascend.  Chunks that have
  lines are compared by their heads, so the heap property can be stated (`InOrder`), and
  the algorithm of the standard library is shown to establish and keep it: `SiftUpOrders`,
  `SiftDownOrders`, `SiftDownToBottomOrders` each say which position may be out of
  order before, and `Bridged` that its children are in order with its parent meanwhile.
  The root then has the least head (`RootIsLeast`).  `Ready` is the invariant of the merge
  loop: the heap is in order, its chunks ascend, and no line in them precedes one already
  written.  `TakenBound` is where the limit of `drain_until` is used: what a round writes
  does not exceed the head of the chunk that is next.

### du (`DuProofs`, from `InputsAssumption`, `TreesAssumption`)

`PrintedTotals`, `StackFits` and `Panics`: all three invariants of the run, for every set of
trees, finite or not, in which every set of directories has one with no subdirectory in
that set, every order of the entries and whatever is removed meanwhile.  The
invariant `IInv` is stated of the tasks from the last to the first (`Stack`), because tasks
come and go at the start of the list.  `WalkInv` is what the walk keeps:

- `Parts`: every task but the first is a child of the next directory below it in the stack
  whose summary is due; `Chain`: all that is above a summary is below its directory in the
  tree; `Reading`: the entries of the loop are children of the topmost summary;
- `Apart`: nothing has been counted or printed of what is still to be entered or looked at,
  and no two of these are inside one another: this is why nothing is counted twice, and why
  what is printed is final;
- `Levels`: for each directory that is due, the sizes above its place on the stack, added
  up, are the total so far of what is below it.  So when its summary is next, the last size
  is its total, and there is one more below it for its parent: `pop().unwrap()` and
  `carry.len() - 1` cannot fail;
- `Filled`: if nothing was removed or unreadable, each child of a directory that is due has
  been dealt with, is a task or is still ahead.

Each step of the code has a lemma for each of these (`EnterKeeps...`, `PushKeeps...`,
`FileKeeps...`, `EndKeepsTotals`, `PopKeeps...`), about any stack; the lemmas named after the
actions put them together.  What is below a path is defined by a recursive function:
`BelowEquation` shows that it has the value it should (the least sets closed under
children), and `TreeInduction` goes up a tree from the leaves.

### filter | sponge (`PipelineProofs`, from `PipeBlockAssumption`, `MaxUsizeAssumption`, `BytesAssumption`, `CommandsAssumption`, `TargetsAssumption`, `FilesAssumption`)

`SoaksUpFirstHolds`, `FileIsCompleteHolds`, `OutputsAgreeAlways` and
`SuccessIsCompleteHolds`: all four invariants of the run, for cat, cat -n, cut with every
range and unit, pv and tee with any number of files, any contents and number of inputs, any
`Block`, and sponge with stdout, a file of its own or one of the inputs.  What cut makes of
its input is stated only of ranges that count from 1 (`AsDocumented`).  The assumptions
that restrict the two programs are that only tee has files to write, that these are
different, and that tee neither reads them nor shares one with sponge (section 6).

They follow from `PipelineInv` (`PipelineInvariance`), which TLC has checked on the
instance of `MCPipeline`.  None of the four is inductive: what an output holds is stated of
the bytes *used*, so the invariant has to say where all other bytes are.

- `PlaceInv`, `CountsInv`: where the filter is; nothing is sent or read until all outputs
  are open, and it succeeds only after its last input.
- `SpongeInv`, `TargetInv`: sponge writes when the filter has ended and the pipe is empty,
  and its file is at any time what it keeps and the part of the buffer written so far.
- `InputsInv`: until the filter ends, an input is as it was or, if it is sponge's file, as
  sponge opened it.  This is where the two processes meet: sponge may empty the file between
  two reads, and the filter then finds the end of it earlier.
- `ReadInv`: the input read so far is what has been used and what is buffered, and what
  has been used ends at a line, or at the end of the file, for programs that go by lines.
- `GotInv`, `StdoutInv`: what an output has, followed by what the write in progress has
  still to give it (`Rest`), is what is to be made of the bytes used (`Due`).  For
  stdout the unfinished line held by the `LineWriter` comes in between; as long as no error
  has been passed over, what has been sent ends with a line.
- `InputInv`: unless an input was emptied, an input left has been read to its end, as it
  was at the start.

`PipelineSteps` has a lemma for each part of the invariant over the steps of both programs.
The steps are first restated in the terms of the invariant (`FilterDoes` and `SpongeDoes`:
`OpensFile`, `Reads`, `DropsPart`, `WritesFile`, ...), as the programs differ in few of
them.  The reference is a recursive function over the bytes of an input;
`LinesDefined` gives it the equation it should have.  A text that ends with a line can
be cut there and the parts treated one by one (`LinesConcat`); one more line, which ends
with a newline or with the file, is one more element of what is made
(`ReferenceOfLine`); more of an input only adds to it (`ReferenceGrows`); and what
`Bounds` and `Selected` of cut take from a line for a range that counts from 1 is what its
reference names (`CutAgrees`, with `FlattenMasked`: leaving out the units before and behind is taking a part of the
sequence of units).

### Data (`DataLemmas`)

The theorem libraries state induction and recursion with operator parameters, which the
provers cannot instantiate; but a claim can be replaced by the set of arguments for which
it holds.  `LeastElement` (from the well-foundedness of `<` in the library) gives
`Induction` and `InductionOnSize`; `RecursiveFunctionExists` and `LoopExists` give the
recursive functions of the models (`Split`, the operations of the heap, `Merged`, `Dealt`,
`LinesOf`) their defining equations, which a `CHOOSE` alone does not have.  The rest
are facts about cutting, concatenating, flattening and reversing sequences, and about sums
over finite sets (`SumAdd`, `SumSame`): the community module's fold is shown to obey the
equation of a recursive function.

### Only model-checked

- All liveness properties (`Termination`, `PanicEndsProcess`, `CtrlCEnds`,
  `AppendedIsPrinted`, ...): the proof system does not reason about fairness.
- That the models have no deadlock (TLC checks it on every run), apart from
  `NobodyWaitsForEver` of sort.

Every invariant that a run checks is stated by a theorem.

## 5. Where the code and its documentation differ

Shown by a run that TLC finds violated:

- **The pool is serial** (`executor.rs:44`).  The mutex guard lives until the end of the
  body of the `while let`, so a worker runs its job with the mutex held.  The comments
  say "parallel execution" (21) and "multi-threaded" (17).  Run `executor_parallel`.
- **sort may print unsorted output** (`bin/sort.rs:160`).  When the input ends exactly at
  the end of a batch, an empty batch is sorted into a chunk without a head, which compares
  as equal to every other; at the top of the heap it makes the chunk popped before it drain
  completely.  Run `sort_empty_chunk`.

Met while modelling; the models do what the code does, and no run is spent on them:

- `executor.rs:54` says that `submit()` blocks when all workers are busy; the channel
  holds as many jobs as there are threads.
- `sort.rs:475` resets the count of bytes after an in-memory merge, so memory use is not
  bounded by `--buffer-size` (44, 292).
- `wc.rs:95-97`, `144-148` count a newline at the end of the input when there is none, and
  one in an empty input; `count_all` leaves one out after an empty last line of a chunk.
  `wc.rs:119` does not take the space (32) for white space (4).  The lengths of the longest
  lines of the chunks are added up (211).
- `xargs.rs:185` looks for the value of a flag that has none: `--null` (126) has no effect.
- `ping.rs:125` takes any ICMP packet for an echo reply, and in IPv6 for the first one, so
  exit status 0, "replies received" (84), may come without any.
- `timeout.rs:79` kills at once when the duration is 0, which should disable the timeout
  (6-7): the properties do not ask for it, nor for the contrary.
- `timeout.rs:39`: the suffix is not optional (5); a command that ends in time after the
  last poll is reported as timed out when the clock is read late (9-10); one that runs as
  another user is not killed, and timeout panics (94).
- `tail.rs:122`: of a file whose last line is not ended, NUM + 1 lines are printed, as the
  scan looks for NUM + 1 newlines; `LastLinesPrinted` asks only that the output ends with the
  last NUM.  `tail.rs:82`: `-n 0` prints all of stdin, as the ring is full before its first
  line only.
- `tail.rs:81` drops lines that are not UTF-8, and what was read of a line when a read fails.
- `sponge.rs:47` opens, and without `-a` truncates, the output file before the input is
  read, so `cat f | sponge f` loses the contents; the documentation (4-5) promises the
  contrary.
- `tee.rs:49`: stdout is line buffered, although "the output is unbuffered" (4).
- `cut.rs:118`: the range `-M` becomes (0, M), of which 171 takes one unit more than the
  first M that 12 promises; the properties say nothing of it.  `cut.rs:160` drops lines that
  are not UTF-8 also when bytes are selected, and succeeds ("written exactly once", 6-7).
- `cut.rs:118`: a range that ends at M = `usize::MAX` (118-120) overflows in `end + 1` at
  171, a panic or an empty selection; `N-` ends one below (117) and does not.  `cut.rs:187`
  writes a delimiter after the last field.
- `cat.rs:46` exits with 0 whatever failed; `cat.rs:66` numbers the lines of each input
  from 1.
- `sort.rs:376`, `xargs.rs:236`, `cat.rs:69`, `tail.rs:81`, `cut.rs:160`: what was read of a
  line (an item) before a read failed is dropped, what follows is taken for a line, and the
  exit status does not tell.  An input that fails at every read (a directory) is read for
  ever.  In the models of sort, xargs and tail reads fail finitely often; in `Filter` a read
  that fails may be followed by one that does not, and no property asks for more.
- `sort.rs:250`, `493`: a `BufWriter` that is dropped ignores the error of its last write.
- `xargs.rs:236` drops items that are not UTF-8.
- `less.rs:155`, `319-320`: `todo!()` behind keys of ordinary use; 334 overflows; 138 is out
  of bounds after an empty match at the end of the file; 138 also starts one byte after the
  top of the screen, so that a match at the start of the file is not found, and 104-106
  makes the second byte of the file the top of the screen, in the middle of a line.
- `du.rs:101`: a file as an argument is entered like a directory, which fails, and its size
  is given as 0.

## 6. What is not modelled

- `util.rs` and the parsing of arguments (`clap`): pure input and output, apart from the
  options that choose a path through the code, which are inputs of the models.
- The wording of output (column widths, `--verbose`, statistics of ping, which counters of
  wc are printed).
- Memory ordering: wc's relaxed additions are atomic, and main reads after joining.
- In `ping`: which address is taken, packet layout.  In `tail`: what has been written before
  an error.  In `pv`: the progress bar, drawn by a library; the clock
  is modelled only as far as reading it can panic.
- In `sort`: of a line that is cut off in the output, whether its newline is missing (a
  line cut off right before it is a whole line in the model); an input that fails at every
  read.
- In `xargs`: an `--arg-file` that cannot be opened, which ends it with 1 before there is an
  executor.
- In `tail`: when bytes of an unfinished line leave the buffer of the `LineWriter` (any
  number of them may at any write).
- In `less`: how lines are wrapped and matches highlighted, the modes of the terminal, and a
  file that another process truncates while it is mapped (a signal that ends the process).
- In `Pipeline`: tee writing to the file that sponge writes, to one that it reads or to the
  same file twice (the assumptions on `Commands` and `Targets`), more than two processes, and a
  pipe that is full (a writer that waits changes nothing that is checked).

## 7. Plan

Order of work; what comes first matters most.

1. *Done:* all programs and the two library modules with state; proofs about the pool, its
   refinement and its use by xargs, the reader, wc, sort, timeout, ping, tail, less, du and the pipeline; every invariant of a run is proved.
2. *Larger instances* of `MCSort` (three threads) and `MCWc`, should time allow.
