------------------------------- MODULE Xargs --------------------------------
(***************************************************************************)
(* src/bin/xargs.rs: the main thread reads items, builds one command for   *)
(* every MAX-ARGS of them (for every one in replace mode) and submits it   *)
(* to an Executor: Synchronous when MAX-PROCS is 1, a pool of MAX-PROCS    *)
(* threads otherwise.  Job number k runs commands[k].                      *)
(*                                                                         *)
(* Every step is a step of Executor, with what it does to the state of     *)
(* xargs.  The bytes of the input that matter: the two separators, a byte  *)
(* "bad" that is not valid UTF-8, and any other, "a".  "err" between two   *)
(* bytes is a read that fails there; the next one goes on behind it.       *)
(***************************************************************************)
EXTENDS Executor, SequencesExt

CONSTANTS Texts,       \* the inputs to consider
          MaxArgs,     \* the values of --max-args to consider
          Options      \* the sets of flags to consider

Byte == {"nl", "nul", "bad", "a", "err"}
ASSUME TextsAssumption == Texts \subseteq Seq(Byte)
ASSUME MaxArgsAssumption == MaxArgs \subseteq Nat \ {0}
ASSUME OptionsAssumption == Options \subseteq SUBSET {"null", "replace"}

VARIABLES
  text,        \* the input, with the reads that fail
  options, max_args,
  unread,      \* the items the iterator has yet to deliver
  commands,    \* the arguments of each command created
  stdout       \* the jobs whose output has been written, in that order

payload == <<text, options, max_args>>
xargsVars == <<payload, unread, commands, stdout>>
allVars == <<vars, text, options, max_args, unread, commands, stdout>>

\* value_of("null"), on a flag that takes no value, is always None.
InputSep(flags) == "nl"

\* BufRead::split: a separator ends an item, and so does the end of a nonempty
\* rest.  A failed read loses what was read of an item, and nobody hears of it: what
\* follows is taken for an item.  The items that are not UTF-8 are dropped.
Separate(t, sep) ==
  LET items[s \in Seq(Byte)] ==
        LET k == SelectInSeq(s, LAMBDA b : b \in {sep, "err"})
            item == IF k = 0 THEN s ELSE SubSeq(s, 1, k - 1)
            rest == IF k = 0 THEN <<>> ELSE SubSeq(s, k + 1, Len(s))
            lost == Contains(item, "bad") \/ (k # 0 /\ s[k] = "err")
        IN  IF s = <<>> THEN <<>>
            ELSE (IF lost THEN <<>> ELSE <<item>>) \o items[rest]
  IN  items[t]

XargsInit ==
  /\ Init
  /\ text \in Texts /\ max_args \in MaxArgs /\ options \in Options
  /\ unread = Separate(text, InputSep(options))
  /\ commands = <<>>
  /\ stdout = <<>>

-----------------------------------------------------------------------------

\* create_job: one item in replace mode, up to max_args otherwise.
Take(n) == SubSeq(unread, 1, n)
\* Mutant of JobSize: one argument too many.
JobSizeOffByOne == IF "replace" \in options THEN 1
                   ELSE IF Len(unread) <= max_args THEN Len(unread) ELSE max_args + 1

JobSize == IF "replace" \in options THEN 1
           ELSE IF Len(unread) < max_args THEN Len(unread) ELSE max_args

CreateJob ==
  /\ unread # <<>>
  /\ commands' = Append(commands, Take(JobSize))
  /\ unread' = SubSeq(unread, JobSize + 1, Len(unread))
  /\ Submit \/ RunInline
  /\ UNCHANGED <<payload, stdout>>

\* create_job returns None: executor.finish().
NoMoreJobs ==
  /\ unread = <<>>
  /\ Finish \/ FinishInline
  /\ UNCHANGED xargsVars

OtherOwnerStep ==
  /\ Sent \/ SubmitPanics \/ Join \/ JoinPanics \/ Exit
  /\ UNCHANGED xargsVars

\* A command with a NUL in an argument cannot be spawned.
CanRun(job) == \A i \in 1..Len(commands[job]) : ~Contains(commands[job][i], "nul")

\* XargsJob::run: the whole output is written when the command has ended.
CommandEnds ==
  /\ InlineReturns /\ CanRun(submitted)
  /\ stdout' = Append(stdout, submitted)
  /\ UNCHANGED <<payload, unread, commands>>

WorkerCommandEnds(w) ==
  /\ JobReturns(w) /\ CanRun(running[w])
  /\ stdout' = Append(stdout, running[w])
  /\ UNCHANGED <<payload, unread, commands>>

\* "Unable to spawn command", or the output cannot be written.
CommandFails == InlinePanics /\ UNCHANGED xargsVars
WorkerCommandFails(w) == (JobUnwinds(w) \/ JobAborts(w)) /\ UNCHANGED xargsVars

OtherWorkerStep(w) == (Lock(w) \/ Start(w) \/ LeaveLoop(w)) /\ UNCHANGED xargsVars

XargsMain == CreateJob \/ NoMoreJobs \/ OtherOwnerStep \/ CommandEnds \/ CommandFails
XargsWorker(w) == WorkerCommandEnds(w) \/ WorkerCommandFails(w) \/ OtherWorkerStep(w)

XargsEnded == ~ProcessAlive /\ UNCHANGED allVars

XargsNext ==
  \/ ProcessAlive /\ (XargsMain \/ \E w \in Workers : XargsWorker(w))
  \/ XargsEnded

XargsSpec == XargsInit /\ [][XargsNext]_allVars

\* The operating system schedules every thread, and every command ends.
XargsFairSpec ==
  /\ XargsSpec
  /\ WF_allVars(ProcessAlive /\ XargsMain)
  /\ \A w \in Workers : WF_allVars(ProcessAlive /\ XargsWorker(w))

-----------------------------------------------------------------------------

\* Every item that the reads deliver is an argument of exactly one command, in the
\* order of the input, and no command gets none or too many; a job that is queued or
\* runs is one of the commands.
ItemsPassedOnce ==
  /\ FlattenSeq(commands) \o unread = Separate(text, InputSep(options))
  /\ \A k \in 1..Len(commands) : Len(commands[k]) \in 1..max_args
  /\ Len(commands) \in submitted..(submitted + 1)

\* The outputs appear whole and in the order of the commands, also with -P.
OutputInOrder == \A i \in 1..Len(stdout) : stdout[i] = i

\* xargs exits with 0 only when all items that the reads deliver have been passed to
\* commands that ran.  The items the input has are these when no read fails; a read
\* that fails loses the item it interrupts (Separate), and the status does not tell.
SuccessMeansAllPassed ==
  main = "success" =>
    /\ FlattenSeq(commands) = Separate(text, InputSep(options))
    /\ Len(stdout) = Len(commands)

=============================================================================
