------------------------------ MODULE Executor ------------------------------
(***************************************************************************)
(* src/executor.rs as a program uses it: one owner thread submits jobs to  *)
(* an Executor and then calls finish().  Jobs are numbered in the order of *)
(* submission; the set Job bounds how many there are.                      *)
(*                                                                         *)
(* The executor is Synchronous (jobs run in the owner thread) or           *)
(* Concurrent (a ThreadPool).  The crate is built with unwinding panics    *)
(* (dev and test profiles) or with `panic = "abort"` (release profile).    *)
(***************************************************************************)
EXTENDS ThreadPool

CONSTANTS Kinds,     \* the variants of enum Executor to consider
          Profiles   \* the panic strategies to consider

ASSUME JobAssumption == Job \subseteq Nat \ {0}
ASSUME KindsAssumption == Kinds \subseteq {"Synchronous", "Concurrent"}
ASSUME ProfilesAssumption == Profiles \subseteq {"unwind", "abort"}

VARIABLES
  kind,        \* variant of the Executor
  profile,     \* panic strategy of the build
  main,        \* what the owner thread is doing
  joined,      \* threads joined by finish() so far
  submitted,   \* number of jobs submit() has accepted
  started,     \* the jobs that began to run, in that order
  finished     \* the jobs whose run() returned, in that order

mode == <<kind, profile>>
history == <<submitted, started, finished>>
vars == <<queue, sender, holder, poisoned, worker, running,
          kind, profile, main, joined, submitted, started, finished>>

(***************************************************************************)
(* "open": between two calls;  "sending": in ThreadPool::submit;           *)
(* "inline": runs a job inside Executor::submit;  "joining": in the join   *)
(* loop of finish();  "returned": finish() returned;  "panicked": the      *)
(* owner unwinds;  "success", "failure": the process ended with that       *)
(* exit status.                                                            *)
(***************************************************************************)
MainState == {"open", "sending", "inline", "joining", "returned", "panicked",
              "success", "failure"}
ProcessAlive == main \notin {"success", "failure"}

Init ==
  /\ kind \in Kinds
  /\ profile \in Profiles
  /\ IF kind = "Concurrent"
     THEN New
     ELSE /\ queue = <<>> /\ sender = FALSE /\ holder = NoWorker /\ poisoned = FALSE
          /\ worker = [w \in Workers |-> "exited"]   \* no thread is spawned
          /\ running = [w \in Workers |-> NoJob]
  /\ main = "open"
  /\ joined = 0
  /\ submitted = 0
  /\ started = <<>>
  /\ finished = <<>>

-----------------------------------------------------------------------------
(* The owner thread. *)

NextJob == submitted + 1
AfterPanic == IF profile = "abort" THEN "failure" ELSE "panicked"

\* Executor::submit, Concurrent: the owner enters send() ...
Submit ==
  /\ main = "open" /\ kind = "Concurrent" /\ NextJob \in Job
  /\ main' = "sending"
  /\ UNCHANGED <<poolVars, mode, joined, history>>

\* ... which blocks until there is room ...
Sent ==
  /\ main = "sending"
  /\ Send(NextJob)
  /\ submitted' = NextJob
  /\ main' = "open"
  /\ UNCHANGED <<mode, joined, started, finished>>

\* ... or fails.  The panic of unwrap() unwinds the owner, which drops the
\* executor, or aborts the process.
SubmitPanics ==
  /\ main = "sending" /\ SendFails
  /\ DropSender
  /\ main' = AfterPanic
  /\ UNCHANGED <<mode, joined, history>>

\* Executor::submit, Synchronous: the job runs before submit returns.
RunInline ==
  /\ main = "open" /\ kind = "Synchronous" /\ NextJob \in Job
  /\ main' = "inline"
  /\ submitted' = NextJob
  /\ started' = Append(started, NextJob)
  /\ UNCHANGED <<poolVars, mode, joined, finished>>

InlineReturns ==
  /\ main = "inline"
  /\ main' = "open"
  /\ finished' = Append(finished, submitted)
  /\ UNCHANGED <<poolVars, mode, joined, submitted, started>>

InlinePanics ==
  /\ main = "inline"
  /\ main' = AfterPanic
  /\ UNCHANGED <<poolVars, mode, joined, history>>

\* Executor::finish, Synchronous: nothing to do.
FinishInline ==
  /\ main = "open" /\ kind = "Synchronous"
  /\ main' = "returned"
  /\ UNCHANGED <<poolVars, mode, joined, history>>

\* Mutant of Finish: the threads are joined with the sender still alive.
FinishKeepsSender ==
  /\ main = "open" /\ kind = "Concurrent"
  /\ main' = "joining"
  /\ UNCHANGED <<poolVars, mode, joined, history>>

\* ThreadPool::finish: drop the sender ...
Finish ==
  /\ main = "open" /\ kind = "Concurrent"
  /\ DropSender
  /\ main' = "joining"
  /\ UNCHANGED <<mode, joined, history>>

\* ... and join the threads in the order they were spawned.
Join ==
  /\ main = "joining" /\ worker[joined + 1] = "exited"
  /\ joined' = joined + 1
  /\ main' = IF joined' = Size THEN "returned" ELSE main
  /\ UNCHANGED <<poolVars, mode, history>>

\* Mutant of JoinPanics: `let _ = thread.join()`.
JoinIgnoresPanic ==
  /\ main = "joining" /\ worker[joined + 1] = "panicked"
  /\ joined' = joined + 1
  /\ main' = IF joined' = Size THEN "returned" ELSE main
  /\ UNCHANGED <<poolVars, mode, history>>

\* join() returns Err for a thread that panicked; unwrap() passes it on.
JoinPanics ==
  /\ main = "joining" /\ worker[joined + 1] = "panicked"
  /\ main' = AfterPanic
  /\ UNCHANGED <<poolVars, mode, joined, history>>

\* The process ends with its main thread, whatever the workers are doing.
Exit ==
  /\ main \in {"returned", "panicked"}
  /\ main' = IF main = "returned" THEN "success" ELSE "failure"
  /\ UNCHANGED <<poolVars, mode, joined, history>>

Owner ==
  \/ Submit \/ Sent \/ SubmitPanics
  \/ RunInline \/ InlineReturns \/ InlinePanics
  \/ FinishInline \/ Finish \/ Join \/ JoinPanics \/ Exit

-----------------------------------------------------------------------------
(* The worker threads: the steps of ThreadPool, recorded in the logs. *)

Lock(w) ==
  /\ Acquire(w) \/ AcquirePoisoned(w)
  /\ UNCHANGED <<mode, main, joined, history>>

Start(w) ==
  /\ Recv(w)
  /\ started' = Append(started, Head(queue))
  /\ UNCHANGED <<mode, main, joined, submitted, finished>>

LeaveLoop(w) ==
  /\ Disconnected(w)
  /\ UNCHANGED <<mode, main, joined, history>>

JobReturns(w) ==
  /\ Return(w)
  /\ finished' = Append(finished, running[w])
  /\ UNCHANGED <<mode, main, joined, submitted, started>>

JobUnwinds(w) ==
  /\ profile = "unwind" /\ JobPanics(w)
  /\ UNCHANGED <<mode, main, joined, history>>

JobAborts(w) ==
  /\ profile = "abort" /\ worker[w] = "run"
  /\ main' = "failure"
  /\ UNCHANGED <<poolVars, mode, joined, history>>

JobEnds(w) == JobReturns(w) \/ JobUnwinds(w) \/ JobAborts(w)
WorkerStep(w) == Lock(w) \/ Start(w) \/ LeaveLoop(w) \/ JobEnds(w)

-----------------------------------------------------------------------------

\* The process has ended: the only state in which the system may stop.
Ended == ~ProcessAlive /\ UNCHANGED vars

Next ==
  \/ ProcessAlive /\ (Owner \/ \E w \in Workers : WorkerStep(w))
  \/ Ended

Spec == Init /\ [][Next]_vars

OwnerFairness == WF_vars(ProcessAlive /\ Owner)

\* The operating system schedules every thread, and every job ends.
FairSpec ==
  /\ Spec /\ OwnerFairness
  /\ \A w \in Workers : WF_vars(ProcessAlive /\ WorkerStep(w))

\* The operating system schedules every thread, and a job may take forever.
PatientSpec ==
  /\ Spec /\ OwnerFairness
  /\ \A w \in Workers : WF_vars(ProcessAlive /\ (Lock(w) \/ Start(w) \/ LeaveLoop(w)))

-----------------------------------------------------------------------------
(* Safety. *)

\* Every variable has its type.
TypeOK ==
  /\ PoolTypeOK
  /\ kind \in Kinds /\ profile \in Profiles
  /\ main \in MainState
  /\ joined \in 0..Size
  /\ submitted \in Nat
  /\ started \in Seq(Job) /\ finished \in Seq(Job)

\* As long as one worker lives, every accepted job has started or waits in the
\* channel, each once and in the order of submission (Executor::submit, the
\* `while let` loop of the workers): no panic, shutdown or full channel drops,
\* duplicates or reorders a job.
NoJobLost ==
  ReceiverAlive =>
    /\ submitted = Len(started) + Len(queue)
    /\ \A i \in 1..Len(started) : started[i] = i
    /\ \A i \in 1..Len(queue) : queue[i] = Len(started) + i

\* A job starts only when every earlier job has returned: the mutex guard lives
\* as long as the body of the `while let`, and the poisoned mutex keeps every
\* other worker from starting a job after one that panicked.
JobsRunOneAtATime ==
  /\ Len(finished) <= Len(started) /\ Len(started) <= Len(finished) + 1
  /\ \A i \in 1..Len(finished) : finished[i] = started[i]

\* "wait for all submitted jobs to finish": when finish() has returned, every
\* accepted job has run to its end, whichever worker took it.
SuccessMeansAllRan ==
  main \in {"returned", "success"} =>
    /\ Len(finished) = submitted
    /\ \A i \in 1..submitted : finished[i] = i

\* The threads joined by finish() are the first ones spawned and have left
\* their loop; a thread leaves it only after the sender is gone and the channel
\* has been emptied.
ShutdownOrder ==
  /\ \A w \in 1..joined : worker[w] = "exited"
  /\ kind = "Concurrent" =>
       \A w \in Workers : worker[w] = "exited" => ~sender /\ queue = <<>>

-----------------------------------------------------------------------------
(* Why it is safe: the conjuncts of an inductive invariant. *)

\* The worker that holds the mutex is the one in recv() or in a job.
LockInv == \A w \in Workers : worker[w] \in {"recv", "run"} <=> holder = w

\* Nobody gets past a poisoned mutex, and the thread that poisoned it is dead.
PoisonInv ==
  poisoned => /\ holder = NoWorker
              /\ \E w \in Workers : worker[w] = "panicked"

\* Jobs start and return in the order of their numbers.
LogInv ==
  /\ \A i \in 1..Len(started) : started[i] = i
  /\ \A i \in 1..Len(finished) : finished[i] = i
  /\ Len(finished) <= Len(started) /\ Len(started) <= submitted

\* The job that runs is the last one that started; without one, and without a
\* panic in the past, all that started has returned.
RunInv ==
  /\ \A w \in Workers : worker[w] = "run" =>
       running[w] = Len(started) /\ Len(started) = Len(finished) + 1
  /\ main = "inline" => Len(started) = Len(finished) + 1
  /\ Len(started) # Len(finished) =>
       /\ Len(started) = Len(finished) + 1
       /\ \/ \E w \in Workers : worker[w] = "run"
          \/ poisoned
          \/ kind = "Synchronous" /\ main \in {"inline", "panicked", "failure"}

\* The thread that leaves its loop has seen the last job.
ExitInv ==
  kind = "Concurrent" =>
    /\ main \in {"open", "sending"} => sender
    /\ \A w \in Workers : worker[w] = "exited" =>
         ~sender /\ queue = <<>> /\ submitted = Len(started)

\* Threads are joined in order, all of them before finish() returns.
JoinInv ==
  /\ \A w \in 1..joined : worker[w] = "exited"
  /\ main \in {"open", "sending"} => joined = 0
  /\ main = "joining" => joined < Size /\ kind = "Concurrent"
  /\ kind = "Concurrent" /\ main \in {"returned", "success"} => joined = Size

\* A synchronous executor has no threads, no channel and no backlog.
InlineInv ==
  /\ kind = "Synchronous" =>
       /\ submitted = Len(started) /\ joined = 0 /\ holder = NoWorker
       /\ ~poisoned /\ \A w \in Workers : worker[w] = "exited"
  /\ main = "inline" => kind = "Synchronous"

\* The job on its way into the channel is the next one.
SendInv == main = "sending" => kind = "Concurrent" /\ NextJob \in Job

IndInv ==
  /\ TypeOK /\ LockInv /\ PoisonInv /\ LogInv /\ RunInv
  /\ NoJobLost /\ ExitInv /\ JoinInv /\ InlineInv /\ SendInv

-----------------------------------------------------------------------------
(* Liveness. *)

\* submit() and finish() cannot block for ever: the process ends, whatever
\* jobs panic and whenever.
Termination == <>~ProcessAlive

\* The panic of a job in a worker reaches the owner: a later send() or join()
\* fails, and the process does not end as if all were well.
PanicEndsProcess == poisoned ~> main = "failure"

-----------------------------------------------------------------------------
(* What the documentation says and the code does not do. *)

\* "Threadpool implementation for parallel execution": with at least as many
\* threads as jobs, an accepted job starts however long the others take, unless
\* one of them panics.
ParallelExecution ==
  \A j \in Job : (submitted >= j /\ j <= Size)
                  ~> (j <= Len(started) \/ poisoned \/ main = "failure")

-----------------------------------------------------------------------------
(* The contract this implements. *)

\* What the pool promises its callers: see JobService.
Service == INSTANCE JobService WITH
  MaxConcurrent <- Size,
  accepted <- submitted,
  begun    <- {started[i] : i \in 1..Len(started)},
  done     <- {finished[i] : i \in 1..Len(finished)},
  broken   <- \/ poisoned
              \/ main = "failure"
              \/ kind = "Synchronous" /\ main = "panicked",
  outcome  <- IF ProcessAlive THEN "pending" ELSE main

ImplementsService == Service!Spec
=============================================================================
