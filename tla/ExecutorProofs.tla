--------------------------- MODULE ExecutorProofs ---------------------------
(***************************************************************************)
(* Proofs about Executor, for every number of threads, every number of     *)
(* jobs, both kinds of executor and both panic strategies.  The argument   *)
(* is the inductive invariant IndInv of Executor; the refinement of        *)
(* JobService follows from it step by step.  At the end, xargs, which is   *)
(* an Executor with something to run.                                      *)
(***************************************************************************)
EXTENDS Xargs, SequenceTheorems, FiniteSetTheorems, DataLemmas, TLAPS

USE SizeAssumption, JobAssumption, KindsAssumption, ProfilesAssumption

-----------------------------------------------------------------------------
(* Facts about one state. *)

\* A worker that holds the mutex keeps the receiver alive, is the only one past
\* lock(), and the mutex is not poisoned.
LEMMA HolderFacts ==
  ASSUME IndInv, NEW w \in Workers, worker[w] \in {"recv", "run"}
  PROVE  /\ holder = w /\ ReceiverAlive /\ ~poisoned /\ kind = "Concurrent"
         /\ \A v \in Workers : v # w => worker[v] \notin {"recv", "run"}
<1>1. holder = w
  BY DEF IndInv, LockInv
<1>2. \A v \in Workers : v # w => worker[v] \notin {"recv", "run"}
  BY <1>1 DEF IndInv, LockInv
<1>3. ReceiverAlive
  BY DEF ReceiverAlive, Over
<1>4. ~poisoned
  BY <1>1 DEF IndInv, PoisonInv, Workers, NoWorker
<1>5. kind = "Concurrent"
  BY DEF IndInv, TypeOK, InlineInv
<1> QED BY <1>1, <1>2, <1>3, <1>4, <1>5

\* While a worker waits in recv(), everything that started has returned.
LEMMA RecvFacts ==
  ASSUME IndInv, NEW w \in Workers, worker[w] = "recv"
  PROVE  Len(started) = Len(finished)
<1>1. /\ ~poisoned /\ kind = "Concurrent"
      /\ \A v \in Workers : worker[v] # "run"
  BY HolderFacts
<1> QED BY <1>1 DEF IndInv, RunInv

\* The job that runs is the last one that started.
LEMMA RunFacts ==
  ASSUME IndInv, NEW w \in Workers, worker[w] = "run"
  PROVE  /\ running[w] = Len(started) /\ running[w] \in Job
         /\ Len(started) = Len(finished) + 1
<1>1. running[w] = Len(started) /\ Len(started) = Len(finished) + 1
  BY DEF IndInv, RunInv
<1>2. Len(started) \in 1..Len(started)
  BY <1>1 DEF IndInv, TypeOK
<1>3. started[Len(started)] = Len(started) /\ started[Len(started)] \in Job
  BY <1>2 DEF IndInv, LogInv, TypeOK
<1> QED BY <1>1, <1>3

-----------------------------------------------------------------------------
(* The invariant is inductive. *)

\* ThreadPool::new, or a Synchronous executor, satisfies the invariant.
LEMMA IndInvInit == Init => IndInv
<1> SUFFICES ASSUME Init PROVE IndInv
  OBVIOUS
<1> USE DEF Init, New, Workers, NoWorker
<1>1. TypeOK
  <2>1. kind \in {"Synchronous", "Concurrent"}
    OBVIOUS
  <2>2. /\ queue = <<>> /\ started = <<>> /\ finished = <<>>
        /\ submitted = 0 /\ joined = 0 /\ holder = 0 /\ main = "open"
        /\ kind \in Kinds /\ profile \in Profiles
    BY <2>1
  <2>3. queue \in Seq(Job) /\ started \in Seq(Job) /\ finished \in Seq(Job)
    BY <2>2, EmptySeq
  <2>4. /\ worker \in [Workers -> WorkerState]
        /\ running \in [Workers -> Job \cup {NoJob}]
    BY <2>1 DEF WorkerState, Over
  <2>5. sender \in BOOLEAN /\ poisoned \in BOOLEAN
    BY <2>1
  <2>6. PoolTypeOK
    BY <2>2, <2>3, <2>4, <2>5 DEF PoolTypeOK
  <2> QED BY <2>2, <2>3, <2>6 DEF TypeOK, MainState
<1>2. LockInv /\ PoisonInv /\ LogInv /\ RunInv
  BY DEF LockInv, PoisonInv, LogInv, RunInv
<1>3. NoJobLost /\ ExitInv /\ JoinInv /\ InlineInv /\ SendInv
  BY DEF NoJobLost, ExitInv, JoinInv, InlineInv, SendInv
<1> QED BY <1>1, <1>2, <1>3 DEF IndInv

\* The owner hands a job to the channel.
LEMMA SentPreserves ==
  ASSUME IndInv, Sent
  PROVE  IndInv'
<1> USE DEF IndInv, Sent, Send, NextJob
<1>1. /\ queue \in Seq(Job) /\ submitted \in Nat /\ submitted + 1 \in Job
      /\ main = "sending" /\ main' = "open" /\ kind = "Concurrent"
  BY DEF TypeOK, PoolTypeOK, SendInv
<1>2. TypeOK'
  BY <1>1 DEF TypeOK, PoolTypeOK, MainState, mode
<1>3. (LockInv /\ PoisonInv /\ JoinInv /\ InlineInv /\ SendInv)'
  BY <1>1 DEF LockInv, PoisonInv, JoinInv, InlineInv, SendInv, mode
<1>4. (LogInv /\ RunInv)'
  BY <1>1 DEF LogInv, RunInv, TypeOK, mode
<1>5. NoJobLost'
  <2>1. submitted = Len(started) + Len(queue) /\ Len(started) \in Nat
    BY DEF NoJobLost, TypeOK
  <2>2. ASSUME NEW i \in 1..Len(queue')
        PROVE  queue'[i] = Len(started) + i
    <3>1. CASE i = Len(queue) + 1
      BY <1>1, <2>1, <3>1
    <3>2. CASE i \in 1..Len(queue)
      BY <1>1, <3>2 DEF NoJobLost
    <3> QED BY <1>1, <3>1, <3>2
  <2>3. submitted' = Len(started) + Len(queue')
    BY <1>1, <2>1
  <2> QED BY <2>2, <2>3 DEF NoJobLost
<1>6. ExitInv'
  BY <1>1 DEF ExitInv, mode
<1> QED BY <1>2, <1>3, <1>4, <1>5, <1>6

\* Every other step of the owner: the channel does not change.
LEMMA OwnerPreserves ==
  ASSUME IndInv, ProcessAlive, Owner
  PROVE  IndInv'
<1> USE DEF IndInv, TypeOK, PoolTypeOK, ProcessAlive, mode, history, poolVars,
            MainState, LockInv, PoisonInv, LogInv, RunInv, NoJobLost, ExitInv,
            JoinInv, InlineInv, SendInv, ReceiverAlive, NextJob, AfterPanic
<1>1. CASE Submit
  BY <1>1 DEF Submit
<1>2. CASE SubmitPanics
  BY <1>2 DEF SubmitPanics, SendFails, DropSender
<1>3. CASE RunInline
  BY <1>3 DEF RunInline, Over
<1>4. CASE InlineReturns
  BY <1>4 DEF InlineReturns
<1>5. CASE InlinePanics
  BY <1>5 DEF InlinePanics
<1>6. CASE FinishInline
  BY <1>6 DEF FinishInline
<1>7. CASE Finish
  <2>1. /\ main = "open" /\ kind = "Concurrent" /\ main' = "joining"
        /\ sender' = FALSE /\ joined < Size
        /\ UNCHANGED <<queue, holder, poisoned, worker, running, kind, profile,
                       joined, submitted, started, finished>>
    BY <1>7 DEF Finish, DropSender
  <2> QED BY <2>1
<1>8. CASE Join
  BY <1>8 DEF Join
<1>9. CASE JoinPanics
  BY <1>9 DEF JoinPanics
<1>10. CASE Exit
  BY <1>10 DEF Exit
<1> QED
  BY <1>1, <1>2, <1>3, <1>4, <1>5, <1>6, <1>7, <1>8, <1>9, <1>10, SentPreserves
  DEF Owner

\* A thread that ends leaves the channel to the others.
LEMMA EndFacts ==
  ASSUME TypeOK, NEW w \in Workers, NEW how \in Over, End(w, how)
  PROVE  /\ worker' \in [Workers -> WorkerState] /\ queue' \in Seq(Job)
         /\ worker'[w] = how
         /\ \A v \in Workers : v # w => worker'[v] = worker[v]
         /\ ReceiverAlive' => queue' = queue
         /\ queue = <<>> => queue' = <<>>
<1> USE DEF TypeOK, PoolTypeOK, End, WorkerState
<1>1. /\ worker' \in [Workers -> WorkerState] /\ queue' \in Seq(Job)
      /\ worker'[w] = how
      /\ \A v \in Workers : v # w => worker'[v] = worker[v]
  OBVIOUS
<1>2. ASSUME NEW v \in Workers, worker'[v] \notin Over
      PROVE  v \in Workers \ {w} /\ worker[v] \notin Over
  BY <1>1, <1>2
<1> QED BY <1>1, <1>2 DEF ReceiverAlive

\* A worker takes the mutex, or dies at the poisoned one.
LEMMA LockPreserves ==
  ASSUME IndInv, NEW w \in Workers, Lock(w)
  PROVE  IndInv'
<1> USE DEF IndInv, mode, history
<1>1. CASE Acquire(w)
  <2>1. /\ worker[w] = "lock" /\ holder = NoWorker /\ ~poisoned /\ holder' = w
        /\ worker' = [worker EXCEPT ![w] = "recv"]
        /\ worker \in [Workers -> WorkerState]
        /\ UNCHANGED <<queue, sender, poisoned, running, kind, profile, main,
                       joined, submitted, started, finished>>
    BY <1>1 DEF Lock, Acquire, TypeOK, PoolTypeOK
  <2>2. TypeOK'
    BY <2>1 DEF TypeOK, PoolTypeOK, WorkerState
  <2>3. LockInv' /\ PoisonInv'
    BY <2>1 DEF LockInv, PoisonInv, Workers, NoWorker
  <2>4. LogInv' /\ RunInv' /\ SendInv'
    BY <2>1 DEF LogInv, RunInv, SendInv, NextJob
  <2>5. NoJobLost' /\ ExitInv' /\ InlineInv'
    BY <2>1 DEF NoJobLost, ReceiverAlive, Over, ExitInv, InlineInv
  <2>6. JoinInv'
    BY <2>1 DEF JoinInv, TypeOK, Workers
  <2> QED BY <2>2, <2>3, <2>4, <2>5, <2>6
<1>2. CASE AcquirePoisoned(w)
  <2> DEFINE how == "panicked"
  <2>1. /\ worker[w] = "lock" /\ poisoned /\ holder = NoWorker
        /\ UNCHANGED <<sender, holder, poisoned, running, kind, profile, main,
                       joined, submitted, started, finished>>
    BY <1>2 DEF Lock, AcquirePoisoned
  <2>2. /\ worker' \in [Workers -> WorkerState] /\ queue' \in Seq(Job)
        /\ worker'[w] = "panicked"
        /\ \A v \in Workers : v # w => worker'[v] = worker[v]
        /\ ReceiverAlive' => queue' = queue
        /\ queue = <<>> => queue' = <<>>
    BY <1>2, EndFacts DEF AcquirePoisoned, Over
  <2>3. ReceiverAlive
    BY <2>1 DEF ReceiverAlive, Over
  <2>4. TypeOK'
    BY <2>1, <2>2 DEF TypeOK, PoolTypeOK
  <2>5. LockInv' /\ PoisonInv' /\ LogInv'
    BY <2>1, <2>2 DEF LockInv, PoisonInv, LogInv
  <2>6. RunInv'
    BY <2>1, <2>2 DEF RunInv
  <2>7. NoJobLost'
    BY <2>1, <2>2, <2>3 DEF NoJobLost
  <2>8. ExitInv' /\ InlineInv' /\ SendInv'
    BY <2>1, <2>2 DEF ExitInv, InlineInv, SendInv, NextJob
  <2>9. JoinInv'
    BY <2>1, <2>2 DEF JoinInv, TypeOK, Workers
  <2> QED BY <2>4, <2>5, <2>6, <2>7, <2>8, <2>9
<1> QED BY <1>1, <1>2 DEF Lock

\* A worker receives the oldest job and runs it.
LEMMA StartPreserves ==
  ASSUME IndInv, NEW w \in Workers, Start(w)
  PROVE  IndInv'
<1> USE DEF IndInv, mode, history
<1>1. /\ worker[w] = "recv" /\ queue # <<>> /\ queue \in Seq(Job)
      /\ worker' = [worker EXCEPT ![w] = "run"]
      /\ running' = [running EXCEPT ![w] = Head(queue)]
      /\ queue' = Tail(queue) /\ started' = Append(started, Head(queue))
      /\ UNCHANGED <<sender, holder, poisoned, kind, profile, main, joined,
                     submitted, finished>>
      /\ worker \in [Workers -> WorkerState] /\ started \in Seq(Job)
  BY DEF Start, Recv, TypeOK, PoolTypeOK
<1>2. /\ holder = w /\ ReceiverAlive /\ ~poisoned /\ kind = "Concurrent"
      /\ \A v \in Workers : v # w => worker[v] \notin {"recv", "run"}
      /\ Len(started) = Len(finished) /\ main # "inline"
  BY <1>1, HolderFacts, RecvFacts DEF InlineInv
<1>3. Head(queue) = Len(started) + 1 /\ Head(queue) \in Job
  <2>1. 1 \in 1..Len(queue) /\ Head(queue) = queue[1]
    BY <1>1
  <2> QED BY <1>1, <1>2, <2>1 DEF NoJobLost
<1>4. TypeOK'
  BY <1>1, <1>3 DEF TypeOK, PoolTypeOK, WorkerState
<1>5. LockInv' /\ PoisonInv'
  BY <1>1, <1>2 DEF LockInv, PoisonInv
<1>6. LogInv'
  <2>1. Len(queue) \in Nat \ {0} /\ submitted = Len(started) + Len(queue)
    BY <1>1, <1>2 DEF NoJobLost
  <2> QED BY <1>1, <1>3, <2>1 DEF LogInv, TypeOK
<1>7. RunInv'
  BY <1>1, <1>2, <1>3 DEF RunInv, TypeOK, PoolTypeOK
<1>8. NoJobLost'
  <2>1. /\ Len(queue) \in Nat /\ Len(queue') = Len(queue) - 1
        /\ Len(started) \in Nat /\ Len(started') = Len(started) + 1
    BY <1>1
  <2>2. ASSUME NEW i \in 1..Len(queue')
        PROVE  queue'[i] = Len(started') + i
    <3>1. Tail(queue)[i] = queue[i + 1]
      BY <1>1, HeadTailProperties
    <3>2. i \in Nat /\ i + 1 \in 1..Len(queue) /\ Len(started) \in Nat
      BY <1>1, <2>1
    <3>3. queue[i + 1] = Len(started) + (i + 1)
      BY <1>2, <3>2 DEF NoJobLost
    <3> QED BY <1>1, <2>1, <3>1, <3>2, <3>3
  <2>3. submitted' = Len(started') + Len(queue')
    <3>1. submitted' = submitted /\ submitted = Len(started) + Len(queue)
      BY <1>1, <1>2 DEF NoJobLost
    <3> HIDE DEF IndInv, Start
    <3> QED BY <2>1, <3>1
  <2>4. \A i \in 1..Len(started') : started'[i] = i
    BY <1>6 DEF LogInv
  <2> QED BY <2>2, <2>3, <2>4 DEF NoJobLost
<1>9. ExitInv' /\ JoinInv' /\ InlineInv' /\ SendInv'
  BY <1>1, <1>2 DEF ExitInv, JoinInv, InlineInv, SendInv, NextJob, TypeOK, Workers
<1> QED BY <1>4, <1>5, <1>6, <1>7, <1>8, <1>9

\* A worker sees that the channel is empty and the sender gone.
LEMMA LeaveLoopPreserves ==
  ASSUME IndInv, NEW w \in Workers, LeaveLoop(w)
  PROVE  IndInv'
BY HolderFacts, RecvFacts
DEF IndInv, LeaveLoop, Disconnected, End, mode, history, TypeOK, PoolTypeOK,
    LockInv, PoisonInv, LogInv, RunInv, NoJobLost, ExitInv, JoinInv, InlineInv, SendInv,
    ReceiverAlive, Workers, NoWorker, WorkerState, Over

\* A job returns and its worker gives the mutex back.
LEMMA JobReturnsPreserves ==
  ASSUME IndInv, NEW w \in Workers, JobReturns(w)
  PROVE  IndInv'
<1> USE DEF IndInv, mode, history
<1>1. /\ worker[w] = "run" /\ holder' = NoWorker
      /\ worker' = [worker EXCEPT ![w] = "lock"]
      /\ running' = [running EXCEPT ![w] = NoJob]
      /\ finished' = Append(finished, running[w])
      /\ UNCHANGED <<queue, sender, poisoned, kind, profile, main, joined,
                     submitted, started>>
      /\ worker \in [Workers -> WorkerState] /\ finished \in Seq(Job)
      /\ started \in Seq(Job)
  BY DEF JobReturns, Return, TypeOK, PoolTypeOK
<1>2. /\ holder = w /\ ReceiverAlive /\ ~poisoned /\ kind = "Concurrent"
      /\ \A v \in Workers : v # w => worker[v] \notin {"recv", "run"}
      /\ running[w] = Len(finished) + 1 /\ running[w] \in Job
      /\ Len(started) = Len(finished) + 1 /\ main # "inline"
  BY <1>1, HolderFacts, RunFacts DEF InlineInv
<1>3. TypeOK'
  BY <1>1, <1>2 DEF TypeOK, PoolTypeOK, WorkerState
<1>4. LockInv' /\ PoisonInv'
  BY <1>1, <1>2 DEF LockInv, PoisonInv, Workers, NoWorker
<1>5. Len(finished') = Len(finished) + 1
  BY <1>1
<1>6. LogInv' /\ RunInv'
  BY <1>1, <1>2, <1>5 DEF LogInv, RunInv
<1>7. NoJobLost' /\ ExitInv' /\ JoinInv' /\ InlineInv' /\ SendInv'
  BY <1>1, <1>2 DEF NoJobLost, ExitInv, JoinInv, InlineInv, SendInv, NextJob, TypeOK, Workers
<1> QED BY <1>3, <1>4, <1>6, <1>7

\* A job panics and poisons the mutex of its worker.
LEMMA JobUnwindsPreserves ==
  ASSUME IndInv, NEW w \in Workers, JobUnwinds(w)
  PROVE  IndInv'
<1> USE DEF IndInv, mode, history
<1>1. /\ worker[w] = "run" /\ holder' = NoWorker /\ poisoned' = TRUE
      /\ running' = [running EXCEPT ![w] = NoJob]
      /\ UNCHANGED <<sender, kind, profile, main, joined, submitted, started,
                     finished>>
  BY DEF JobUnwinds, JobPanics
<1>2. /\ worker' \in [Workers -> WorkerState] /\ queue' \in Seq(Job)
      /\ worker'[w] = "panicked"
      /\ \A v \in Workers : v # w => worker'[v] = worker[v]
      /\ ReceiverAlive' => queue' = queue
      /\ queue = <<>> => queue' = <<>>
  BY EndFacts DEF JobUnwinds, JobPanics, Over
<1>3. /\ holder = w /\ ReceiverAlive /\ kind = "Concurrent"
      /\ \A v \in Workers : v # w => worker[v] \notin {"recv", "run"}
      /\ Len(started) = Len(finished) + 1 /\ main # "inline"
  BY <1>1, HolderFacts, RunFacts DEF InlineInv
<1>4. TypeOK'
  BY <1>1, <1>2 DEF TypeOK, PoolTypeOK
<1>5. LockInv' /\ PoisonInv'
  BY <1>1, <1>2, <1>3, SMTT(30) DEF LockInv, PoisonInv, Workers, NoWorker
<1>6. LogInv' /\ RunInv'
  BY <1>1, <1>2, <1>3 DEF LogInv, RunInv
<1>7. NoJobLost'
  BY <1>1, <1>2, <1>3 DEF NoJobLost
<1>8. ExitInv' /\ InlineInv' /\ SendInv'
  BY <1>1, <1>2, <1>3 DEF ExitInv, InlineInv, SendInv, NextJob
<1>9. JoinInv'
  BY <1>1, <1>2 DEF JoinInv, TypeOK, Workers
<1> QED BY <1>4, <1>5, <1>6, <1>7, <1>8, <1>9

\* A job panics and the process aborts.
LEMMA JobAbortsPreserves ==
  ASSUME IndInv, NEW w \in Workers, JobAborts(w)
  PROVE  IndInv'
BY HolderFacts
DEF IndInv, JobAborts, mode, history, poolVars, MainState, TypeOK, PoolTypeOK,
    LockInv, PoisonInv, LogInv, RunInv, NoJobLost, ExitInv, JoinInv, InlineInv, SendInv,
    ReceiverAlive

\* Every step of the owner and of a worker preserves the invariant.
LEMMA IndInvNext == IndInv /\ [Next]_vars => IndInv'
<1> SUFFICES ASSUME IndInv, [Next]_vars PROVE IndInv'
  OBVIOUS
<1>1. CASE ProcessAlive /\ Owner
  BY <1>1, OwnerPreserves
<1>2. CASE \E w \in Workers : WorkerStep(w)
  BY <1>2, LockPreserves, StartPreserves, LeaveLoopPreserves, JobReturnsPreserves,
     JobUnwindsPreserves, JobAbortsPreserves DEF WorkerStep, JobEnds
<1>3. CASE UNCHANGED vars
  <2> USE <1>3 DEF vars
  <2>1. TypeOK' /\ LockInv' /\ PoisonInv' /\ LogInv'
    BY DEF IndInv, TypeOK, PoolTypeOK, LockInv, PoisonInv, LogInv
  <2>2. RunInv' /\ NoJobLost' /\ ExitInv'
    BY DEF IndInv, RunInv, NoJobLost, ReceiverAlive, ExitInv
  <2>3. JoinInv' /\ InlineInv' /\ SendInv'
    BY DEF IndInv, JoinInv, InlineInv, SendInv, NextJob
  <2> QED BY <2>1, <2>2, <2>3 DEF IndInv
<1> QED BY <1>1, <1>2, <1>3 DEF Next, Ended

\* The inductive invariant holds of the executor, whatever its size, the jobs and
\* the panic strategy.
THEOREM Invariance == Spec => []IndInv
BY IndInvInit, IndInvNext, PTL DEF Spec

-----------------------------------------------------------------------------
(* What follows from it. *)

\* submit() blocks while the channel is full.
ChannelBound == Len(queue) <= Size

\* Only Sent puts a job into the channel, and only when there is room.
LEMMA ChannelBoundNext ==
  ASSUME IndInv, ChannelBound, [Next]_vars
  PROVE  ChannelBound'
<1> USE DEF ChannelBound
<1>1. queue \in Seq(Job) /\ Len(queue) \in Nat /\ Size \in Nat
  BY LenProperties DEF IndInv, TypeOK, PoolTypeOK
<1>2. queue' = queue \/ queue' = <<>> \/ Sent \/ \E w \in Workers : Start(w)
  <2>1. CASE Owner /\ ~Sent
    BY <2>1 DEF Owner, Submit, SubmitPanics, DropSender, RunInline, InlineReturns,
                InlinePanics, FinishInline, Finish, Join, JoinPanics, Exit, poolVars
  <2>2. ASSUME NEW w \in Workers, WorkerStep(w), ~Start(w)
        PROVE  queue' = queue \/ queue' = <<>>
    BY <2>2 DEF WorkerStep, Lock, LeaveLoop, JobEnds, JobReturns, JobUnwinds, JobAborts,
                Acquire, AcquirePoisoned, Disconnected, Return, JobPanics, End, poolVars
  <2>3. CASE UNCHANGED vars
    BY <2>3 DEF vars
  <2> QED BY <2>1, <2>2, <2>3 DEF Next, Ended
<1>3. CASE Sent
  <2>1. Len(queue) < Size /\ queue' = Append(queue, NextJob) /\ NextJob \in Job
    BY <1>3 DEF Sent, Send, IndInv, SendInv
  <2>2. Len(queue') = Len(queue) + 1
    BY <1>1, <2>1, AppendProperties
  <2> QED BY <1>1, <2>1, <2>2
<1>4. ASSUME NEW w \in Workers, Start(w)
      PROVE  Len(queue') <= Size
  <2>1. queue # <<>> /\ queue' = Tail(queue)
    BY <1>4 DEF Start, Recv
  <2>2. Len(queue') = Len(queue) - 1
    BY <1>1, <2>1, HeadTailProperties
  <2> QED BY <1>1, <2>2
<1>5. Len(<<>>) = 0
  BY EmptySeq
<1> QED BY <1>1, <1>2, <1>3, <1>4, <1>5

\* Every variable keeps its type, and the channel never holds more jobs than there are
\* threads: its only reader may be at work on a job for as long as it likes.
THEOREM TypeCorrect == Spec => [](TypeOK /\ ChannelBound)
<1>1. IndInv => TypeOK
  BY DEF IndInv
<1>2. Init => ChannelBound
  <2> SUFFICES ASSUME Init PROVE queue = <<>>
    BY EmptySeq, SizeAssumption DEF ChannelBound
  <2> QED BY DEF Init, New
<1> QED BY <1>1, <1>2, IndInvInit, IndInvNext, ChannelBoundNext, PTL DEF Spec

\* No panic, shutdown or full channel drops, duplicates or reorders a job.
THEOREM NoJobIsLost == Spec => []NoJobLost
<1>1. IndInv => NoJobLost
  BY DEF IndInv
<1> QED BY <1>1, Invariance, PTL

\* However many threads the pool has, a job starts only when every earlier one
\* has returned.
THEOREM JobsAreSerial == Spec => []JobsRunOneAtATime
<1>1. IndInv => JobsRunOneAtATime
  BY DEF IndInv, TypeOK, LogInv, RunInv, JobsRunOneAtATime
<1> QED BY <1>1, Invariance, PTL

\* Every thread has been joined, so every thread has left its loop, and the last
\* one to do so saw the channel closed and empty.
LEMMA ReturnedMeansDone == IndInv => SuccessMeansAllRan
<1>1. ASSUME IndInv, main \in {"returned", "success"}
      PROVE  Len(finished) = submitted
  <2>1. CASE kind = "Synchronous"
    BY <1>1, <2>1 DEF IndInv, InlineInv, RunInv
  <2>2. CASE kind = "Concurrent"
    <3>1. \A w \in Workers : worker[w] = "exited"
      BY <1>1, <2>2 DEF IndInv, JoinInv, Workers
    <3>2. ~poisoned /\ submitted = Len(started)
      BY <1>1, <2>2, <3>1 DEF IndInv, PoisonInv, ExitInv, Workers
    <3> QED BY <1>1, <2>2, <3>1, <3>2 DEF IndInv, RunInv
  <2> QED BY <1>1, <2>1, <2>2 DEF IndInv, TypeOK
<1> QED BY <1>1 DEF IndInv, LogInv, SuccessMeansAllRan

\* When finish() has returned, every job it accepted has run to its end.
THEOREM FinishWaitsForAll == Spec => []SuccessMeansAllRan
BY ReturnedMeansDone, Invariance, PTL

\* Threads leave their loop only when the channel is closed and empty, and are
\* joined in order.
THEOREM ShutsDownInOrder == Spec => []ShutdownOrder
<1>1. IndInv => ShutdownOrder
  BY DEF IndInv, JoinInv, ExitInv, ShutdownOrder
<1> QED BY <1>1, Invariance, PTL

-----------------------------------------------------------------------------
(* Executor implements JobService, under the refinement mapping of         *)
(* Executor: jobs are accepted when send() returns, begin and are done as  *)
(* the logs say, and the service is broken once a job has panicked.        *)

\* A thread dies only of a panic of a job, and with panic = "abort" none does;
\* the owner unwinds only after such a panic.
PanicInv ==
  /\ \A w \in Workers : worker[w] = "panicked" => poisoned
  /\ poisoned => profile = "unwind"
  /\ main = "panicked" => poisoned \/ kind = "Synchronous"

\* At the start no thread has died and nothing is poisoned.
LEMMA PanicInvInit == Init => PanicInv
BY DEF Init, New, PanicInv

\* An owner that leaves a panic through a failed send() or join() leaves one
\* that broke the service before.
LEMMA OwnerPanicStutters ==
  ASSUME IndInv, PanicInv, ProcessAlive, SubmitPanics \/ JoinPanics
  PROVE  poisoned /\ profile = "unwind" /\ main' = "panicked"
<1>1. CASE SubmitPanics
  <2>1. \A w \in Workers : worker[w] = "panicked"
    BY <1>1 DEF SubmitPanics, SendFails, ReceiverAlive, Over, IndInv, ExitInv,
       SendInv
  <2>2. 1 \in Workers
    BY SizeAssumption DEF Workers
  <2> QED BY <1>1, <2>1, <2>2 DEF SubmitPanics, AfterPanic, PanicInv
<1>2. CASE JoinPanics
  <2>1. joined + 1 \in Workers
    BY <1>2, SizeAssumption DEF JoinPanics, IndInv, TypeOK, JoinInv, Workers
  <2> QED BY <1>2, <2>1 DEF JoinPanics, AfterPanic, PanicInv
<1> QED BY <1>1, <1>2

\* Every step keeps PanicInv: only JobUnwinds poisons the mutex, and what panics
\* afterwards (lock, send, join) finds it poisoned.
LEMMA PanicInvNext == IndInv /\ PanicInv /\ [Next]_vars => PanicInv'
<1> SUFFICES ASSUME IndInv, PanicInv, [Next]_vars PROVE PanicInv'
  OBVIOUS
<1> USE DEF PanicInv
<1>1. CASE ProcessAlive /\ Owner
  <2>1. CASE SubmitPanics
    <3>1. poisoned /\ main' = "panicked"
      BY <1>1, <2>1, OwnerPanicStutters
    <3> QED BY <2>1, <3>1 DEF SubmitPanics, DropSender, mode
  <2>2. CASE JoinPanics
    <3>1. poisoned /\ main' = "panicked"
      BY <1>1, <2>2, OwnerPanicStutters
    <3> QED BY <2>2, <3>1 DEF JoinPanics, poolVars, mode
  <2>3. CASE InlinePanics
    BY <2>3 DEF InlinePanics, IndInv, InlineInv, poolVars, mode
  <2>4. CASE \/ Submit \/ RunInline \/ InlineReturns \/ FinishInline
             \/ Join \/ Exit
    BY <2>4 DEF Submit, RunInline, InlineReturns, FinishInline, Join, Exit,
       poolVars, mode
  <2>5. CASE Sent \/ Finish
    BY <2>5 DEF Sent, Send, Finish, DropSender, mode
  <2> QED BY <1>1, <2>1, <2>2, <2>3, <2>4, <2>5 DEF Owner
<1>2. ASSUME NEW w \in Workers, WorkerStep(w)
      PROVE  PanicInv'
  <2>1. worker \in [Workers -> WorkerState]
    BY DEF IndInv, TypeOK, PoolTypeOK
  <2>2. CASE Lock(w) \/ Start(w) \/ LeaveLoop(w) \/ JobReturns(w)
    BY <2>1, <2>2 DEF Lock, Acquire, AcquirePoisoned, End, Start, Recv, LeaveLoop,
       Disconnected, JobReturns, Return, mode
  <2>3. CASE JobUnwinds(w) \/ JobAborts(w)
    BY <2>1, <2>3 DEF JobUnwinds, JobPanics, End, JobAborts, poolVars, mode
  <2> QED BY <1>2, <2>2, <2>3 DEF WorkerStep, JobEnds
<1>3. CASE UNCHANGED vars
  BY <1>3 DEF vars
<1> QED BY <1>1, <1>2, <1>3 DEF Next, Ended

-----------------------------------------------------------------------------
(* The abstract state. *)

Begun == {started[i] : i \in 1..Len(started)}
Done == {finished[i] : i \in 1..Len(finished)}

\* The jobs that began, and those that are done, are the first ones accepted.
LEMMA AbstractLogs ==
  ASSUME IndInv
  PROVE  Begun = 1..Len(started) /\ Done = 1..Len(finished)
BY DEF IndInv, LogInv, Begun, Done

\* ThreadPool::new is the initial state of the service.
LEMMA InitImplements == Init => Service!Init
<1> SUFFICES ASSUME Init PROVE Service!Init
  OBVIOUS
<1>1. Begun = {} /\ Done = {}
  BY DEF Init, Begun, Done
<1>2. poisoned = FALSE /\ main = "open" /\ submitted = 0
  BY DEF Init, New
<1> QED BY <1>1, <1>2 DEF Service!Init, Begun, Done, ProcessAlive

\* A step that adds one running job to `finished` completes it in the service.
LEMMA CompleteStep ==
  ASSUME IndInv, ProcessAlive, NEW i \in Job, i \in Begun \ Done,
         Done' = Done \cup {i},
         UNCHANGED <<poisoned, kind, submitted, started>>,
         main' = main \/ (main = "inline" /\ main' = "open")
  PROVE  Service!Complete(i)
<1> DEFINE Kept == UNCHANGED
             <<submitted, {started[k] : k \in 1..Len(started)},
               \/ poisoned
               \/ main = "failure"
               \/ kind = "Synchronous" /\ main = "panicked",
               IF ProcessAlive THEN "pending" ELSE main>>
<1> DEFINE Added == {finished[k] : k \in 1..Len(finished)}'
                      = {finished[k] : k \in 1..Len(finished)} \cup {i}
<1>1. i \in Service!Active
  BY DEF Service!Active, Begun, Done
<1>2. poisoned \in BOOLEAN
  BY DEF IndInv, TypeOK, PoolTypeOK
<1>3. Kept
  BY <1>2 DEF ProcessAlive
<1>4. Added
  BY DEF Done
<1>5. i \in Service!Active /\ Added /\ Kept => Service!Complete(i)
  BY Zenon DEF Service!Complete
<1> HIDE DEF Kept, Added
<1> QED BY <1>1, <1>3, <1>4, <1>5

\* Every step of the executor is a step of the service or leaves it alone.
LEMMA OwnerImplements ==
  ASSUME IndInv, IndInv', PanicInv, ProcessAlive, Owner
  PROVE  Service!Next \/ UNCHANGED Service!serviceVars
<1>0. /\ started \in Seq(Job) /\ finished \in Seq(Job) /\ submitted \in Nat
      /\ Begun = 1..Len(started) /\ Done = 1..Len(finished)
      /\ Len(started) \in Nat /\ Len(finished) \in Nat
  BY AbstractLogs DEF IndInv, TypeOK
<1>1. CASE Submit \/ FinishInline \/ Join
  BY <1>1 DEF Submit, FinishInline, Join, poolVars, mode, history,
     ProcessAlive, Service!serviceVars
<1>2. CASE Finish
  BY <1>2 DEF Finish, DropSender, mode, history, ProcessAlive,
     Service!serviceVars
<1>3. CASE SubmitPanics
  <2>1. poisoned /\ main' = "panicked"
    BY <1>3, OwnerPanicStutters
  <2> QED BY <1>3, <2>1 DEF SubmitPanics, DropSender, mode, history,
     ProcessAlive, Service!serviceVars
<1>4. CASE JoinPanics
  <2>1. poisoned /\ main' = "panicked"
    BY <1>4, OwnerPanicStutters
  <2> QED BY <1>4, <2>1 DEF JoinPanics, poolVars, mode, history,
     ProcessAlive, Service!serviceVars
<1>5. CASE Sent
  <2>1. Service!Accept
    BY <1>5 DEF Sent, Send, mode, NextJob, IndInv, SendInv, ProcessAlive,
       Service!Accept
  <2> QED BY <2>1 DEF Service!Next, ProcessAlive
<1>6. CASE RunInline
  <2>1. /\ kind = "Synchronous" /\ main = "open" /\ main' = "inline"
        /\ NextJob \in Job /\ submitted' = NextJob
        /\ UNCHANGED <<poisoned, kind, finished>>
    BY <1>6 DEF RunInline, poolVars, mode
  <2>2. ~poisoned /\ submitted = Len(started) /\ Len(finished) = Len(started)
    BY <2>1 DEF IndInv, InlineInv, RunInv, Workers
  <2>3. /\ Begun' = 1..Len(started') /\ Len(started') = submitted + 1
        /\ Done' = Done
    BY <1>6, <2>2, AbstractLogs, AppendProperties
       DEF RunInline, NextJob, Done, IndInv, LogInv, Begun
  <2>4. /\ Begun \ Done = {} /\ (1..submitted) \ Begun = {}
        /\ Begun' = Begun \cup {submitted + 1}
    BY <1>0, <2>2, <2>3
  <2>5. Service!AcceptAndBegin
    BY <2>1, <2>2, <2>3, <2>4 DEF Service!AcceptAndBegin, Service!Active,
       Service!Waiting, Begun, Done, NextJob, ProcessAlive
  <2> QED BY <2>5 DEF Service!Next, ProcessAlive
<1>7. CASE InlineReturns
  <2>1. /\ main = "inline" /\ main' = "open" /\ kind = "Synchronous"
        /\ UNCHANGED <<poisoned, kind, submitted, started>>
    BY <1>7 DEF InlineReturns, poolVars, mode, IndInv, InlineInv
  <2>2. submitted = Len(started) /\ Len(started) = Len(finished) + 1
    BY <2>1 DEF IndInv, InlineInv, RunInv
  <2>3. submitted \in Job
    <3>1. started[Len(started)] = Len(started) /\ started[Len(started)] \in Job
      BY <1>0, <2>2 DEF IndInv, LogInv
    <3> QED BY <2>2, <3>1
  <2>4. Done' = Done \cup {submitted} /\ submitted \in Begun \ Done
    <3>1. finished' = Append(finished, submitted)
      BY <1>7 DEF InlineReturns
    <3>2. Len(finished') = submitted
      BY <1>0, <2>2, <2>3, <3>1, AppendProperties
    <3>3. Done' = 1..submitted
      BY <3>2 DEF IndInv, LogInv, Done
    <3> QED BY <1>0, <2>2, <3>3
  <2>5. \E j \in Job : Service!Complete(j)
    BY <2>1, <2>3, <2>4, CompleteStep
  <2> QED BY <2>1, <2>5 DEF Service!Next, ProcessAlive
<1>8. CASE InlinePanics
  <2>1. /\ main = "inline" /\ kind = "Synchronous"
        /\ main' \in {"panicked", "failure"}
        /\ UNCHANGED <<poisoned, kind, submitted, started, finished>>
    BY <1>8 DEF InlinePanics, AfterPanic, poolVars, mode, history, IndInv,
       InlineInv
  <2>2. Len(started) = Len(finished) + 1
    BY <2>1 DEF IndInv, RunInv
  <2>3. Len(started) \in Begun \ Done
    BY <1>0, <2>2
  <2>4. Service!Break
    BY <2>1, <2>3 DEF Service!Break, Service!Active, Begun, Done, ProcessAlive
  <2> QED BY <2>4 DEF Service!Next, ProcessAlive
<1>9. CASE Exit
  <2>1. UNCHANGED <<poisoned, kind, submitted, started, finished>>
    BY <1>9 DEF Exit, poolVars, mode, history
  <2>2. CASE main = "returned"
    <3>1. ~poisoned
      <4>1. CASE kind = "Synchronous"
        BY <4>1 DEF IndInv, InlineInv
      <4>2. CASE kind = "Concurrent"
        <5>1. \A w \in Workers : worker[w] = "exited"
          BY <2>2, <4>2 DEF IndInv, JoinInv, Workers
        <5> QED BY <5>1 DEF IndInv, PoisonInv
      <4> QED BY <4>1, <4>2, KindsAssumption DEF IndInv, TypeOK
    <3>2. Done = 1..submitted
      <4>1. SuccessMeansAllRan
        BY ReturnedMeansDone
      <4> QED BY <1>0, <2>2, <4>1 DEF SuccessMeansAllRan
    <3>3. main' = "success"
      BY <1>9, <2>2 DEF Exit
    <3>4. Service!Succeed
      BY <2>1, <2>2, <3>1, <3>2, <3>3 DEF Service!Succeed, Done, ProcessAlive
    <3> QED BY <3>4 DEF Service!Next, ProcessAlive
  <2>3. CASE main = "panicked"
    <3>1. main' = "failure"
      BY <1>9, <2>3 DEF Exit
    <3>2. Service!Fail
      BY <2>1, <2>3, <3>1 DEF Service!Fail, PanicInv, ProcessAlive
    <3> QED BY <3>2 DEF Service!Next, ProcessAlive
  <2> QED BY <1>9, <2>2, <2>3 DEF Exit
<1> QED BY <1>1, <1>2, <1>3, <1>4, <1>5, <1>6, <1>7, <1>8, <1>9 DEF Owner

\* Every step of a worker's loop (src/src/executor.rs:42-48) starts, finishes or
\* loses a job of the abstract service, or leaves the service as it is.
LEMMA WorkerImplements ==
  ASSUME IndInv, IndInv', PanicInv, ProcessAlive,
         NEW w \in Workers, WorkerStep(w)
  PROVE  Service!Next \/ UNCHANGED Service!serviceVars
<1>0. /\ started \in Seq(Job) /\ finished \in Seq(Job) /\ submitted \in Nat
      /\ Begun = 1..Len(started) /\ Done = 1..Len(finished)
      /\ Len(started) \in Nat /\ Len(finished) \in Nat
  BY AbstractLogs DEF IndInv, TypeOK
<1>1. CASE Lock(w)
  BY <1>1 DEF Lock, Acquire, AcquirePoisoned, mode, history, ProcessAlive,
     Service!serviceVars
<1>2. CASE LeaveLoop(w)
  BY <1>2 DEF LeaveLoop, Disconnected, mode, history, ProcessAlive,
     Service!serviceVars
<1>3. CASE Start(w)
  <2>1. /\ worker[w] = "recv" /\ queue # <<>>
        /\ started' = Append(started, Head(queue))
        /\ UNCHANGED <<poisoned, kind, main, submitted, finished>>
    BY <1>3 DEF Start, Recv, mode
  <2>2. /\ holder = w /\ ~poisoned /\ kind = "Concurrent"
    <3>1. holder = w
      BY <2>1 DEF IndInv, LockInv
    <3>2. ~poisoned
      BY <3>1 DEF IndInv, PoisonInv, Workers, NoWorker
    <3>3. kind = "Concurrent"
      BY <2>1, KindsAssumption DEF IndInv, InlineInv, TypeOK
    <3> QED BY <3>1, <3>2, <3>3
  <2>3. Len(started) = Len(finished)
    BY <2>1, <2>2 DEF IndInv, LockInv, RunInv
  <2>4. /\ queue \in Seq(Job) /\ Len(queue) \in Nat \ {0}
    BY <2>1, EmptySeq DEF IndInv, TypeOK, PoolTypeOK
  <2>5. /\ queue[1] = Len(started) + 1 /\ Head(queue) = queue[1]
        /\ queue[1] \in Job /\ submitted = Len(started) + Len(queue)
    BY <2>1, <2>4 DEF IndInv, NoJobLost, ReceiverAlive, Over
  <2> DEFINE j == Len(started) + 1
  <2>6. j \in Job /\ j \in (1..submitted) \ Begun /\ Begun \ Done = {}
    BY <1>0, <2>3, <2>4, <2>5
  <2>7. Begun' = Begun \cup {j}
    <3>1. Len(started') = j
      BY <1>0, <2>1, <2>5, AppendProperties
    <3>2. Begun' = 1..Len(started')
      BY DEF IndInv, LogInv, Begun
    <3> QED BY <1>0, <3>1, <3>2
  <2>8. Service!Cardinality(Service!Active) < Size
    <3>1. Service!Active = {}
      BY <2>6 DEF Service!Active, Begun, Done
    <3>2. Service!Cardinality(Service!Active) = 0
      <4>1. Service!Cardinality({}) = Cardinality({})
        BY Zenon DEF Service!Cardinality, Cardinality
      <4> QED BY <3>1, <4>1, FS_EmptySet, Zenon
    <3> QED BY <3>2, SizeAssumption
  <2> HIDE DEF j
  <2>9. j \in Service!Waiting
    BY <2>6 DEF Service!Waiting, Begun
  <2>10. \E i \in Job : Service!Begin(i)
    <3>1. PICK i \in Job : i = j
      BY <2>6
    <3>2. i \in Service!Waiting
      BY <2>9, <3>1
    <3>3. poisoned \in BOOLEAN /\ poisoned' \in BOOLEAN
      BY DEF IndInv, TypeOK, PoolTypeOK
    <3> DEFINE Kept == UNCHANGED
                 <<submitted, {finished[k] : k \in 1..Len(finished)},
                   \/ poisoned
                   \/ main = "failure"
                   \/ kind = "Synchronous" /\ main = "panicked",
                   IF ProcessAlive THEN "pending" ELSE main>>
    <3> DEFINE Added == {started[k] : k \in 1..Len(started)}'
                          = {started[k] : k \in 1..Len(started)} \cup {i}
    <3> DEFINE Whole == ~(\/ poisoned
                          \/ main = "failure"
                          \/ kind = "Synchronous" /\ main = "panicked")
    <3>4. Kept
      BY <2>1, <3>3 DEF ProcessAlive
    <3>5. Added
      BY <2>7, <3>1 DEF Begun
    <3>6. Whole
      BY <2>2 DEF ProcessAlive
    <3>7. Whole /\ i \in Service!Waiting /\ Added /\ Kept => Service!Begin(i)
      BY <2>8, Zenon DEF Service!Begin
    <3> HIDE DEF Kept, Added, Whole
    <3> QED BY <3>2, <3>4, <3>5, <3>6, <3>7
  <2> QED BY <2>10 DEF Service!Next, ProcessAlive
<1>4. CASE JobReturns(w)
  <2>1. /\ worker[w] = "run" /\ finished' = Append(finished, running[w])
        /\ UNCHANGED <<poisoned, kind, main, submitted, started>>
    BY <1>4 DEF JobReturns, Return, mode
  <2> DEFINE j == Len(started)
  <2>2. running[w] = j /\ j = Len(finished) + 1
    BY <2>1 DEF IndInv, RunInv
  <2>3. j \in Job
    BY <1>0, <2>2 DEF IndInv, LogInv
  <2>4. Done' = Done \cup {j} /\ j \in Begun \ Done
    <3>1. Len(finished') = j
      BY <1>0, <2>1, <2>2, <2>3, AppendProperties
    <3>2. Done' = 1..Len(finished')
      BY DEF IndInv, LogInv, Done
    <3> QED BY <1>0, <2>2, <3>1, <3>2
  <2> HIDE DEF j
  <2>5. \E i \in Job : Service!Complete(i)
    BY <2>1, <2>3, <2>4, CompleteStep
  <2> QED BY <2>1, <2>5 DEF Service!Next, ProcessAlive
<1>5. CASE JobUnwinds(w)
  <2>1. /\ worker[w] = "run" /\ poisoned' = TRUE
        /\ UNCHANGED <<kind, main, submitted, started, finished>>
    BY <1>5 DEF JobUnwinds, JobPanics, mode, history
  <2>2. Len(started) \in Begun \ Done
    BY <1>0, <2>1 DEF IndInv, RunInv
  <2>3. Service!Break
    BY <2>1, <2>2 DEF Service!Break, Service!Active, Begun, Done, ProcessAlive
  <2> QED BY <2>3 DEF Service!Next, ProcessAlive
<1>6. CASE JobAborts(w)
  <2>1. /\ worker[w] = "run" /\ main' = "failure"
        /\ UNCHANGED <<kind, submitted, started, finished>>
    BY <1>6 DEF JobAborts, mode, history
  <2>2. Len(started) \in Begun \ Done
    BY <1>0, <2>1 DEF IndInv, RunInv
  <2>3. Service!Break
    BY <2>1, <2>2 DEF Service!Break, Service!Active, Begun, Done, ProcessAlive
  <2> QED BY <2>3 DEF Service!Next, ProcessAlive
<1> QED BY <1>1, <1>2, <1>3, <1>4, <1>5, <1>6 DEF WorkerStep, JobEnds

\* The executor keeps the contract of JobService: whatever the number of
\* threads and jobs, the panic strategy and the interleaving, each accepted job
\* runs once, nothing starts after a panic, and the process succeeds only when
\* all accepted jobs have run to their end.
THEOREM Refinement == Spec => ImplementsService
<1>1. Init => PanicInv /\ Service!Init
  BY PanicInvInit, InitImplements
<1>2. IndInv /\ PanicInv /\ [Next]_vars => PanicInv'
  BY PanicInvNext
<1>3. IndInv /\ IndInv' /\ PanicInv /\ [Next]_vars
        => [Service!Next]_(Service!serviceVars)
  <2> SUFFICES ASSUME IndInv, IndInv', PanicInv, [Next]_vars
               PROVE  Service!Next \/ UNCHANGED Service!serviceVars
    OBVIOUS
  <2>1. CASE UNCHANGED vars
    BY <2>1 DEF vars, ProcessAlive, Service!serviceVars
  <2> QED BY <2>1, OwnerImplements, WorkerImplements DEF Next, Ended
<1> QED BY Invariance, <1>1, <1>2, <1>3, PTL
    DEF Spec, ImplementsService, Service!Spec
-----------------------------------------------------------------------------
(***************************************************************************)
(* xargs is an Executor that submits commands: every step of it is a step  *)
(* of Executor, so that what is proved of Executor above holds of the      *)
(* xargs that is checked.  What is special to xargs follows: the order of  *)
(* its outputs, and that every item is passed on exactly once.             *)
(***************************************************************************)

\* A step of xargs is a step of the executor below it.
LEMMA StepIsExecutorStep ==
  ASSUME [XargsNext]_allVars
  PROVE  [Next]_vars
<1>1. CASE ProcessAlive /\ XargsMain
  <2>1. Owner
    BY <1>1 DEF XargsMain, CreateJob, NoMoreJobs, OtherOwnerStep, CommandEnds,
                CommandFails, Owner
  <2> QED
    BY <1>1, <2>1 DEF Next
<1>2. ASSUME ProcessAlive, NEW w \in Workers, XargsWorker(w)
      PROVE  Next
  <2>1. WorkerStep(w)
    BY <1>2 DEF XargsWorker, WorkerCommandEnds, WorkerCommandFails, OtherWorkerStep,
                WorkerStep, JobEnds
  <2> QED
    BY <1>2, <2>1 DEF Next
<1>3. CASE UNCHANGED allVars
  BY <1>3 DEF allVars, vars
<1> QED
  BY <1>1, <1>2, <1>3 DEF XargsNext, XargsEnded

\* Every behaviour of xargs is one of Executor.
THEOREM XargsUsesExecutor == XargsSpec => Spec
<1>1. XargsInit => Init
  BY DEF XargsInit
<1> QED
  BY <1>1, StepIsExecutorStep, PTL DEF XargsSpec, Spec

\* So xargs keeps the contract of the job service: each command begins at most once,
\* none after one could not be run, and success means that all of them ended.
THEOREM XargsImplementsService == XargsSpec => ImplementsService
BY XargsUsesExecutor, Refinement, PTL

-----------------------------------------------------------------------------

\* The outputs are written by the jobs that return, as they return.
OutputLog == stdout = finished

\* Nothing has been written and no job has returned.
LEMMA OutputLogInit == XargsInit => OutputLog
BY DEF XargsInit, Init, OutputLog

\* A step of xargs writes the output of a command when its job returns, and only then.
LEMMA OutputLogNext ==
  ASSUME OutputLog, [XargsNext]_allVars
  PROVE  OutputLog'
<1> USE DEF OutputLog, xargsVars, payload, history, mode
<1>1. CASE XargsMain
  <2>1. CASE CreateJob
    BY <2>1 DEF CreateJob, Submit, RunInline
  <2>2. CASE NoMoreJobs
    BY <2>2 DEF NoMoreJobs, Finish, FinishInline
  <2>3. CASE OtherOwnerStep
    BY <2>3 DEF OtherOwnerStep, Sent, SubmitPanics, Join, JoinPanics, Exit
  <2>4. CASE CommandEnds
    BY <2>4 DEF CommandEnds, InlineReturns
  <2>5. CASE CommandFails
    BY <2>5 DEF CommandFails, InlinePanics
  <2> QED
    BY <1>1, <2>1, <2>2, <2>3, <2>4, <2>5 DEF XargsMain
<1>2. ASSUME NEW w \in Workers, XargsWorker(w)
      PROVE  stdout' = finished'
  <2>1. CASE WorkerCommandEnds(w)
    BY <2>1 DEF WorkerCommandEnds, JobReturns
  <2>2. CASE WorkerCommandFails(w)
    BY <2>2 DEF WorkerCommandFails, JobUnwinds, JobAborts
  <2>3. CASE OtherWorkerStep(w)
    BY <2>3 DEF OtherWorkerStep, Lock, Start, LeaveLoop
  <2> QED
    BY <1>2, <2>1, <2>2, <2>3 DEF XargsWorker
<1>3. CASE UNCHANGED allVars
  BY <1>3 DEF allVars, vars
<1> QED
  BY <1>1, <1>2, <1>3 DEF XargsNext, XargsEnded

\* Commands run one after the other, so their outputs come in the order of the
\* input, however many threads -P asks for.
THEOREM OutputsComeInOrder == XargsSpec => []OutputInOrder
<1>1. IndInv /\ OutputLog => OutputInOrder
  BY DEF IndInv, LogInv, OutputLog, OutputInOrder
<1> QED
  BY <1>1, XargsUsesExecutor, Invariance, OutputLogInit, OutputLogNext, PTL DEF XargsSpec

-----------------------------------------------------------------------------
(* The items. *)

Item == Seq(Byte)

\* Cutting the input at the separators gives items.
LEMMA SeparateType ==
  ASSUME NEW t \in Seq(Byte), NEW sep
  PROVE  Separate(t, sep) \in Seq(Item)
<1> DEFINE V == Seq(Item)
           At(s) == SelectInSeq(s, LAMBDA b : b \in {sep, "err"})
           First(s) == IF At(s) = 0 THEN s ELSE SubSeq(s, 1, At(s) - 1)
           Rest(s) == IF At(s) = 0 THEN <<>> ELSE SubSeq(s, At(s) + 1, Len(s))
           Lost(s) == Contains(First(s), "bad") \/ (At(s) # 0 /\ s[At(s)] = "err")
           Kept(s) == IF Lost(s) THEN <<>> ELSE <<First(s)>>
           size == [s \in Item |-> Len(s)]
           Base == {<<>>}
           base == [s \in Base |-> <<>>]
           smaller == [s \in Item \ Base |-> Rest(s)]
           step == [s \in Item \ Base |-> [v \in V |-> Kept(s) \o v]]
           Is(f) == f = [s \in Item |-> IF s = <<>> THEN <<>> ELSE Kept(s) \o f[Rest(s)]]
<1>1. ASSUME NEW s \in Item PROVE At(s) \in 0..Len(s)
  <2> DEFINE I == {i \in 1..Len(s) : s[i] \in {sep, "err"}}
  <2>1. At(s) = IF I # {} THEN Min(I) ELSE 0
    BY DEF SelectInSeq
  <2>2. I \subseteq Nat
    OBVIOUS
  <2>3. I # {} => Min(I) \in I
    <3> HIDE DEF I
    <3> QED BY <2>2, MinIsLeast
  <2> HIDE DEF At
  <2> QED BY <2>1, <2>3, LenProperties
<1> HIDE DEF At
<1>2. ASSUME NEW s \in Item
      PROVE  First(s) \in Item /\ Rest(s) \in Item /\ Kept(s) \in V
  <2>1. At(s) = 0 \/ (At(s) - 1 \in 0..Len(s) /\ At(s) \in 0..Len(s))
    BY <1>1, <1>2, LenProperties DEF Item
  <2>2. First(s) \in Item /\ Rest(s) \in Item
    BY <2>1, CutInTwo, EmptySeq DEF Item
  <2> HIDE DEF First, Lost
  <2>3. <<First(s)>> \in V /\ <<>> \in V
    BY <2>2, EmptySeq
  <2> QED BY <2>2, <2>3
<1>3. ASSUME NEW s \in Item, s # <<>>
      PROVE  Len(Rest(s)) < Len(s)
  <2>1. At(s) \in 0..Len(s) /\ Len(s) \in Nat \ {0} /\ Len(<<>>) = 0
    BY <1>1, <1>3, EmptySeq DEF Item
  <2>2. At(s) # 0 => Len(SubSeq(s, At(s) + 1, Len(s))) = Len(s) - At(s)
    BY <2>1, CutInTwo, SMTT(30) DEF Item
  <2> QED BY <2>1, <2>2
<1> HIDE DEF First, Rest, Lost, Kept
<1>4. RecursionOn(Item, V, size, Base, base, smaller, step)
  <2>1. <<>> \in Item /\ <<>> \in V
    BY EmptySeq DEF Item
  <2>2. size \in [Item -> Nat] /\ Base \in SUBSET Item /\ base \in [Base -> V]
    BY <2>1, LenProperties DEF Item
  <2>3. /\ smaller \in [Item \ Base -> Item]
        /\ \A s \in Item \ Base : size[smaller[s]] < size[s]
    BY <1>2, <1>3
  <2>4. ASSUME NEW s \in Item \ Base, NEW v \in V PROVE Kept(s) \o v \in V
    BY <1>2, ConcatProperties
  <2>5. step \in [Item \ Base -> [V -> V]]
    BY <2>4
  <2> HIDE DEF V, size, Base, base, smaller, step
  <2> QED BY <2>2, <2>3, <2>5 DEF RecursionOn
<1>5. PICK f \in [Item -> V] : Recursive(f, Item, Base, base, smaller, step)
  <2> HIDE DEF V, size, Base, base, smaller, step
  <2> QED BY <1>4, RecursiveFunctionExists
<1> HIDE DEF V
<1>6. Is(f)
  <2>1. ASSUME NEW s \in Item
        PROVE  f[s] = IF s = <<>> THEN <<>> ELSE Kept(s) \o f[Rest(s)]
    <3>1. CASE s = <<>>
      BY <1>5, <3>1 DEF Recursive
    <3>2. CASE s # <<>>
      <4>1. f[s] = step[s][f[smaller[s]]] /\ smaller[s] = Rest(s) /\ f[Rest(s)] \in V
        BY <1>2, <1>5, <3>2 DEF Recursive
      <4>2. step[s][f[Rest(s)]] = Kept(s) \o f[Rest(s)]
        BY <3>2, <4>1
      <4> QED BY <3>2, <4>1, <4>2
    <3> QED BY <3>1, <3>2
  <2> HIDE DEF Item
  <2> QED BY <1>5, <2>1
<1> DEFINE items == CHOOSE g : Is(g)
<1>7. Is(items)
  <2> HIDE DEF Is
  <2> QED BY <1>6
<1>8. \A s \in Item : items[s] \in V
  <2> DEFINE P == {s \in Item : items[s] \in V}
  <2> HIDE DEF items
  <2>1. size \in [Item -> Nat]
    BY LenProperties DEF Item
  <2>2. ASSUME NEW s \in Item, \A y \in Item : size[y] < size[s] => y \in P
        PROVE  s \in P
    <3>1. CASE s = <<>>
      BY <1>7, <3>1, EmptySeq DEF V
    <3>2. CASE s # <<>>
      <4>1. Rest(s) \in Item /\ size[Rest(s)] < size[s]
        BY <1>2, <1>3, <3>2
      <4>2. items[Rest(s)] \in V /\ items[s] = Kept(s) \o items[Rest(s)]
        BY <1>7, <2>2, <3>2, <4>1
      <4>3. Kept(s) \o items[Rest(s)] \in V
        BY <1>2, <4>2, ConcatProperties DEF V
      <4> QED BY <4>2, <4>3
    <3> QED BY <3>1, <3>2
  <2> HIDE DEF P, size
  <2>3. \A s \in Item : s \in P
    BY <2>1, <2>2, InductionOnSize
  <2> QED BY <2>3 DEF P
<1>9. Separate(t, sep) = items[t]
  BY DEF Separate, Item, At, First, Rest, Lost, Kept
<1> QED BY <1>8, <1>9 DEF V, Item

\* The invariant behind ItemsPassedOnce: the types, and where main is.  A command is
\* created just before it is submitted, and finish() is called when no item is after.
PassInv ==
  /\ text \in Seq(Byte) /\ max_args \in Nat \ {0}
  /\ commands \in Seq(Seq(Item)) /\ unread \in Seq(Item)
  /\ ItemsPassedOnce
  /\ main = "sending" => Len(commands) = submitted + 1
  /\ main \in {"open", "inline", "joining", "returned", "success"} =>
       Len(commands) = submitted
  /\ main \in {"joining", "returned", "success"} => unread = <<>>

\* All items are unread.
LEMMA PassInvInit == XargsInit => PassInv
<1> SUFFICES ASSUME XargsInit PROVE PassInv
  OBVIOUS
<1>1. text \in Seq(Byte) /\ max_args \in Nat \ {0}
  BY TextsAssumption, MaxArgsAssumption DEF XargsInit
<1>2. unread \in Seq(Item) /\ unread = Separate(text, InputSep(options))
  BY <1>1, SeparateType DEF XargsInit
<1>3. /\ commands = <<>> /\ commands \in Seq(Seq(Item)) /\ Len(commands) = 0
      /\ submitted = 0 /\ main = "open"
  BY EmptySeq DEF XargsInit, Init
<1>4. FlattenSeq(commands) \o unread = unread
  BY <1>2, <1>3, FlattenEmpty, ConcatEmptySeq
<1> QED BY <1>1, <1>2, <1>3, <1>4 DEF PassInv, ItemsPassedOnce

\* A command takes the next items, at least one and at most max_args.
LEMMA CreateJobPreserves ==
  ASSUME PassInv, IndInv, CreateJob
  PROVE  PassInv'
<1> DEFINE n == JobSize
<1>1. /\ main = "open" /\ unread # <<>> /\ Len(unread) \in Nat \ {0}
      /\ text' = text /\ max_args' = max_args /\ options' = options
  BY EmptySeq DEF PassInv, CreateJob, Submit, RunInline, payload
<1>2. n \in 1..max_args /\ n \in 0..Len(unread)
  BY <1>1 DEF JobSize, PassInv
<1> HIDE DEF n
<1> DEFINE taken == SubSeq(unread, 1, n)
           after == SubSeq(unread, n + 1, Len(unread))
<1>3. commands' = Append(commands, taken) /\ unread' = after
  BY DEF CreateJob, Take, n
<1>4. /\ taken \in Seq(Item) /\ Len(taken) = n /\ after \in Seq(Item)
      /\ taken \o after = unread
  BY <1>2, CutInTwo DEF PassInv
<1> HIDE DEF taken, after
<1>5. /\ commands' \in Seq(Seq(Item)) /\ Len(commands') = Len(commands) + 1
      /\ \A k \in 1..Len(commands) : commands'[k] = commands[k]
      /\ commands'[Len(commands) + 1] = taken /\ Len(commands) \in Nat
  BY <1>3, <1>4, AppendProperties, LenProperties DEF PassInv
<1>6. FlattenSeq(commands') \o unread' = Separate(text, InputSep(options))
  <2>1. FlattenSeq(Append(commands, taken)) \o after = FlattenSeq(commands) \o (taken \o after)
    <3>1. \A x, y \in Seq(Item) : FlattenSeq(Append(commands, x)) \o y
                                    = FlattenSeq(commands) \o (x \o y)
      <4>1. commands \in Seq(Seq(Item))
        BY DEF PassInv
      <4> QED BY <4>1, FlattenMove, SMTT(30)
    <3>2. taken \in Seq(Item) /\ after \in Seq(Item)
      BY <1>4
    <3> QED BY <3>1, <3>2
  <2> QED BY <1>3, <1>4, <2>1 DEF PassInv, ItemsPassedOnce
<1>7. \A k \in 1..Len(commands') : Len(commands'[k]) \in 1..max_args
  <2>1. \A k \in 1..Len(commands') : k = Len(commands) + 1 \/ k \in 1..Len(commands)
    BY <1>5
  <2> QED BY <1>2, <1>4, <1>5, <2>1 DEF PassInv, ItemsPassedOnce
<1>8. \/ main' = "sending" /\ submitted' = submitted
      \/ main' = "inline" /\ submitted' = submitted + 1
  BY DEF CreateJob, Submit, RunInline, NextJob, history
<1>9. Len(commands) = submitted /\ submitted \in Nat
  BY <1>1 DEF PassInv, IndInv, TypeOK
<1> QED
  BY <1>1, <1>3, <1>4, <1>5, <1>6, <1>7, <1>8, <1>9
  DEF PassInv, ItemsPassedOnce, InputSep

\* No other step creates a command or reads an item.
LEMMA OtherStepsPreserve ==
  ASSUME PassInv, IndInv, [XargsNext]_allVars, ~CreateJob
  PROVE  PassInv'
<1> USE DEF xargsVars, payload, history
<1>1. submitted \in Nat /\ (main = "inline" => kind = "Synchronous")
  BY DEF IndInv, TypeOK, InlineInv
<1>2. UNCHANGED <<text, options, max_args, unread, commands>>
  BY DEF XargsNext, XargsMain, NoMoreJobs, OtherOwnerStep, CommandEnds, CommandFails,
         XargsWorker, WorkerCommandEnds, WorkerCommandFails, OtherWorkerStep,
         XargsEnded, allVars
<1>3. /\ \/ submitted' = submitted
         \/ main = "sending" /\ main' = "open" /\ submitted' = submitted + 1
      /\ \/ main' = main
         \/ main \in {"open", "sending", "inline"} /\ main' \in {"open", "panicked", "failure"}
         \/ unread = <<>> /\ main = "open" /\ main' \in {"joining", "returned"}
         \/ main \in {"joining", "returned"} /\ main' \in {"returned", "success"}
         \/ main' \in {"panicked", "failure"}
      /\ main' = "open" => main \in {"open", "sending", "inline"}
      /\ main = "sending" /\ main' = "open" => submitted' = submitted + 1
  <2>1. CASE XargsMain
    <3>1. CASE NoMoreJobs
      BY <3>1 DEF NoMoreJobs, Finish, FinishInline
    <3>2. CASE OtherOwnerStep
      BY <3>2 DEF OtherOwnerStep, Sent, SubmitPanics, Join, JoinPanics, Exit, NextJob, AfterPanic
    <3>3. CASE CommandEnds \/ CommandFails
      BY <3>3 DEF CommandEnds, CommandFails, InlineReturns, InlinePanics, AfterPanic
    <3> QED BY <2>1, <3>1, <3>2, <3>3 DEF XargsMain
  <2>2. ASSUME NEW w \in Workers, XargsWorker(w)
        PROVE  submitted' = submitted /\ main' \in {main, "failure"}
    BY <2>2 DEF XargsWorker, WorkerCommandEnds, WorkerCommandFails, OtherWorkerStep,
                JobReturns, JobUnwinds, JobAborts, Lock, Start, LeaveLoop
  <2>3. CASE UNCHANGED allVars
    BY <2>3 DEF allVars, vars
  <2> QED BY <2>1, <2>2, <2>3 DEF XargsNext, XargsEnded
<1>4. ItemsPassedOnce'
  BY <1>1, <1>2, <1>3 DEF PassInv, ItemsPassedOnce, InputSep
<1> QED
  BY <1>1, <1>2, <1>3, <1>4 DEF PassInv

\* No step of xargs loses an item or passes it twice.
LEMMA PassInvNext ==
  ASSUME PassInv, IndInv, [XargsNext]_allVars
  PROVE  PassInv'
BY CreateJobPreserves, OtherStepsPreserve

\* Every item that the reads deliver is an argument of exactly one command, in the order
\* of the input, and no command gets none or more than --max-args: for every input and
\* every place where reads of it fail, every --max-args, with and without --replace,
\* and whatever fails later.
THEOREM EveryItemPassedOnce == XargsSpec => []ItemsPassedOnce
<1>1. PassInv => ItemsPassedOnce
  BY DEF PassInv
<1> QED
  BY <1>1, XargsUsesExecutor, Invariance, PassInvInit, PassInvNext, PTL DEF XargsSpec

\* xargs exits with 0 only when all items that the reads deliver were passed to commands
\* that ran; a failed read, which loses the item it interrupts, is not told.
THEOREM SuccessIsComplete == XargsSpec => []SuccessMeansAllPassed
<1>1. PassInv /\ IndInv /\ OutputLog /\ SuccessMeansAllRan => SuccessMeansAllPassed
  <2> SUFFICES ASSUME PassInv, IndInv, OutputLog, SuccessMeansAllRan, main = "success"
               PROVE  /\ FlattenSeq(commands) = Separate(text, InputSep(options))
                      /\ Len(stdout) = Len(commands)
    BY DEF SuccessMeansAllPassed
  <2>1. unread = <<>> /\ Len(commands) = submitted
    BY DEF PassInv
  <2>2. FlattenSeq(commands) \in Seq(Item)
    BY FlattenType DEF PassInv
  <2>3. FlattenSeq(commands) \o <<>> = FlattenSeq(commands)
    BY <2>2, ConcatEmptySeq
  <2> QED BY <2>1, <2>3 DEF PassInv, ItemsPassedOnce, OutputLog, SuccessMeansAllRan
<1> QED
  BY <1>1, XargsUsesExecutor, Invariance, FinishWaitsForAll, OutputLogInit, OutputLogNext,
     PassInvInit, PassInvNext, PTL DEF XargsSpec
=============================================================================
