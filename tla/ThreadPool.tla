----------------------------- MODULE ThreadPool -----------------------------
(***************************************************************************)
(* The thread pool of src/executor.rs: `Size` worker threads that share    *)
(* one Mutex<Receiver<J>>, fed by the SyncSender of a bounded channel.     *)
(*                                                                         *)
(* This module holds the pool's state and one action per step of a worker  *)
(* or per call of the thread that owns the pool.  It has no specification  *)
(* of its own: Executor, Sort, Wc and Xargs each add the owning thread and *)
(* the effect of their jobs.                                               *)
(*                                                                         *)
(* The loop of a worker is                                                 *)
(*                                                                         *)
(*     while let Ok(job) = thread_recv.lock().unwrap().recv() {            *)
(*         job.run();                                                      *)
(*     }                                                                   *)
(*                                                                         *)
(* The MutexGuard returned by lock() is a temporary of the scrutinee of    *)
(* `while let`, and such a temporary lives until the end of the loop body: *)
(* the worker holds the mutex while it waits in recv() AND while it runs   *)
(* the job, and a panic of the job drops the guard during unwinding, which *)
(* poisons the mutex.                                                      *)
(***************************************************************************)
EXTENDS Naturals, Sequences

CONSTANTS Size,   \* number of threads, and the bound of the channel
          Job,    \* what can be submitted
          NoJob   \* the value of `running[w]` when w runs nothing

ASSUME SizeAssumption == Size \in Nat \ {0}     \* NonZeroU32
ASSUME NoJobAssumption == NoJob \notin Job

Workers == 1..Size
NoWorker == 0

VARIABLES
  queue,      \* jobs buffered in the channel, oldest first
  sender,     \* the SyncSender has not been dropped
  holder,     \* the worker that holds the mutex, or NoWorker
  poisoned,   \* the mutex is poisoned
  worker,     \* what each worker is doing
  running     \* the job each worker runs

poolVars == <<queue, sender, holder, poisoned, worker, running>>

(***************************************************************************)
(* "lock": in lock().unwrap();  "recv": holds the mutex, in recv();        *)
(* "run": holds the mutex, in job.run();  "exited": left the loop;         *)
(* "panicked": the thread died in a panic.                                 *)
(***************************************************************************)
Over == {"exited", "panicked"}
WorkerState == {"lock", "recv", "run"} \cup Over

PoolTypeOK ==
  /\ queue \in Seq(Job)
  /\ sender \in BOOLEAN
  /\ holder \in Workers \cup {NoWorker}
  /\ poisoned \in BOOLEAN
  /\ worker \in [Workers -> WorkerState]
  /\ running \in [Workers -> Job \cup {NoJob}]

\* ThreadPool::new: the threads are spawned before `new` returns.
New ==
  /\ queue = <<>>
  /\ sender = TRUE
  /\ holder = NoWorker
  /\ poisoned = FALSE
  /\ worker = [w \in Workers |-> "lock"]
  /\ running = [w \in Workers |-> NoJob]

-----------------------------------------------------------------------------
(* Worker threads. *)

\* Each live thread owns a clone of the Arc around the receiver.
ReceiverAlive == \E w \in Workers : worker[w] \notin Over

\* Thread w ends.  The last one to end drops the receiver, and the jobs that
\* are still in the channel with it.
End(w, how) ==
  /\ worker' = [worker EXCEPT ![w] = how]
  /\ queue' = IF \A v \in Workers \ {w} : worker[v] \in Over THEN <<>> ELSE queue

\* lock() returns the guard, unwrap() passes it on.
Acquire(w) ==
  /\ worker[w] = "lock" /\ holder = NoWorker /\ ~poisoned
  /\ holder' = w
  /\ worker' = [worker EXCEPT ![w] = "recv"]
  /\ UNCHANGED <<queue, sender, poisoned, running>>

\* lock() returns a PoisonError, unwrap() panics.
AcquirePoisoned(w) ==
  /\ worker[w] = "lock" /\ holder = NoWorker /\ poisoned
  /\ End(w, "panicked")
  /\ UNCHANGED <<sender, holder, poisoned, running>>

\* Mutant of Recv: `let job = lock().unwrap().recv()` on a line of its own, which
\* drops the guard before the job runs.
RecvUnlocks(w) ==
  /\ worker[w] = "recv" /\ queue # <<>>
  /\ queue' = Tail(queue)
  /\ running' = [running EXCEPT ![w] = Head(queue)]
  /\ worker' = [worker EXCEPT ![w] = "run"]
  /\ holder' = NoWorker
  /\ UNCHANGED <<sender, poisoned>>

\* recv() returns Ok(job) and job.run() starts, with the guard still alive.
Recv(w) ==
  /\ worker[w] = "recv" /\ queue # <<>>
  /\ queue' = Tail(queue)
  /\ running' = [running EXCEPT ![w] = Head(queue)]
  /\ worker' = [worker EXCEPT ![w] = "run"]
  /\ UNCHANGED <<sender, holder, poisoned>>

\* Mutant of Disconnected: the loop ends with the sender, not with the channel.
LeavesEarly(w) ==
  /\ worker[w] = "recv" /\ ~sender
  /\ End(w, "exited")
  /\ holder' = NoWorker
  /\ UNCHANGED <<sender, poisoned, running>>

\* recv() fails once the channel is empty and the sender is gone.
Disconnected(w) ==
  /\ worker[w] = "recv" /\ queue = <<>> /\ ~sender
  /\ End(w, "exited")
  /\ holder' = NoWorker
  /\ UNCHANGED <<sender, poisoned, running>>

\* job.run() returns; the end of the loop body drops the guard.
Return(w) ==
  /\ worker[w] = "run"
  /\ holder' = NoWorker
  /\ running' = [running EXCEPT ![w] = NoJob]
  /\ worker' = [worker EXCEPT ![w] = "lock"]
  /\ UNCHANGED <<queue, sender, poisoned>>

\* Mutant of JobPanics: a mutex that is not poisoned.
PanicsCleanly(w) ==
  /\ worker[w] = "run"
  /\ End(w, "panicked")
  /\ holder' = NoWorker
  /\ running' = [running EXCEPT ![w] = NoJob]
  /\ UNCHANGED <<sender, poisoned>>

\* job.run() panics and unwinds: the guard is dropped while panicking.
JobPanics(w) ==
  /\ worker[w] = "run"
  /\ End(w, "panicked")
  /\ holder' = NoWorker
  /\ poisoned' = TRUE
  /\ running' = [running EXCEPT ![w] = NoJob]
  /\ UNCHANGED sender

-----------------------------------------------------------------------------
(* The thread that owns the pool. *)

\* ThreadPool::submit: send() blocks while the channel is full.
Send(j) ==
  /\ sender /\ ReceiverAlive /\ Len(queue) < Size
  /\ queue' = Append(queue, j)
  /\ UNCHANGED <<sender, holder, poisoned, worker, running>>

\* send() fails, and unwrap() panics, when the receiver is gone.
SendFails == sender /\ ~ReceiverAlive

\* The first statement of ThreadPool::finish; also what unwinding the owner does.
DropSender ==
  /\ sender' = FALSE
  /\ UNCHANGED <<queue, holder, poisoned, worker, running>>
=============================================================================
