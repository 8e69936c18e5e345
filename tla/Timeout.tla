------------------------------ MODULE Timeout -------------------------------
(***************************************************************************)
(* src/bin/timeout.rs: spawn a command, poll it every SLEEP_INTERVAL, and  *)
(* kill it when it runs for longer than the duration.  Time passes between *)
(* any two steps of the program: nothing bounds how late it is scheduled.  *)
(* The names differ from those of Ping: WaitingProofs extends both.        *)
(***************************************************************************)
EXTENDS Naturals

CONSTANTS
  Durations,      \* the durations to consider, in ticks
  UnitSuffixes,       \* subset of {"s", "none"}: how the duration is written
  Interval,       \* SLEEP_INTERVAL, in ticks
  Codes,          \* exit codes of commands
  MaxTime         \* bound on the clock

ASSUME DurationsAssumption == Durations \subseteq Nat
ASSUME SuffixesAssumption == UnitSuffixes \subseteq {"s", "none"}
ASSUME IntervalAssumption == Interval \in Nat \ {0}
ASSUME CodesAssumption == Codes \subseteq 0..255
\* The clock goes on until everything the program may wait for has happened.
ASSUME MaxTimeAssumption ==
  MaxTime \in Nat /\ \A d \in Durations : d + Interval < MaxTime

VARIABLES
  duration, suffix,
  now,          \* time since `start`
  at,           \* where the program is
  status,       \* the exit status it ends with
  wake,         \* when the sleep is over
  child,        \* "none", "running", "exited" or "killed"
  foreign,      \* the child runs as another user, and may not be sent signals
  code,         \* what the child exited with, or BySignal
  endedAt,      \* history: when the child exited
  lastPoll,     \* history: when try_wait() last found it running
  pollFailed    \* history: try_wait() returned an error

arguments == <<duration, suffix>>
childVars == <<child, foreign, code, endedAt>>
pollVars == <<lastPoll, pollFailed>>
timeoutVars == <<duration, suffix, now, at, status, wake, child, foreign, code,
                 endedAt, lastPoll, pollFailed>>

TimedOut == 124
BySignal == 256   \* ExitStatus::code() is None
Failed == 255     \* exit(-1)
Aborted == 134    \* a panic
Place == {"parse", "spawn", "poll", "check", "sleep", "kill", "done"}

TimeoutInit ==
  /\ duration \in Durations /\ suffix \in UnitSuffixes
  /\ now = 0 /\ at = "parse" /\ status = 0 /\ wake = 0
  /\ child = "none" /\ foreign = FALSE /\ code = 0 /\ endedAt = 0
  /\ lastPoll = 0 /\ pollFailed = FALSE

Exit(s) == at' = "done" /\ status' = s

\* An error is reported on stderr; if that fails, eprintln! panics.
SpawnFails == Exit(Failed) \/ Exit(Aborted)

-----------------------------------------------------------------------------
(* The program. *)

\* The last character is taken for the suffix; a digit is none: usage, exit(1).
Parse ==
  /\ at = "parse"
  /\ IF suffix = "none" THEN Exit(1) ELSE at' = "spawn" /\ UNCHANGED status
  /\ UNCHANGED <<arguments, now, wake, childVars, pollVars>>

\* Time is counted from here on.  The command may change its user, as sudo does.
Spawn ==
  /\ at = "spawn"
  /\ \/ child' = "running" /\ foreign' \in BOOLEAN /\ at' = "poll" /\ UNCHANGED status
     \/ SpawnFails /\ UNCHANGED <<child, foreign>>
  /\ UNCHANGED <<arguments, now, wake, code, endedAt, pollVars>>

\* try_wait() returns the status of a child that has exited ...
PollExited ==
  /\ at = "poll" /\ child = "exited"
  /\ Exit(IF code = BySignal THEN Failed ELSE code)
  /\ UNCHANGED <<arguments, now, wake, childVars, pollVars>>

\* ... or None ...
PollRunning ==
  /\ at = "poll" /\ child = "running"
  /\ at' = "check"
  /\ lastPoll' = now
  /\ UNCHANGED <<arguments, now, status, wake, childVars, pollFailed>>

\* ... or an error, which is reported before the command is killed.
PollFails ==
  /\ at = "poll"
  /\ \/ at' = "kill" /\ UNCHANGED status
     \/ Exit(Aborted)
  /\ pollFailed' = TRUE
  /\ UNCHANGED <<arguments, now, wake, childVars, lastPoll>>

\* Mutants of Check: `>=`, and a loop without a deadline.
CheckTooSoon ==
  /\ at = "check"
  /\ IF now >= duration THEN at' = "kill" /\ UNCHANGED wake
     ELSE at' = "sleep" /\ wake' = now + Interval
  /\ UNCHANGED <<arguments, now, status, childVars, pollVars>>
CheckNever ==
  /\ at = "check"
  /\ at' = "sleep" /\ wake' = now + Interval
  /\ UNCHANGED <<arguments, now, status, childVars, pollVars>>

\* start.elapsed() > duration
Check ==
  /\ at = "check"
  /\ IF now > duration THEN at' = "kill" /\ UNCHANGED wake
     ELSE at' = "sleep" /\ wake' = now + Interval
  /\ UNCHANGED <<arguments, now, status, childVars, pollVars>>

Wake ==
  /\ at = "sleep" /\ now >= wake
  /\ at' = "poll"
  /\ UNCHANGED <<arguments, now, status, wake, childVars, pollVars>>

\* kill() does nothing to a child that has exited and was not waited for.
Kill ==
  /\ at = "kill" /\ ~foreign
  /\ child' = IF child = "running" THEN "killed" ELSE child
  /\ Exit(TimedOut)
  /\ UNCHANGED <<arguments, now, wake, foreign, code, endedAt, pollVars>>

\* expect() panics: kill() is not permitted (EPERM), or there is no such process,
\* as try_wait() failed because SIGCHLD is ignored and the child is gone.
KillFails ==
  /\ at = "kill" /\ (foreign \/ (child = "exited" /\ pollFailed))
  /\ Exit(Aborted)
  /\ UNCHANGED <<arguments, now, wake, childVars, pollVars>>

Program == Parse \/ Spawn \/ PollExited \/ PollRunning \/ PollFails \/ Check \/ Wake \/ Kill
        \/ KillFails

-----------------------------------------------------------------------------
(* The environment. *)

ChildExits ==
  /\ child = "running"
  /\ child' = "exited" /\ endedAt' = now
  /\ code' \in Codes \cup {BySignal}
  /\ UNCHANGED <<arguments, now, at, status, wake, foreign, pollVars>>

Tick ==
  /\ at \notin {"parse", "spawn", "done"} /\ now < MaxTime
  /\ now' = now + 1
  /\ UNCHANGED <<arguments, at, status, wake, childVars, pollVars>>

ProgramEnded == at = "done" /\ UNCHANGED timeoutVars

TimeoutNext == Program \/ ChildExits \/ Tick \/ ProgramEnded
TimeoutSpec == TimeoutInit /\ [][TimeoutNext]_timeoutVars

\* The program is scheduled and time passes; the child may run for ever.
TimeoutFairSpec == TimeoutSpec /\ WF_timeoutVars(Program) /\ WF_timeoutVars(Tick)

-----------------------------------------------------------------------------
(* Safety. *)

\* The type invariant.
TimeoutTypeOK ==
  /\ duration \in Durations /\ suffix \in UnitSuffixes
  /\ now \in 0..MaxTime /\ wake \in 0..(MaxTime + Interval)
  /\ at \in Place /\ status \in 0..255
  /\ child \in {"none", "running", "exited", "killed"}
  /\ code \in Codes \cup {0, BySignal}
  /\ endedAt \in 0..MaxTime /\ lastPoll \in 0..MaxTime
  /\ pollFailed \in BOOLEAN /\ foreign \in BOOLEAN

\* The command's own status is passed on when it ended before the last poll;
\* 124 is for a command that was still running then; it is given, and a command is
\* killed, only after the time is up, and not to one that may not be killed:
\* about that one timeout panics.
StatusTellsTheEnd ==
  at = "done" /\ child # "none" /\ ~pollFailed =>
    \/ child = "exited" /\ status = (IF code = BySignal THEN Failed ELSE code)
    \/ /\ now > duration
       /\ child = "exited" => endedAt >= lastPoll
       /\ IF foreign THEN status = Aborted ELSE status = TimedOut /\ child # "running"

-----------------------------------------------------------------------------
(* Liveness. *)

\* timeout ends, and so does the command, however long it wants to run, unless it
\* may not be killed or the report of a failed poll could not be written.  A
\* duration of 0 is left out: it is documented to disable the timeout (lines 6-7).
Termination ==
  duration > 0 =>
    <>(at = "done" /\ (child = "running" => status = Aborted /\ (foreign \/ pollFailed)))

=============================================================================
