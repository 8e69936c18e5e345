----------------------------- MODULE JobService -----------------------------
(***************************************************************************)
(* What an Executor promises to the program that uses it, whatever runs    *)
(* the jobs: jobs are accepted one after the other, each runs at most      *)
(* once, and the process ends with success only when all of them have run  *)
(* to their end.  Nothing is said about the order in which jobs start, and *)
(* up to MaxConcurrent of them may run at the same time.                   *)
(***************************************************************************)
EXTENDS Naturals, FiniteSets

CONSTANTS Job, MaxConcurrent

VARIABLES
  accepted,   \* jobs 1..accepted have been accepted
  begun,      \* the jobs that began to run
  done,       \* the jobs that ran to their end
  broken,     \* a job panicked
  outcome     \* "pending", then the exit status

serviceVars == <<accepted, begun, done, broken, outcome>>

Init ==
  /\ accepted = 0
  /\ begun = {}
  /\ done = {}
  /\ broken = FALSE
  /\ outcome = "pending"

Waiting == (1..accepted) \ begun
Active == begun \ done

Accept ==
  /\ accepted + 1 \in Job
  /\ accepted' = accepted + 1
  /\ UNCHANGED <<begun, done, broken, outcome>>

\* Nothing starts once a job has panicked.
Begin(j) ==
  /\ ~broken /\ Cardinality(Active) < MaxConcurrent
  /\ j \in Waiting
  /\ begun' = begun \cup {j}
  /\ UNCHANGED <<accepted, done, broken, outcome>>

\* A job that runs in the thread that submits it.
AcceptAndBegin ==
  /\ ~broken /\ Active = {} /\ Waiting = {}
  /\ accepted + 1 \in Job
  /\ accepted' = accepted + 1
  /\ begun' = begun \cup {accepted + 1}
  /\ UNCHANGED <<done, broken, outcome>>

Complete(j) ==
  /\ j \in Active
  /\ done' = done \cup {j}
  /\ UNCHANGED <<accepted, begun, broken, outcome>>

\* A job panics; with `panic = "abort"` the process ends with it.
Break ==
  /\ Active # {} /\ broken' = TRUE
  /\ outcome' \in {"pending", "failure"}
  /\ UNCHANGED <<accepted, begun, done>>

Succeed ==
  /\ ~broken /\ done = 1..accepted
  /\ outcome' = "success"
  /\ UNCHANGED <<accepted, begun, done, broken>>

Fail ==
  /\ broken
  /\ outcome' = "failure"
  /\ UNCHANGED <<accepted, begun, done, broken>>

Next ==
  /\ outcome = "pending"
  /\ \/ Accept \/ AcceptAndBegin
     \/ \E j \in Job : Begin(j) \/ Complete(j)
     \/ Break \/ Succeed \/ Fail

Spec == Init /\ [][Next]_serviceVars
=============================================================================
