--------------------------------- MODULE Du ---------------------------------
(***************************************************************************)
(* src/bin/du.rs: a walk over a tree without recursion.  A list of tasks   *)
(* says which directories to enter and which to summarize, a stack of      *)
(* sizes, `carry`, takes the totals up.  Other processes remove files and  *)
(* empty directories while it runs.  An entry may also be there and not be *)
(* looked at: its directory can be listed but not searched, for one.       *)
(***************************************************************************)
EXTENDS Integers, Sequences, FiniteSetsExt, SequencesExt

CONSTANTS
  Trees,     \* the trees to consider: children (directory -> names), blocks (file -> size),
             \* barred (the entries whose metadata cannot be read)
  Inputs     \* the arguments to consider

ASSUME InputsAssumption == Inputs \subseteq Seq(STRING) \ {<<>>}   \* "." if there are none
\* Directories have no second name and are not inside themselves.
ASSUME TreesAssumption ==
  \A t \in Trees :
    LET dirs == DOMAIN t.children
        files == DOMAIN t.blocks
    IN  /\ dirs \cap files = {}
        /\ t.blocks \in [files -> Nat]
        /\ \A d \in dirs : t.children[d] \subseteq dirs \cup files
        /\ \A d, e \in dirs : t.children[d] \cap t.children[e] # {} => d = e
        /\ \A S \in SUBSET dirs : S # {} => \E d \in S : t.children[d] \cap S = {}

VARIABLES
  tree,      \* the tree at the start
  exists,    \* the names that have not been removed
  closed,    \* those of stdout and stderr that nobody reads any more
  phase,     \* "run", "list": in the loop over the entries, or the end
  inputs,    \* the arguments left
  tasks,     \* the list of DuTasks: path and enter
  carry,     \* the stack of sizes
  listing,   \* the entries the loop has not seen
  size,      \* what it has added up
  printed,   \* the lines printed for this input: path and total
  counted,   \* history: the files added up for this input
  missed     \* history: what was skipped or could not be read for this input

environment == <<tree, exists, closed>>
vars == <<environment, phase, inputs, tasks, carry, listing, size, printed, counted, missed>>

Dirs == DOMAIN tree.children
Task(path, enter) == [path |-> path, enter |-> enter]
Existing(path) == tree.children[path] \cap exists

Init ==
  /\ tree \in Trees /\ exists = DOMAIN tree.children \cup DOMAIN tree.blocks
  /\ closed = {} /\ phase = "run"
  /\ inputs \in Inputs /\ tasks = <<>> /\ carry = <<>>
  /\ listing = {} /\ size = 0 /\ printed = <<>> /\ counted = {} /\ missed = {}

-----------------------------------------------------------------------------

\* Mutant of RootCarry: the size of the root is forgotten.
NoCarry == <<>>

\* "Start with the root dir, of size zero."
RootCarry == <<0>>

\* du(): the inputs are taken from the end.
NextInput ==
  /\ phase = "run" /\ tasks = <<>> /\ inputs # <<>>
  /\ tasks' = <<Task(Last(inputs), TRUE)>>
  /\ inputs' = Front(inputs)
  /\ carry' = RootCarry
  /\ printed' = <<>> /\ counted' = {} /\ missed' = {}
  /\ UNCHANGED <<environment, phase, listing, size>>

AllDone ==
  /\ phase = "run" /\ tasks = <<>> /\ inputs = <<>>
  /\ phase' = "success"
  /\ UNCHANGED <<environment, inputs, tasks, carry, listing, size, printed, counted, missed>>

\* Mutant of Summary: the task list goes on without the summary.
SummaryForgotten(path, rest) == rest

\* What becomes of a task that enters a directory.
Summary(path, rest) == <<Task(path, FALSE)>> \o rest

\* read_dir(), which fails for what is not a directory, or not there any more,
\* and may fail for others: a message.
ReadDir ==
  /\ phase = "run" /\ tasks # <<>> /\ Head(tasks).enter
  /\ LET path == Head(tasks).path
     IN  /\ tasks' = Summary(path, Tail(tasks))
         /\ \/ /\ path \in Dirs \cap exists
               /\ listing' = Existing(path) /\ UNCHANGED missed
            \/ "stderr" \notin closed /\ listing' = {} /\ missed' = missed \cup {path}
  /\ size' = 0 /\ phase' = "list"
  /\ UNCHANGED <<environment, inputs, carry, printed, counted>>

\* One entry, in whatever order they come: a directory is entered before the
\* tasks that are there already.
Entry(e) ==
  /\ phase = "list" /\ e \in (listing \cap exists) \ tree.barred
  /\ IF e \in Dirs
     THEN tasks' = <<Task(e, TRUE)>> \o tasks /\ UNCHANGED <<size, counted>>
     ELSE size' = size + tree.blocks[e] /\ counted' = counted \cup {e} /\ UNCHANGED tasks
  /\ listing' = listing \ {e}
  /\ UNCHANGED <<environment, phase, inputs, carry, printed, missed>>

\* Reading the entry itself fails: a message.
EntryFails(e) ==
  /\ phase = "list" /\ e \in listing /\ "stderr" \notin closed
  /\ listing' = listing \ {e} /\ missed' = missed \cup {e}
  /\ UNCHANGED <<environment, phase, inputs, tasks, carry, size, printed, counted>>

\* metadata().unwrap(): the entry has been removed, or is one that cannot be looked at.
EntryPanics(e) ==
  /\ phase = "list" /\ e \in (listing \ exists) \cup (listing \cap tree.barred)
  /\ phase' = "panicked"
  /\ UNCHANGED <<environment, inputs, tasks, carry, listing, size, printed, counted, missed>>

\* read_dir() or the entry fails, and eprintln! of the message panics.
MessagePanics ==
  /\ "stderr" \in closed
  /\ \/ phase = "run" /\ tasks # <<>> /\ Head(tasks).enter
     \/ phase = "list" /\ listing # {}
  /\ phase' = "panicked"
  /\ UNCHANGED <<environment, inputs, tasks, carry, listing, size, printed, counted, missed>>

EndOfEntries ==
  /\ phase = "list" /\ listing = {}
  /\ carry' = Append(carry, size)
  /\ phase' = "run"
  /\ UNCHANGED <<environment, inputs, tasks, listing, size, printed, counted, missed>>

\* Mutant of Carried: the total replaces what the parent has.
CarriedOver(rest, total) == [rest EXCEPT ![Len(rest)] = total]

\* The total is added to the size of the parent.
Carried(rest, total) == [rest EXCEPT ![Len(rest)] = @ + total]

\* println! panics without a reader, and so do pop().unwrap() and
\* `carry.len() - 1` without two sizes.
Summarize ==
  /\ phase = "run" /\ tasks # <<>> /\ ~Head(tasks).enter
  /\ IF Len(carry) < 2 \/ "stdout" \in closed
     THEN phase' = "panicked" /\ UNCHANGED <<tasks, carry, printed>>
     ELSE /\ printed' = Append(printed, [path |-> Head(tasks).path, total |-> Last(carry)])
          /\ carry' = Carried(Front(carry), Last(carry))
          /\ tasks' = Tail(tasks)
          /\ UNCHANGED phase
  /\ UNCHANGED <<environment, inputs, listing, size, counted, missed>>

-----------------------------------------------------------------------------
(* The other processes. *)

Running == phase \in {"run", "list"}

Unlink(e) ==
  /\ Running /\ e \in exists
  /\ e \in Dirs => Existing(e) = {}
  /\ exists' = exists \ {e}
  /\ UNCHANGED <<tree, closed, phase, inputs, tasks, carry, listing, size, printed, counted, missed>>

ReaderQuits ==
  /\ Running
  /\ \E out \in {"stdout", "stderr"} : closed' = closed \cup {out}
  /\ UNCHANGED <<tree, exists, phase, inputs, tasks, carry, listing, size, printed, counted, missed>>

Ended == ~Running /\ UNCHANGED vars

Next ==
  \/ NextInput \/ AllDone \/ ReadDir \/ MessagePanics \/ EndOfEntries \/ Summarize
  \/ \E e \in listing : Entry(e) \/ EntryFails(e) \/ EntryPanics(e)
  \/ \E e \in exists : Unlink(e)
  \/ ReaderQuits \/ Ended

Spec == Init /\ [][Next]_vars

-----------------------------------------------------------------------------

\* What is below a path in the tree at the start.
Below(path) ==
  LET below[d \in Dirs] ==
        tree.children[d] \cup UNION {below[c] : c \in tree.children[d] \cap Dirs}
  IN  IF path \in Dirs THEN below[path] ELSE {}
Files(path) == Below(path) \cap DOMAIN tree.blocks
Blocks(files) == MapThenSumSet(LAMBDA f : tree.blocks[f], files)

\* Every total that is printed is the sum over the files below the path that were
\* looked at, whatever is removed meanwhile; and all of them were, if nothing is
\* missing.  Directories are printed after everything below them, each once.
TotalsAreSums ==
  \A i \in DOMAIN printed :
    LET path == printed[i].path
    IN  /\ printed[i].total = Blocks(counted \cap Files(path))
        /\ missed = {} /\ exists = Dirs \cup DOMAIN tree.blocks =>
             counted \cap Files(path) = Files(path)
        /\ \A k \in (i + 1)..Len(printed) : printed[k].path \notin {path} \cup Below(path)
        /\ missed = {} /\ exists = Dirs \cup DOMAIN tree.blocks =>
             \A d \in Below(path) \cap Dirs : \E k \in 1..(i - 1) : printed[k].path = d

\* The stack fits the list of tasks: one size for each summary that is due, and
\* one more; the sizes are those of the files counted so far; and a directory
\* that waits to be entered is a child of the one whose summary follows it.
CarryFollowsTasks ==
  Running /\ tasks # <<>> =>
    LET due == {i \in DOMAIN tasks : ~tasks[i].enter}
        open == IF phase = "list" THEN 1 ELSE 0
    IN  /\ Len(carry) = Cardinality(due) + 1 - open
        /\ MapThenSumSet(LAMBDA i : carry[i], DOMAIN carry) + open * size = Blocks(counted)
        /\ \A i \in DOMAIN tasks : i < Len(tasks) =>
             LET later == {k \in (i + 1)..Len(tasks) : ~tasks[k].enter}
             IN  later # {} /\ tasks[i].path \in tree.children[tasks[Min(later)].path]

\* du panics only about an entry that has been removed between the list of its
\* directory and the look at it, or that cannot be looked at, or when its output or
\* its messages cannot be written: the stack never runs out.
PanicsOnlyOnErrors ==
  phase = "panicked" => ~(listing \subseteq exists \ tree.barred) \/ closed # {}
=============================================================================
