------------------------------- MODULE Sponge -------------------------------
(***************************************************************************)
(* src/bin/sponge.rs: the program at the end of a pipeline.  It shares     *)
(* stdin and the files with the other processes, which change them too.    *)
(* The output is a file or the standard output, "stdout".                  *)
(***************************************************************************)
EXTENDS Output, Naturals, Sequences

CONSTANT Block     \* how much a write transfers at most

VARIABLES
  target,      \* name and append: the output
  files,       \* the contents of the files that exist
  stdin,       \* what has been written to the pipe and not been read
  closed,      \* the pipe has no writer any more
  main,        \* where the program is
  buffer,      \* what it has read
  written      \* how much of it has been written

MainState == {"open", "read", "write", "success", "failure"}
ProcessAlive == main \notin {"success", "failure"}

Init == main = "open" /\ buffer = <<>> /\ written = 0

-----------------------------------------------------------------------------

\* Output::try_from
Open ==
  /\ main = "open"
  /\ IF target.name = "stdout"
     THEN main' = "read" /\ UNCHANGED files
     ELSE \/ main' = "read" /\ files' = Opened(files, target.name, target.append)
          \/ main' = "failure" /\ UNCHANGED files
  /\ UNCHANGED <<stdin, buffer, written>>

\* Mutant of Read: the end of the pipe is not waited for.
ReadOnce ==
  /\ main = "read" /\ stdin # <<>>
  /\ buffer' = buffer \o stdin /\ stdin' = <<>>
  /\ main' = "write"
  /\ UNCHANGED <<files, written>>

\* read_to_end()
Read ==
  /\ main = "read"
  /\ \/ stdin # <<>> /\ buffer' = buffer \o stdin /\ UNCHANGED main
     \/ stdin = <<>> /\ closed /\ main' = "write" /\ UNCHANGED buffer
  /\ stdin' = <<>>
  /\ UNCHANGED <<files, written>>

ReadFails ==
  /\ main = "read" /\ main' = "failure"
  /\ UNCHANGED <<files, stdin, buffer, written>>

\* Mutant of Write: one write() instead of write_all().
WriteShort ==
  /\ main = "write" /\ target.name # "stdout"
  /\ \E n \in 0..Block :
       /\ n <= Len(buffer)
       /\ files' = Grown(files, target.name, SubSeq(buffer, 1, n))
       /\ written' = n
  /\ main' = "success"
  /\ UNCHANGED <<stdin, buffer>>

\* write_all() to a file: as many writes as it takes.
Write ==
  /\ main = "write" /\ target.name # "stdout"
  /\ IF written = Len(buffer)
     THEN main' = "success" /\ UNCHANGED <<files, written>>
     ELSE \E n \in 1..Block :
            /\ written + n <= Len(buffer)
            /\ files' = Grown(files, target.name, SubSeq(buffer, written + 1, written + n))
            /\ written' = written + n
            /\ UNCHANGED main
  /\ UNCHANGED <<stdin, buffer>>

\* write_all() to stdout, and exit(), which ignores an error of its flush.
WriteStdout ==
  /\ main = "write" /\ target.name = "stdout"
  /\ \E shown \in {Flushed(buffer), buffer} :
       /\ files' = Grown(files, "stdout", shown)
       /\ written' = Len(shown)
  /\ main' = "success"
  /\ UNCHANGED <<stdin, buffer>>

\* An error of any of the writes.
WriteFails ==
  /\ main = "write" /\ written < Len(buffer) /\ main' = "failure"
  /\ UNCHANGED <<files, stdin, buffer, written>>

Next ==
  /\ UNCHANGED target
  /\ Open \/ Read \/ ReadFails \/ Write \/ WriteStdout \/ WriteFails
=============================================================================
