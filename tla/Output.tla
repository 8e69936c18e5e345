------------------------------- MODULE Output -------------------------------
(***************************************************************************)
(* The outputs of src/io.rs, and the LineWriter every Rust program has in  *)
(* front of its standard output.  Bytes are members of a small set; "nl"   *)
(* is the newline.                                                         *)
(***************************************************************************)
EXTENDS Sequences, SequencesExt

\* OpenOptions: created, and truncated unless it is appended to.
Opened(files, name, append) ==
  [n \in DOMAIN files \cup {name} |->
     IF n # name THEN files[n]
     ELSE IF append /\ name \in DOMAIN files THEN files[name] ELSE <<>>]

\* What one more piece of data adds to a file that is open.
Grown(files, name, data) == [files EXCEPT ![name] = @ \o data]

\* What LineWriter passes on, and keeps, of the bytes it has: lines are shorter
\* than its buffer.
Flushed(bytes) == SubSeq(bytes, 1, SelectLastInSeq(bytes, LAMBDA b : b = "nl"))
Kept(bytes) == SubSeq(bytes, Len(Flushed(bytes)) + 1, Len(bytes))
=============================================================================
