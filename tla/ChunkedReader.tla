--------------------------- MODULE ChunkedReader ----------------------------
(***************************************************************************)
(* src/chunks.rs: the iterator that cuts an input into blocks at           *)
(* delimiters.  A read returns any number of bytes that fits the buffer,   *)
(* 0 at the end of the input, or an error.  The consumer calls next()      *)
(* until it returns None.                                                  *)
(***************************************************************************)
EXTENDS ChunkSplit, SequencesExt

CONSTANT Texts      \* the inputs to consider

ASSUME TextsAssumption == Texts \subseteq Seq(Byte)

VARIABLES
  text,        \* the whole input
  source,      \* what has not been read of it
  input,       \* self.input is Some
  next_buf,    \* self.next_buf
  phase,       \* "idle", "reading" (inside next()), "none" (next() returned None)
  buf,         \* the part of the buffer that is filled, buf[..pos]
  items,       \* the items delivered
  failed       \* next() returned an error

vars == <<text, source, input, next_buf, phase, buf, items, failed>>

Init ==
  /\ text \in Texts
  /\ source = text
  /\ input = TRUE
  /\ next_buf = <<>>
  /\ phase = "idle"
  /\ buf = <<>>
  /\ items = <<>>
  /\ failed = FALSE

\* next() starts with the leftover of the previous call in the buffer ...
Call ==
  /\ phase = "idle" /\ input
  /\ phase' = "reading"
  /\ input' = FALSE
  /\ buf' = next_buf /\ next_buf' = <<>>
  /\ UNCHANGED <<text, source, items, failed>>

\* ... unless the input is gone.
CallAfterEnd ==
  /\ phase = "idle" /\ ~input
  /\ phase' = "none"
  /\ UNCHANGED <<text, source, input, next_buf, buf, items, failed>>

Deliver(item) ==
  /\ items' = Append(items, item)
  /\ phase' = "idle" /\ buf' = <<>>

\* Mutants of Cut: split_off(pos), and an input that is not put back.
CutBeforeDelim(full, unread) ==
  \/ /\ Delims(full) = {}
     /\ Deliver(BailOf(full, unread))
     /\ UNCHANGED <<input, next_buf>>
  \/ \E last \in Delims(full) :
       /\ \A i \in Delims(full) : i <= last
       /\ Deliver(ItemOf(SubSeq(full, 1, last - 1)))
       /\ next_buf' = From(full, last)
       /\ input' = TRUE
CutLosesInput(full, unread) ==
  \/ /\ Delims(full) = {}
     /\ Deliver(BailOf(full, unread))
     /\ UNCHANGED <<input, next_buf>>
  \/ \E last \in Delims(full) :
       /\ \A i \in Delims(full) : i <= last
       /\ Deliver(ItemOf(SubSeq(full, 1, last - 1)))
       /\ next_buf' = From(full, last + 1)
       /\ UNCHANGED input

\* The buffer is full: cut it at the last delimiter, or bail.
Cut(full, unread) ==
  \/ /\ Delims(full) = {}
     /\ Deliver(BailOf(full, unread))
     /\ UNCHANGED <<input, next_buf>>
  \/ \E last \in Delims(full) :
       /\ \A i \in Delims(full) : i <= last
       /\ Deliver(ItemOf(SubSeq(full, 1, last - 1)))
       /\ next_buf' = From(full, last + 1)
       /\ input' = TRUE

Space == MaxChunkSize - Len(buf)

\* read() returns Ok(n).
ReadSome ==
  /\ phase = "reading"
  /\ \E n \in 1..Len(source) :
       /\ n <= Space
       /\ source' = From(source, n + 1)
       /\ LET filled == buf \o SubSeq(source, 1, n)
          IN  \/ /\ Len(filled) = MaxChunkSize
                 /\ Cut(filled, From(source, n + 1))
              \/ /\ Len(filled) # MaxChunkSize
                 /\ buf' = filled
                 /\ UNCHANGED <<input, next_buf, phase, items>>
  /\ UNCHANGED <<text, failed>>

\* Mutant of ReadNothing: the last delimiter is not removed.
ReadNothingUnstripped ==
  /\ phase = "reading" /\ (source = <<>> \/ Space = 0)
  /\ Deliver(ItemOf(buf))
  /\ UNCHANGED <<text, source, input, next_buf, failed>>

\* read() returns Ok(0): at the end of the input, and for an empty slice.
ReadNothing ==
  /\ phase = "reading" /\ (source = <<>> \/ Space = 0)
  /\ Deliver(ItemOf(Stripped(buf)))
  /\ UNCHANGED <<text, source, input, next_buf, failed>>

\* read() returns Err, which an interrupted system call also does.
ReadError ==
  /\ phase = "reading"
  /\ phase' = "idle" /\ buf' = <<>>
  /\ failed' = TRUE
  /\ UNCHANGED <<text, source, input, next_buf, items>>

Ended == phase = "none" /\ UNCHANGED vars

Next == Call \/ CallAfterEnd \/ ReadSome \/ ReadNothing \/ ReadError \/ Ended
Spec == Init /\ [][Next]_vars

-----------------------------------------------------------------------------

Items == [kind: {"chunk", "bail"}, data: Seq(Byte), rest: Seq(Byte)]

\* The type invariant; between two reads, the buffer has room.
TypeOK ==
  /\ text \in Texts /\ source \in Seq(Byte)
  /\ input \in BOOLEAN /\ failed \in BOOLEAN
  /\ next_buf \in Seq(Byte) /\ buf \in Seq(Byte) /\ Len(buf) < MaxChunkSize
  /\ phase \in {"idle", "reading", "none"}
  /\ items \in Seq(Items)

\* The leftover of a cut is shorter than the buffer it is read back into, so
\* that no read is made with an empty slice and taken for the end of the input.
LeftoverFits ==
  /\ Len(next_buf) < MaxChunkSize
  /\ phase = "reading" => Space > 0 /\ next_buf = <<>> /\ ~input

\* Once the reader has given up its input, that was at the end of it, in a
\* bail-out, which hands it on, or after an error: no byte stays behind.
NothingLeftBehind ==
  phase # "reading" /\ ~input =>
    /\ next_buf = <<>>
    /\ \/ failed
       \/ items # <<>> /\ LET last == items[Len(items)]
                          IN  \/ last.kind = "chunk" /\ source = <<>>
                              \/ last.kind = "bail" /\ source = last.rest

\* The items do not depend on how the reads cut the input, and are those of
\* Split: lines are never torn apart, and a line is bailed out only when it does
\* not fit the buffer.
ItemsAsSplit ==
  /\ IsPrefix(items, Split[text])
  /\ phase = "none" /\ ~failed => items = Split[text]

=============================================================================
