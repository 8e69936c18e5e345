----------------------------- MODULE ChunkSplit -----------------------------
(***************************************************************************)
(* What a ChunkedReader delivers for a text, whatever sizes its reads      *)
(* return: the definition ChunkedReader is checked against, and the one    *)
(* Wc counts with.                                                         *)
(*                                                                         *)
(* An item is a chunk, or the bail-out for a line that does not fit, with  *)
(* the input that has not been read.                                       *)
(***************************************************************************)
EXTENDS Naturals, Sequences, FiniteSetsExt

CONSTANTS Byte, Delim, MaxChunkSize

ASSUME ChunkAssumption == Delim \in Byte /\ MaxChunkSize \in Nat \ {0}

ItemOf(data) == [kind |-> "chunk", data |-> data, rest |-> <<>>]
BailOf(data, rest) == [kind |-> "bail", data |-> data, rest |-> rest]

\* "remove trailing delimiter, if present"
Stripped(data) ==
  IF data # <<>> /\ data[Len(data)] = Delim THEN SubSeq(data, 1, Len(data) - 1)
  ELSE data

\* Mutant of Delims: any byte will do to cut at.
DelimsAnywhere(data) == 1..Len(data)

Delims(data) == {i \in 1..Len(data) : data[i] = Delim}
From(data, i) == SubSeq(data, i, Len(data))

\* A full buffer, and the position of its last delimiter.
Full(t) == SubSeq(t, 1, MaxChunkSize)
LastDelim(t) == Max(Delims(Full(t)))

\* Less than a chunk: the last item.  No delimiter in a full buffer: bail.
\* Otherwise the buffer is cut at its last delimiter and the rest comes next.
Split[t \in Seq(Byte)] ==
  IF Len(t) < MaxChunkSize THEN <<ItemOf(Stripped(t))>>
  ELSE IF Delims(Full(t)) = {} THEN <<BailOf(Full(t), From(t, MaxChunkSize + 1))>>
  ELSE <<ItemOf(SubSeq(Full(t), 1, LastDelim(t) - 1))>> \o Split[From(t, LastDelim(t) + 1)]
=============================================================================
