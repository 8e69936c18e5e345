------------------------------- MODULE MCSort -------------------------------
(***************************************************************************)
(* Instances of Sort for TLC: all inputs of up to a few lines, with the    *)
(* batch and buffer sizes that make batches end for each of the reasons    *)
(* they can end for.                                                       *)
(***************************************************************************)
EXTENDS Sort, TLC

\* The heap by itself, with an order: what is pushed onto a vector that was made
\* a heap, and popped from it, comes out greatest first.
NumLeq(a, b) == a <= b
NumHeap == INSTANCE BinaryHeap WITH Element <- Nat, Leq <- NumLeq
Pops(heap) ==
  LET pops[h \in Seq(Nat)] ==
        IF h = <<>> THEN <<>> ELSE <<NumHeap!Peek(h)>> \o pops[NumHeap!Popped(h)]
  IN  pops[heap]
ASSUME HeapSorts ==
  \A s \in BoundedSeq(1..3, 6), n \in 1..3 :
    Pops(NumHeap!PushOnto(NumHeap!FromVec(s), n)) = SortSeq(Append(s, n), >)

\* The lines "", "a", "b", "ba" and "bb" in their order, and their parts.
MCLine == 0..4
MCLineLen == <<1, 1, 2, 2>> @@ (0 :> 0)
MCFront == [l \in MCLine |-> IF l \in {3, 4} THEN {2} ELSE {}]
MCBack == [l \in MCLine |-> CASE l = 0 -> {}
                              [] l = 3 -> {0, 1}
                              [] l = 4 -> {0, 2}
                              [] OTHER -> {0}]
NoLimit == 1000     \* usize::MAX

Input(text, read, batch, buffer) ==
  [text |-> text, read |-> read, batch_size |-> batch, buffer_size |-> buffer]
AllRead(texts, batch) == {Input(t, t, batch, b) : t \in texts, b \in {2, NoLimit}}
SomeRead(n, batch) ==
  UNION {{Input(t, r, batch, NoLimit) : r \in Deliveries(t)} : t \in BoundedSeq(2..4, n)}

\* Merges into temporary files (small buffers) and in memory (no limit); reads
\* that fail.
MCPayloads ==
  AllRead({t \in BoundedSeq(2..4, 4) : Len(t) = 4 => t[1] = 4}, 1)
    \cup AllRead(BoundedSeq(2..4, 3), 2) \cup SomeRead(2, 1)
    \cup {Input(<<4, 3, 2, 4, 2>>, <<4, 3, 2, 4, 2>>, 1, 3)}

BothProfiles == {"unwind", "abort"}
=============================================================================
