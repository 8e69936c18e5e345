----------------------------- MODULE BinaryHeap -----------------------------
(***************************************************************************)
(* std::collections::BinaryHeap as src/bin/sort.rs uses it: collected from *)
(* an iterator, pop, peek and push.  A heap is a sequence; the parent of   *)
(* position i is position i \div 2.                                        *)
(*                                                                         *)
(* The algorithm is modelled, and not only "pop returns a greatest         *)
(* element", because sort compares chunks with an `Ord` that is no order   *)
(* when a chunk is empty, and what comes out then is decided by which      *)
(* comparisons the heap makes.                                             *)
(***************************************************************************)
EXTENDS Naturals, Sequences

CONSTANTS Element,      \* what heaps hold
          Leq(_, _)     \* the `<=` of the elements

Swap(h, i, j) == [h EXCEPT ![i] = h[j], ![j] = h[i]]

\* The greater child of i; the right one when they compare equal.
GreaterChild(h, i) ==
  IF 2 * i < Len(h) /\ Leq(h[2 * i], h[2 * i + 1]) THEN 2 * i + 1 ELSE 2 * i

\* A heap, and the position of the element that moves; where it moves to.
Spot == [heap: Seq(Element), at: Nat \ {0}]
Parent(s) == s.at \div 2
Child(s) == GreaterChild(s.heap, s.at)
MovedTo(s, j) == [heap |-> Swap(s.heap, s.at, j), at |-> j]

\* sift_up: the element rises past every smaller parent.
SiftUp[s \in Spot] ==
  IF s.at \notin 2..Len(s.heap) \/ Leq(s.heap[s.at], s.heap[Parent(s)]) THEN s.heap
  ELSE SiftUp[MovedTo(s, Parent(s))]

\* sift_down: the element sinks past every greater child.
SiftDown[s \in Spot] ==
  IF 2 * s.at > Len(s.heap) \/ Leq(s.heap[Child(s)], s.heap[s.at]) THEN s.heap
  ELSE SiftDown[MovedTo(s, Child(s))]

\* sift_down_to_bottom: the element sinks to a leaf, and rises again from there.
SiftDownToBottom[s \in Spot] ==
  IF 2 * s.at > Len(s.heap) THEN SiftUp[s] ELSE SiftDownToBottom[MovedTo(s, Child(s))]

\* rebuild(): each element that has children sinks, the last of them first.
Rebuild[s \in Spot] ==
  IF s.at = 1 THEN SiftDown[s] ELSE Rebuild[[heap |-> SiftDown[s], at |-> s.at - 1]]

\* collect(): the elements in the order of the iterator, then rebuild().
FromVec(v) ==
  IF Len(v) < 2 THEN v ELSE Rebuild[[heap |-> v, at |-> Len(v) \div 2]]

Peek(h) == h[1]

\* What pop() leaves behind: the last element takes the place of the root.
Popped(h) ==
  IF Len(h) = 1 THEN <<>>
  ELSE SiftDownToBottom[
         [heap |-> [SubSeq(h, 1, Len(h) - 1) EXCEPT ![1] = h[Len(h)]], at |-> 1]]

PushOnto(h, x) == SiftUp[[heap |-> Append(h, x), at |-> Len(h) + 1]]
=============================================================================
