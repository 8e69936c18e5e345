------------------------------ MODULE DuProofs ------------------------------
(***************************************************************************)
(* What du prints, for every set of trees and arguments.                   *)
(***************************************************************************)
EXTENDS Du, DataLemmas

(* The tree. *)

\* The names, and what is below a path, of a given tree: Below is this of `tree`.
DirsOf(t) == DOMAIN t.children
NamesOf(t) == DOMAIN t.children \cup DOMAIN t.blocks
BelowIn(t, path) ==
  LET below[d \in DOMAIN t.children] ==
        t.children[d] \cup UNION {below[c] : c \in t.children[d] \cap DOMAIN t.children}
  IN  IF path \in DOMAIN t.children THEN below[path] ELSE {}
InsideIn(t, path) == {path} \cup BelowIn(t, path)
FilesIn(t, path) == BelowIn(t, path) \cap DOMAIN t.blocks

\* The equation that defines BelowIn has a solution: the least closed sets.
LEMMA BelowEquation ==
  ASSUME NEW t \in Trees
  PROVE  /\ \A d \in DirsOf(t) :
              BelowIn(t, d) = t.children[d] \cup
                                UNION {BelowIn(t, c) : c \in t.children[d] \cap DirsOf(t)}
         /\ \A p : p \notin DirsOf(t) => BelowIn(t, p) = {}
<1> DEFINE D == DOMAIN t.children
           N == NamesOf(t)
           Closed(S) == \A e \in S \cap D : t.children[e] \subseteq S
           C(d) == {q \in N : \A S \in SUBSET N : t.children[d] \subseteq S /\ Closed(S) => q \in S}
           Is(f) == f = [d \in D |-> t.children[d] \cup UNION {f[c] : c \in t.children[d] \cap D}]
           least == [d \in D |-> C(d)]
<1>1. \A d \in D : t.children[d] \subseteq N
  BY TreesAssumption DEF NamesOf
<1>2. \A d \in D : t.children[d] \subseteq C(d) /\ Closed(C(d))
  BY <1>1
<1>3. \A d \in D : \A c \in t.children[d] \cap D : C(c) \subseteq C(d)
  BY <1>1
<1>4. ASSUME NEW d \in D
      PROVE  C(d) = t.children[d] \cup UNION {C(c) : c \in t.children[d] \cap D}
  <2> DEFINE R == t.children[d] \cup UNION {C(c) : c \in t.children[d] \cap D}
  <2>1. R \subseteq C(d)
    BY <1>2, <1>3
  <2>2. R \in SUBSET N
    BY <1>1
  <2>3. Closed(R)
    <3> SUFFICES ASSUME NEW e \in R \cap D PROVE t.children[e] \subseteq R
      OBVIOUS
    <3>1. CASE e \in t.children[d]
      BY <1>2, <3>1
    <3>2. CASE e \notin t.children[d]
      <4> PICK c \in t.children[d] \cap D : e \in C(c)
        BY <3>2
      <4>1. t.children[e] \subseteq C(c)
        BY <1>2
      <4> QED BY <4>1
    <3> QED BY <3>1, <3>2
  <2>4. C(d) \subseteq R
    <3>1. t.children[d] \subseteq R
      OBVIOUS
    <3> HIDE DEF R
    <3> QED BY <2>2, <2>3, <3>1
  <2> QED BY <2>1, <2>4
<1>5. Is(least)
  <2> HIDE DEF C
  <2> QED BY <1>4
<1> DEFINE chosen == CHOOSE f : Is(f)
<1>6. Is(chosen)
  <2> HIDE DEF Is
  <2> QED BY <1>5
<1>7. \A p : BelowIn(t, p) = IF p \in D THEN chosen[p] ELSE {}
  BY DEF BelowIn
<1> HIDE DEF chosen
<1>8. \A d \in D : chosen[d] = t.children[d] \cup UNION {chosen[c] : c \in t.children[d] \cap D}
  BY <1>6
<1>9. ASSUME NEW d \in D
      PROVE  BelowIn(t, d) = t.children[d] \cup UNION {BelowIn(t, c) : c \in t.children[d] \cap D}
  <2>1. \A c \in t.children[d] \cap D : BelowIn(t, c) = chosen[c]
    BY <1>7
  <2>2. UNION {BelowIn(t, c) : c \in t.children[d] \cap D} = UNION {chosen[c] : c \in t.children[d] \cap D}
    BY <2>1
  <2> QED BY <1>7, <1>8, <2>2
<1> QED BY <1>7, <1>9 DEF DirsOf

\* What TreesAssumption says of a tree.
LEMMA TreeShape ==
  ASSUME NEW t \in Trees
  PROVE  /\ DirsOf(t) \cap DOMAIN t.blocks = {}
         /\ t.blocks \in [DOMAIN t.blocks -> Nat]
         /\ \A d \in DirsOf(t) : t.children[d] \subseteq NamesOf(t)
         /\ \A d, e \in DirsOf(t) : t.children[d] \cap t.children[e] # {} => d = e
         /\ \A S \in SUBSET DirsOf(t) : S # {} => \E d \in S : t.children[d] \cap S = {}
BY TreesAssumption DEF DirsOf, NamesOf

\* A set that has a directory as soon as it has all its subdirectories has them all.
LEMMA TreeInduction ==
  ASSUME NEW t \in Trees, NEW P,
         \A d \in DirsOf(t) : (\A c \in t.children[d] \cap DirsOf(t) : c \in P) => d \in P
  PROVE  \A d \in DirsOf(t) : d \in P
<1> DEFINE S == DirsOf(t) \ P
<1> SUFFICES ASSUME S # {} PROVE FALSE
  OBVIOUS
<1>1. PICK d \in S : t.children[d] \cap S = {}
  <2>1. S \in SUBSET DirsOf(t)
    OBVIOUS
  <2> HIDE DEF S
  <2> QED BY <2>1, TreeShape
<1> QED BY <1>1

\* What is below a path: names; the children of a directory in or below it; what is
\* below something below it; never the path itself.
LEMMA BelowIsTree ==
  ASSUME NEW t \in Trees
  PROVE  /\ \A p : BelowIn(t, p) \subseteq NamesOf(t)
         /\ \A p, q : q \in BelowIn(t, p) =>
              \E d \in InsideIn(t, p) \cap DirsOf(t) : q \in t.children[d]
         /\ \A p, q : q \in BelowIn(t, p) => BelowIn(t, q) \subseteq BelowIn(t, p)
         /\ \A p : p \notin BelowIn(t, p)
<1> DEFINE D == DirsOf(t)
<1>1. /\ \A d \in D : BelowIn(t, d) = t.children[d] \cup
                                        UNION {BelowIn(t, c) : c \in t.children[d] \cap D}
      /\ \A p : p \notin D => BelowIn(t, p) = {}
  BY BelowEquation
<1>2. ASSUME NEW d \in D, NEW q \in BelowIn(t, d)
      PROVE  q \in t.children[d] \/ \E c \in t.children[d] \cap D : q \in BelowIn(t, c)
  BY <1>1
<1>3. \A d \in D : \A c \in t.children[d] \cap D : BelowIn(t, c) \subseteq BelowIn(t, d)
  BY <1>1
<1>4. \A d \in D : t.children[d] \subseteq BelowIn(t, d)
  BY <1>1
<1>5. \A p : BelowIn(t, p) \subseteq NamesOf(t)
  <2> DEFINE P == {d \in D : BelowIn(t, d) \subseteq NamesOf(t)}
  <2>1. \A d \in D : (\A c \in t.children[d] \cap D : c \in P) => d \in P
    BY <1>2, TreeShape
  <2> HIDE DEF P
  <2>2. \A d \in D : d \in P
    BY <2>1, TreeInduction
  <2> QED BY <1>1, <2>2 DEF P
<1>6. \A p, q : q \in BelowIn(t, p) =>
        \E d \in InsideIn(t, p) \cap D : q \in t.children[d]
  <2> DEFINE Has(d) == \A q \in BelowIn(t, d) : \E e \in InsideIn(t, d) \cap D : q \in t.children[e]
             P == {d \in D : Has(d)}
  <2>1. ASSUME NEW d \in D, \A c \in t.children[d] \cap D : c \in P PROVE d \in P
    <3> SUFFICES ASSUME NEW q \in BelowIn(t, d)
                 PROVE  \E e \in InsideIn(t, d) \cap D : q \in t.children[e]
      OBVIOUS
    <3>1. CASE q \in t.children[d]
      BY <3>1 DEF InsideIn
    <3>2. CASE q \notin t.children[d]
      <4> PICK c \in t.children[d] \cap D : q \in BelowIn(t, c)
        BY <1>2, <3>2
      <4>1. InsideIn(t, c) \subseteq InsideIn(t, d)
        BY <1>3, <1>4 DEF InsideIn
      <4> PICK e \in InsideIn(t, c) \cap D : q \in t.children[e]
        BY <2>1
      <4> QED BY <4>1
    <3> QED BY <3>1, <3>2
  <2> HIDE DEF P, Has
  <2>2. \A d \in D : d \in P
    BY <2>1, TreeInduction
  <2> QED BY <1>1, <2>2 DEF P, Has
<1>7. \A p, q : q \in BelowIn(t, p) => BelowIn(t, q) \subseteq BelowIn(t, p)
  <2> DEFINE Has(d) == \A q \in BelowIn(t, d) : BelowIn(t, q) \subseteq BelowIn(t, d)
             P == {d \in D : Has(d)}
  <2>1. ASSUME NEW d \in D, \A c \in t.children[d] \cap D : c \in P PROVE d \in P
    <3> SUFFICES ASSUME NEW q \in BelowIn(t, d) PROVE BelowIn(t, q) \subseteq BelowIn(t, d)
      OBVIOUS
    <3>1. CASE q \in t.children[d]
      BY <1>1, <1>3, <3>1
    <3>2. CASE q \notin t.children[d]
      <4> PICK c \in t.children[d] \cap D : q \in BelowIn(t, c)
        BY <1>2, <3>2
      <4>1. BelowIn(t, q) \subseteq BelowIn(t, c)
        BY <2>1
      <4> QED BY <1>3, <4>1
    <3> QED BY <3>1, <3>2
  <2> HIDE DEF P, Has
  <2>2. \A d \in D : d \in P
    BY <2>1, TreeInduction
  <2> QED BY <1>1, <2>2 DEF P, Has
<1>8. \A p : p \notin BelowIn(t, p)
  <2> DEFINE S == {d \in D : d \in BelowIn(t, d)}
  <2> SUFFICES ASSUME S # {} PROVE FALSE
    BY <1>1
  <2>1. PICK d \in S : t.children[d] \cap S = {}
    <3>1. S \in SUBSET D
      OBVIOUS
    <3> HIDE DEF S
    <3> QED BY <3>1, TreeShape
  <2>2. d \notin t.children[d]
    BY <2>1
  <2> PICK c \in t.children[d] \cap D : d \in BelowIn(t, c)
    BY <1>2, <2>2
  <2>3. c \in BelowIn(t, c)
    BY <1>4, <1>7
  <2> QED BY <2>1, <2>3
<1> QED BY <1>5, <1>6, <1>7, <1>8

\* Where the children of a directory are: below it; in no other subtree that the
\* directory is not in; and neither in one another nor around the directory.
LEMMA ChildrenApart ==
  ASSUME NEW t \in Trees, NEW d \in DirsOf(t), NEW c \in t.children[d]
  PROVE  /\ c \in BelowIn(t, d) /\ InsideIn(t, c) \subseteq BelowIn(t, d)
         /\ d \notin InsideIn(t, c)
         /\ \A p : c \in InsideIn(t, p) => p = c \/ d \in InsideIn(t, p)
         /\ \A e \in t.children[d] : e # c => c \notin InsideIn(t, e)
<1>1. c \in BelowIn(t, d)
  BY BelowEquation
<1>2. InsideIn(t, c) \subseteq BelowIn(t, d) /\ d \notin BelowIn(t, d)
  BY <1>1, BelowIsTree DEF InsideIn
<1>3. ASSUME NEW p, c \in InsideIn(t, p), p # c PROVE d \in InsideIn(t, p)
  <2> PICK e \in InsideIn(t, p) \cap DirsOf(t) : c \in t.children[e]
    BY <1>3, BelowIsTree DEF InsideIn
  <2>1. t.children[d] \cap t.children[e] # {}
    OBVIOUS
  <2> QED BY <2>1, TreeShape
<1>4. ASSUME NEW e \in t.children[d], e # c, c \in InsideIn(t, e) PROVE FALSE
  <2>1. d \in InsideIn(t, e)
    BY <1>3, <1>4
  <2>2. InsideIn(t, e) \subseteq BelowIn(t, d)
    BY BelowEquation, BelowIsTree DEF InsideIn
  <2> QED BY <1>2, <2>1, <2>2
<1> QED BY <1>1, <1>2, <1>3, <1>4

-----------------------------------------------------------------------------
(***************************************************************************)
(* The inductive invariant.  It is stated of a stack, the tasks from the   *)
(* last to the first, because tasks come and go at the start of the list.  *)
(***************************************************************************)

Paths(entries) == {entries[i].path : i \in 1..Len(entries)}
TaskOf(t) == [path : NamesOf(t) \cup STRING, enter : BOOLEAN]
LineOf(t) == [path : NamesOf(t) \cup STRING, total : Nat]

\* No directory or file has been passed over.
Whole(t, left, skipped) == skipped = {} /\ left = NamesOf(t)

\* The totals are those of what has been seen, and a directory comes after all that is
\* below it; they are the totals of everything if nothing has been passed over.
Totals(t, lines, seen) ==
  \A i \in 1..Len(lines) :
    /\ lines[i].total = SumOver(t.blocks, seen \cap FilesIn(t, lines[i].path))
    /\ \A k \in (i + 1)..Len(lines) : lines[k].path \notin InsideIn(t, lines[i].path)
Complete(t, lines, seen) ==
  \A i \in 1..Len(lines) :
    /\ FilesIn(t, lines[i].path) \subseteq seen
    /\ \A d \in BelowIn(t, lines[i].path) \cap DirsOf(t) :
         \E k \in 1..(i - 1) : lines[k].path = d

\* Every task but the deepest belongs to a directory whose summary is due: the next one
\* below it in the stack, of which it is a child.
Parts(t, stack) ==
  \A i \in 2..Len(stack) :
    \E j \in 1..(i - 1) :
      /\ ~stack[j].enter /\ \A k \in (j + 1)..(i - 1) : stack[k].enter
      /\ stack[j].path \in DirsOf(t) /\ stack[i].path \in t.children[stack[j].path]

\* All that is above a summary in the stack is below its directory in the tree.
Chain(t, stack) ==
  \A i, j \in 1..Len(stack) :
    i < j /\ ~stack[i].enter => stack[j].path \in BelowIn(t, stack[i].path)

\* While a directory is read its summary is the first one that is due.
Reading(t, stack, ahead) ==
  \E i \in 1..Len(stack) :
    /\ ~stack[i].enter /\ \A j \in (i + 1)..Len(stack) : stack[j].enter
    /\ ahead # {} => stack[i].path \in DirsOf(t) /\ ahead \subseteq t.children[stack[i].path]

\* Nothing has been seen of what is still to be entered, and no two tasks do the same.
Untouched(t, p, seen, out) == InsideIn(t, p) \cap (seen \cup out) = {}
Apart(t, stack, ahead, seen, out) ==
  /\ \A i, j \in 1..Len(stack) :
       i > j \/ (i # j /\ stack[i].enter) => stack[j].path \notin InsideIn(t, stack[i].path)
  /\ \A e \in ahead, i \in 1..Len(stack) : stack[i].path \notin InsideIn(t, e)
  /\ \A i \in 1..Len(stack) : stack[i].enter => Untouched(t, stack[i].path, seen, out)
  /\ \A e \in ahead : Untouched(t, e, seen, out)
  /\ \A i \in 1..Len(stack), q \in out : stack[i].path \notin InsideIn(t, q)

\* The sizes from one on are the total so far of the directory that is due there; `open`
\* is the size of the directory that is being read.
LevelsAt(t, stack, sizes, depth, open, seen, at) ==
  /\ \A k, l \in 1..depth : k < l => at[k] < at[l]
  /\ {i \in 1..Len(stack) : ~stack[i].enter} = {at[k] : k \in 1..depth}
  /\ \A k \in 1..depth :
       SumOver(sizes, (k + 1)..Len(sizes)) + open
         = SumOver(t.blocks, seen \cap FilesIn(t, stack[at[k]].path))
  /\ SumOver(sizes, 1..Len(sizes)) + open = SumOver(t.blocks, seen)
Levels(t, stack, sizes, depth, open, seen) ==
  /\ depth \in Nat
  /\ \E at \in [1..depth -> 1..Len(stack)] : LevelsAt(t, stack, sizes, depth, open, seen, at)

\* If nothing has been passed over, each child of a directory that is due has been
\* dealt with, is a task, or is ahead.
Filled(t, stack, ahead, seen, out) ==
  \A i \in 1..Len(stack) : ~stack[i].enter =>
    /\ stack[i].path \in DirsOf(t)
    /\ \A c \in t.children[stack[i].path] :
         \/ c \in ahead /\ \A j \in (i + 1)..Len(stack) : stack[j].enter
         \/ c \notin DirsOf(t) /\ c \in seen
         \/ c \in DirsOf(t) /\ (c \in out \/ \E j \in (i + 1)..Len(stack) : stack[j].path = c)

TypeInv ==
  /\ tree \in Trees /\ exists \subseteq NamesOf(tree)
  /\ phase \in {"run", "list", "panicked", "success"}
  /\ inputs \in Seq(STRING) /\ tasks \in Seq(TaskOf(tree)) /\ carry \in Seq(Nat)
  /\ listing \subseteq NamesOf(tree) /\ size \in Nat /\ printed \in Seq(LineOf(tree))
  /\ counted \subseteq DOMAIN tree.blocks /\ IsFiniteSet(counted)

LinesInv ==
  /\ Totals(tree, printed, counted)
  /\ Whole(tree, exists, missed) => Complete(tree, printed, counted)

Stack == Reverse(tasks)
Depth == IF phase = "list" THEN Len(carry) ELSE Len(carry) - 1
Open == IF phase = "list" THEN size ELSE 0

WalkInv ==
  /\ phase = "run" => listing = {}
  /\ phase = "list" => Reading(tree, Stack, listing)
  /\ Parts(tree, Stack) /\ Chain(tree, Stack)
  /\ Apart(tree, Stack, listing, counted, Paths(printed))
  /\ tasks # <<>> => Levels(tree, Stack, carry, Depth, Open, counted)
  /\ Whole(tree, exists, missed) => Filled(tree, Stack, listing, counted, Paths(printed))

IInv == TypeInv /\ LinesInv /\ PanicsOnlyOnErrors /\ (Running => WalkInv)

-----------------------------------------------------------------------------
(* A directory is entered: its task becomes its summary. *)

\* The task that is taken, and what it becomes.
Entered(t, st, st2) ==
  /\ st \in Seq(TaskOf(t)) /\ st2 \in Seq(TaskOf(t))
  /\ Len(st) \in Nat \ {0} /\ Len(st2) = Len(st) /\ st[Len(st)].enter
  /\ \A i \in 1..(Len(st) - 1) : st2[i] = st[i]
  /\ st2[Len(st)].path = st[Len(st)].path /\ ~st2[Len(st)].enter

\* The order: the entries are below the directory, so nothing else that waits is near them.
LEMMA EnterKeepsOrder ==
  ASSUME NEW t \in Trees, NEW st, NEW st2, Entered(t, st, st2),
         NEW ahead, NEW seen, NEW out,
         ahead # {} => st[Len(st)].path \in DirsOf(t) /\ ahead \subseteq t.children[st[Len(st)].path],
         Parts(t, st), Chain(t, st), Apart(t, st, {}, seen, out)
  PROVE  /\ Reading(t, st2, ahead) /\ Parts(t, st2) /\ Chain(t, st2)
         /\ Apart(t, st2, ahead, seen, out)
<1> DEFINE n == Len(st)
           p == st[n].path
<1>0. /\ n \in Nat \ {0} /\ Len(st2) = n /\ n \in 1..n
      /\ \A i \in 1..n : st2[i].path = st[i].path
      /\ \A i \in 1..n : st2[i].enter => i < n /\ st[i].enter
      /\ \A i \in 1..(n - 1) : st2[i] = st[i]
      /\ ~st2[n].enter /\ st[n].enter
  BY DEF Entered
<1> HIDE DEF n
<1>1. Reading(t, st2, ahead)
  BY <1>0 DEF Reading, n
<1>2. Parts(t, st2)
  <2> SUFFICES ASSUME NEW i \in 2..n
               PROVE  \E j \in 1..(i - 1) :
                        /\ ~st2[j].enter /\ \A k \in (j + 1)..(i - 1) : st2[k].enter
                        /\ st2[j].path \in DirsOf(t) /\ st2[i].path \in t.children[st2[j].path]
    BY <1>0 DEF Parts
  <2> PICK j \in 1..(i - 1) :
        /\ ~st[j].enter /\ \A k \in (j + 1)..(i - 1) : st[k].enter
        /\ st[j].path \in DirsOf(t) /\ st[i].path \in t.children[st[j].path]
    BY DEF Parts, n
  <2>1. \A k \in 1..(i - 1) : k \in 1..(n - 1) /\ st2[k] = st[k]
    BY <1>0
  <2>2. \A k \in (j + 1)..(i - 1) : k \in 1..(i - 1)
    OBVIOUS
  <2> QED BY <1>0, <2>1, <2>2
<1>3. Chain(t, st2)
  <2> SUFFICES ASSUME NEW i \in 1..n, NEW j \in 1..n, i < j, ~st2[i].enter
               PROVE  st2[j].path \in BelowIn(t, st2[i].path)
    BY <1>0 DEF Chain
  <2>1. i \in 1..(n - 1)
    BY <1>0
  <2> QED BY <1>0, <2>1 DEF Chain, n
<1>4. Apart(t, st2, ahead, seen, out)
  <2>1. ASSUME NEW i \in 1..n, NEW j \in 1..n, i > j \/ (i # j /\ st2[i].enter)
        PROVE  st2[j].path \notin InsideIn(t, st2[i].path)
    BY <1>0, <2>1 DEF Apart, n
  <2>2. ASSUME NEW e \in ahead
        PROVE  /\ \A i \in 1..n : st2[i].path \notin InsideIn(t, e)
               /\ Untouched(t, e, seen, out)
    <3>1. InsideIn(t, e) \subseteq BelowIn(t, p) /\ p \notin InsideIn(t, e)
      BY ChildrenApart DEF n
    <3>2. Untouched(t, p, seen, out)
      BY <1>0 DEF Apart, n
    <3>3. \A i \in 1..n : i # n => st[i].path \notin InsideIn(t, p)
      BY <1>0 DEF Apart, n
    <3> QED BY <1>0, <3>1, <3>2, <3>3 DEF Untouched, InsideIn
  <2>3. \A i \in 1..n : st2[i].enter => Untouched(t, st2[i].path, seen, out)
    BY <1>0 DEF Apart, n
  <2>4. \A i \in 1..n, q \in out : st2[i].path \notin InsideIn(t, q)
    BY <1>0 DEF Apart, n
  <2> QED BY <1>0, <2>1, <2>2, <2>3, <2>4 DEF Apart
<1> QED BY <1>1, <1>2, <1>3, <1>4

\* The totals: one more directory is due, at the top of the stack, with nothing counted below it.
LEMMA EnterKeepsTotals ==
  ASSUME NEW t \in Trees, NEW st, NEW st2, Entered(t, st, st2),
         NEW sizes \in Seq(Nat), NEW depth \in Nat, depth = Len(sizes) - 1, NEW seen, NEW out,
         Apart(t, st, {}, seen, out), Levels(t, st, sizes, depth, 0, seen)
  PROVE  Levels(t, st2, sizes, depth + 1, 0, seen)
<1> DEFINE n == Len(st)
<1>0. /\ n \in Nat \ {0} /\ Len(st2) = n /\ n \in 1..n
      /\ \A i \in 1..n : st2[i].path = st[i].path
      /\ \A i \in 1..n : i # n => st2[i] = st[i]
      /\ st[n].enter /\ ~st2[n].enter
  <2>1. /\ n \in Nat \ {0} /\ Len(st2) = n /\ st[n].enter /\ ~st2[n].enter
        /\ st2[n].path = st[n].path /\ \A i \in 1..(n - 1) : st2[i] = st[i]
    BY DEF Entered
  <2> HIDE DEF n
  <2>2. n \in 1..n /\ \A i \in 1..n : i # n => i \in 1..(n - 1)
    BY <2>1
  <2>3. \A i \in 1..n : i # n => st2[i] = st[i]
    BY <2>1, <2>2
  <2>4. \A i \in 1..n : st2[i].path = st[i].path
    BY <2>1, <2>3
  <2> QED BY <2>1, <2>2, <2>3, <2>4
<1> HIDE DEF n
<1> PICK at \in [1..depth -> 1..n] :
      /\ \A k, l \in 1..depth : k < l => at[k] < at[l]
      /\ {i \in 1..n : ~st[i].enter} = {at[k] : k \in 1..depth}
      /\ \A k \in 1..depth :
           SumOver(sizes, (k + 1)..Len(sizes)) + 0
             = SumOver(t.blocks, seen \cap FilesIn(t, st[at[k]].path))
      /\ SumOver(sizes, 1..Len(sizes)) + 0 = SumOver(t.blocks, seen)
  BY DEF Levels, LevelsAt, n
<1> DEFINE at2 == [k \in 1..(depth + 1) |-> IF k = depth + 1 THEN n ELSE at[k]]
<1>1. \A k \in 1..depth : at[k] \in 1..n /\ ~st[at[k]].enter
  OBVIOUS
<1>2. \A k \in 1..depth : at[k] < n
  BY <1>0, <1>1
<1>3. /\ at2 \in [1..(depth + 1) -> 1..n]
      /\ \A k \in 1..depth : k \in 1..(depth + 1) /\ at2[k] = at[k]
      /\ at2[depth + 1] = n /\ depth + 1 \in 1..(depth + 1)
      /\ \A k \in 1..(depth + 1) : k = depth + 1 \/ k \in 1..depth
  BY <1>0
<1> HIDE DEF at2
<1>4. ASSUME NEW k \in 1..(depth + 1), NEW l \in 1..(depth + 1), k < l PROVE at2[k] < at2[l]
  <2>1. k \in 1..depth
    BY <1>4
  <2>2. CASE l = depth + 1
    BY <1>2, <1>3, <2>1, <2>2
  <2>3. CASE l \in 1..depth
    BY <1>3, <1>4, <2>1, <2>3
  <2> QED BY <1>3, <2>2, <2>3
<1>5. {i \in 1..n : ~st2[i].enter} = {at2[k] : k \in 1..(depth + 1)}
  <2>1. ASSUME NEW i \in 1..n, ~st2[i].enter PROVE \E k \in 1..(depth + 1) : at2[k] = i
    <3>1. CASE i = n
      BY <1>3, <3>1
    <3>2. CASE i # n
      <4> PICK k \in 1..depth : at[k] = i
        BY <1>0, <2>1, <3>2
      <4> QED BY <1>3
    <3> QED BY <3>1, <3>2
  <2>2. ASSUME NEW k \in 1..(depth + 1) PROVE at2[k] \in 1..n /\ ~st2[at2[k]].enter
    BY <1>0, <1>1, <1>3
  <2> QED BY <2>1, <2>2
<1>6. ASSUME NEW k \in 1..(depth + 1)
      PROVE  SumOver(sizes, (k + 1)..Len(sizes)) + 0
               = SumOver(t.blocks, seen \cap FilesIn(t, st2[at2[k]].path))
  <2>1. CASE k = depth + 1
    <3>1. Len(sizes) \in Nat /\ (k + 1)..Len(sizes) = {}
      BY <2>1, LenProperties
    <3>2. Untouched(t, st[n].path, seen, out)
      BY <1>0 DEF Apart, n
    <3>3. seen \cap FilesIn(t, st2[at2[k]].path) = {}
      BY <1>0, <1>3, <2>1, <3>2 DEF Untouched, InsideIn, FilesIn
    <3>4. IsFiniteSet({})
      BY FS_EmptySet
    <3>5. SumOver(sizes, {}) = 0 /\ SumOver(t.blocks, {}) = 0
      BY <3>4, SumOfFirst
    <3>6. SumOver(sizes, (k + 1)..Len(sizes)) = 0
      BY <3>1, <3>5, Zenon
    <3>7. SumOver(t.blocks, seen \cap FilesIn(t, st2[at2[k]].path)) = 0
      BY <3>3, <3>5, Zenon
    <3> QED BY <3>6, <3>7
  <2>2. CASE k \in 1..depth
    <3>1. at2[k] = at[k] /\ st2[at[k]].path = st[at[k]].path
      BY <1>0, <1>1, <1>3, <2>2
    <3>2. SumOver(sizes, (k + 1)..Len(sizes)) + 0
            = SumOver(t.blocks, seen \cap FilesIn(t, st[at[k]].path))
      BY <2>2
    <3> QED BY <3>1, <3>2
  <2> QED BY <1>3, <2>1, <2>2
<1>7. LevelsAt(t, st2, sizes, depth + 1, 0, seen, at2)
  BY <1>0, <1>4, <1>5, <1>6 DEF LevelsAt
<1> QED BY <1>0, <1>3, <1>7 DEF Levels

\* All children of the directory are ahead, if none is passed over.
LEMMA EnterKeepsFilled ==
  ASSUME NEW t \in Trees, NEW st, NEW st2, Entered(t, st, st2), NEW seen, NEW out,
         st[Len(st)].path \in DirsOf(t), Filled(t, st, {}, seen, out)
  PROVE  Filled(t, st2, t.children[st[Len(st)].path], seen, out)
<1> DEFINE n == Len(st)
<1>0. /\ n \in Nat \ {0} /\ Len(st2) = n
      /\ \A i \in 1..n : st2[i].path = st[i].path
      /\ \A i \in 1..(n - 1) : st2[i] = st[i]
  BY DEF Entered
<1> HIDE DEF n
<1> SUFFICES ASSUME NEW i \in 1..n, ~st2[i].enter
             PROVE  /\ st2[i].path \in DirsOf(t)
                    /\ \A c \in t.children[st2[i].path] :
                         \/ c \in t.children[st[n].path] /\ \A j \in (i + 1)..n : st2[j].enter
                         \/ c \notin DirsOf(t) /\ c \in seen
                         \/ c \in DirsOf(t) /\ (c \in out \/ \E j \in (i + 1)..n : st2[j].path = c)
  BY <1>0 DEF Filled, n
<1>1. CASE i = n
  BY <1>0, <1>1 DEF n
<1>2. CASE i # n
  <2>1. i \in 1..(n - 1) /\ ~st[i].enter
    BY <1>0, <1>2
  <2>2. /\ st[i].path \in DirsOf(t)
        /\ \A c \in t.children[st[i].path] :
             \/ c \notin DirsOf(t) /\ c \in seen
             \/ c \in DirsOf(t) /\ (c \in out \/ \E j \in (i + 1)..n : st[j].path = c)
    BY <2>1 DEF Filled, n
  <2>3. \A j \in (i + 1)..n : st2[j].path = st[j].path
    BY <1>0
  <2>4. st2[i].path = st[i].path
    BY <1>0, <2>1
  <2> QED BY <2>2, <2>3, <2>4
<1> QED BY <1>1, <1>2

-----------------------------------------------------------------------------
(* An entry is looked at. *)

\* An entry of the directory that is being read.
Looked(t, st, ahead, seen, out, e) ==
  /\ st \in Seq(TaskOf(t)) /\ e \in ahead
  /\ Reading(t, st, ahead) /\ Parts(t, st) /\ Chain(t, st) /\ Apart(t, st, ahead, seen, out)

\* It is below every directory that is due, and in nothing else that is to be entered,
\* is ahead or has been printed.
LEMMA EntryApart ==
  ASSUME NEW t \in Trees, NEW st, NEW ahead, NEW seen, NEW out, NEW e,
         Looked(t, st, ahead, seen, out, e)
  PROVE  /\ \A j \in 1..Len(st) : IF st[j].enter THEN e \notin InsideIn(t, st[j].path)
                                  ELSE e \in BelowIn(t, st[j].path)
         /\ \A q \in out : e \notin InsideIn(t, q)
         /\ \A o \in ahead : o # e => e \notin InsideIn(t, o)
         /\ e \notin seen
<1> DEFINE n == Len(st)
<1>0. n \in Nat /\ e \in ahead /\ Apart(t, st, ahead, seen, out)
  BY LenProperties DEF Looked
<1>1. PICK i \in 1..n :
        /\ ~st[i].enter /\ \A j \in (i + 1)..n : st[j].enter
        /\ st[i].path \in DirsOf(t) /\ ahead \subseteq t.children[st[i].path]
  BY <1>0 DEF Looked, Reading
<1> DEFINE d == st[i].path
<1> HIDE DEF n
<1>2. d \in DirsOf(t) /\ e \in t.children[d] /\ ahead \subseteq t.children[d]
  BY <1>0, <1>1
<1>3. \A p : e \in InsideIn(t, p) => p = e \/ d \in InsideIn(t, p)
  BY <1>2, ChildrenApart
<1>4. Untouched(t, e, seen, out) /\ \A j \in 1..n : st[j].path \notin InsideIn(t, e)
  BY <1>0 DEF Apart, n
<1>5. e \in InsideIn(t, e) /\ \A j \in 1..n : st[j].path # e
  BY <1>4 DEF InsideIn
<1>6. ASSUME NEW j \in 1..n, st[j].enter PROVE e \notin InsideIn(t, st[j].path)
  <2>1. j # i /\ d \notin InsideIn(t, st[j].path)
    BY <1>0, <1>1, <1>6 DEF Apart, n
  <2> QED BY <1>3, <1>5, <2>1
<1>7. ASSUME NEW j \in 1..n, ~st[j].enter PROVE e \in BelowIn(t, st[j].path)
  <2>1. e \in BelowIn(t, d)
    BY <1>2, ChildrenApart
  <2>2. CASE j = i
    BY <2>1, <2>2
  <2>3. CASE j # i
    <3>1. j < i
      BY <1>0, <1>1, <1>7, <2>3 DEF n
    <3>2. d \in BelowIn(t, st[j].path)
      BY <1>7, <3>1 DEF Looked, Chain, n
    <3> QED BY <2>1, <3>2, BelowIsTree
  <2> QED BY <2>2, <2>3
<1>8. \A q \in out : e \notin InsideIn(t, q)
  <2>1. \A q \in out : q # e /\ d \notin InsideIn(t, q)
    BY <1>0, <1>4, <1>5 DEF Apart, n, Untouched
  <2> QED BY <1>3, <2>1
<1>9. \A o \in ahead : o # e => e \notin InsideIn(t, o)
  BY <1>2, ChildrenApart
<1>10. e \notin seen
  BY <1>4, <1>5 DEF Untouched
<1> QED BY <1>6, <1>7, <1>8, <1>9, <1>10 DEF n

\* The entries that are left.
LEMMA FewerAhead ==
  ASSUME NEW t \in Trees, NEW st, NEW ahead, NEW fewer, fewer \subseteq ahead,
         NEW seen, NEW out, Apart(t, st, ahead, seen, out)
  PROVE  /\ Apart(t, st, fewer, seen, out)
         /\ Reading(t, st, ahead) => Reading(t, st, fewer)
<1>1. Apart(t, st, fewer, seen, out)
  BY DEF Apart
<1>2. ASSUME Reading(t, st, ahead) PROVE Reading(t, st, fewer)
  <2> PICK i \in 1..Len(st) :
        /\ ~st[i].enter /\ \A j \in (i + 1)..Len(st) : st[j].enter
        /\ ahead # {} => st[i].path \in DirsOf(t) /\ ahead \subseteq t.children[st[i].path]
    BY <1>2 DEF Reading
  <2>1. fewer # {} => st[i].path \in DirsOf(t) /\ fewer \subseteq t.children[st[i].path]
    OBVIOUS
  <2> QED BY <2>1 DEF Reading
<1> QED BY <1>1, <1>2

\* A directory becomes a task.
Pushed(t, st, e, st2) ==
  /\ st2 \in Seq(TaskOf(t)) /\ Len(st2) = Len(st) + 1
  /\ \A i \in 1..Len(st) : st2[i] = st[i]
  /\ st2[Len(st) + 1].path = e /\ st2[Len(st) + 1].enter

\* The order: the new task is a child of the directory that is being read.
LEMMA PushKeepsOrder ==
  ASSUME NEW t \in Trees, NEW st, NEW ahead, NEW seen, NEW out, NEW e,
         Looked(t, st, ahead, seen, out, e), NEW st2, Pushed(t, st, e, st2)
  PROVE  /\ Reading(t, st2, ahead \ {e}) /\ Parts(t, st2) /\ Chain(t, st2)
         /\ Apart(t, st2, ahead \ {e}, seen, out)
<1> DEFINE n == Len(st)
<1>0. /\ n \in Nat /\ e \in ahead /\ Apart(t, st, ahead, seen, out)
      /\ Len(st2) = n + 1 /\ \A i \in 1..n : st2[i] = st[i]
      /\ st2[n + 1].path = e /\ st2[n + 1].enter
      /\ \A i \in 1..(n + 1) : i = n + 1 \/ i \in 1..n
  BY LenProperties DEF Looked, Pushed
<1>1. PICK i \in 1..n :
        /\ ~st[i].enter /\ \A j \in (i + 1)..n : st[j].enter
        /\ st[i].path \in DirsOf(t) /\ ahead \subseteq t.children[st[i].path]
  BY <1>0 DEF Looked, Reading
<1> HIDE DEF n
<1>2. i \in 1..(n + 1) /\ st2[i] = st[i] /\ \A j \in (i + 1)..(n + 1) : st2[j].enter
  <2>1. \A j \in (i + 1)..(n + 1) : j = n + 1 \/ (j \in (i + 1)..n /\ j \in 1..n)
    BY <1>0
  <2> QED BY <1>0, <1>1, <2>1
<1>3. Reading(t, st2, ahead \ {e})
  BY <1>0, <1>1, <1>2 DEF Reading
<1>4. Parts(t, st2)
  <2> SUFFICES ASSUME NEW k \in 2..(n + 1)
               PROVE  \E j \in 1..(k - 1) :
                        /\ ~st2[j].enter /\ \A l \in (j + 1)..(k - 1) : st2[l].enter
                        /\ st2[j].path \in DirsOf(t) /\ st2[k].path \in t.children[st2[j].path]
    BY <1>0 DEF Parts
  <2>1. CASE k = n + 1
    <3>1. i \in 1..(k - 1) /\ \A l \in (i + 1)..(k - 1) : l \in 1..n /\ st2[l] = st[l]
      BY <1>0, <2>1
    <3>2. \A l \in (i + 1)..(k - 1) : st2[l].enter
      BY <1>0, <1>1, <2>1, <3>1
    <3> QED BY <1>0, <1>1, <1>2, <2>1, <3>1, <3>2
  <2>2. CASE k \in 2..n
    <3> PICK j \in 1..(k - 1) :
          /\ ~st[j].enter /\ \A l \in (j + 1)..(k - 1) : st[l].enter
          /\ st[j].path \in DirsOf(t) /\ st[k].path \in t.children[st[j].path]
      BY <2>2 DEF Looked, Parts, n
    <3>1. k \in 1..n /\ j \in 1..n /\ \A l \in (j + 1)..(k - 1) : l \in 1..n
      BY <1>0, <2>2
    <3> QED BY <1>0, <3>1
  <2> QED BY <1>0, <2>1, <2>2
<1>5. Chain(t, st2)
  <2> SUFFICES ASSUME NEW k \in 1..(n + 1), NEW j \in 1..(n + 1), k < j, ~st2[k].enter
               PROVE  st2[j].path \in BelowIn(t, st2[k].path)
    BY <1>0 DEF Chain
  <2>1. k \in 1..n /\ st2[k] = st[k]
    BY <1>0
  <2>2. CASE j = n + 1
    BY <1>0, <2>1, <2>2, EntryApart DEF n
  <2>3. CASE j \in 1..n
    BY <1>0, <2>1, <2>3 DEF Looked, Chain, n
  <2> QED BY <1>0, <2>2, <2>3
<1>6. Apart(t, st2, ahead \ {e}, seen, out)
  <2>1. ASSUME NEW k \in 1..(n + 1), NEW j \in 1..(n + 1), k > j \/ (k # j /\ st2[k].enter)
        PROVE  st2[j].path \notin InsideIn(t, st2[k].path)
    <3>1. CASE k = n + 1
      <4>1. j \in 1..n
        BY <1>0, <2>1, <3>1
      <4> QED BY <1>0, <3>1, <4>1 DEF Apart, n
    <3>2. CASE j = n + 1
      <4>1. k \in 1..n /\ st[k].enter
        BY <1>0, <2>1, <3>2
      <4> QED BY <1>0, <3>2, <4>1, EntryApart DEF n
    <3>3. CASE k \in 1..n /\ j \in 1..n
      BY <1>0, <2>1, <3>3 DEF Apart, n
    <3> QED BY <1>0, <3>1, <3>2, <3>3
  <2>2. ASSUME NEW o \in ahead \ {e}
        PROVE  /\ \A k \in 1..(n + 1) : st2[k].path \notin InsideIn(t, o)
               /\ Untouched(t, o, seen, out)
    <3>1. e \notin InsideIn(t, o)
      BY EntryApart
    <3> QED BY <1>0, <3>1 DEF Apart, n
  <2>3. ASSUME NEW k \in 1..(n + 1)
        PROVE  /\ st2[k].enter => Untouched(t, st2[k].path, seen, out)
               /\ \A q \in out : st2[k].path \notin InsideIn(t, q)
    <3>1. CASE k = n + 1
      BY <1>0, <3>1, EntryApart DEF Apart
    <3>2. CASE k \in 1..n
      BY <1>0, <3>2 DEF Apart, n
    <3> QED BY <1>0, <3>1, <3>2
  <2> QED BY <1>0, <2>1, <2>2, <2>3 DEF Apart
<1> QED BY <1>3, <1>4, <1>5, <1>6

\* The totals: no other directory is due.
LEMMA PushKeepsTotals ==
  ASSUME NEW t \in Trees, NEW st \in Seq(TaskOf(t)), NEW e, NEW st2, Pushed(t, st, e, st2),
         NEW sizes, NEW depth, NEW open, NEW seen, Levels(t, st, sizes, depth, open, seen)
  PROVE  Levels(t, st2, sizes, depth, open, seen)
<1> DEFINE n == Len(st)
<1>0. /\ n \in Nat /\ Len(st2) = n + 1 /\ \A i \in 1..n : st2[i] = st[i]
      /\ st2[n + 1].enter /\ \A i \in 1..(n + 1) : i = n + 1 \/ i \in 1..n
      /\ \A i \in 1..n : i \in 1..(n + 1)
  BY LenProperties DEF Pushed
<1> PICK at \in [1..depth -> 1..n] : LevelsAt(t, st, sizes, depth, open, seen, at)
  BY DEF Levels
<1> HIDE DEF n
<1>1. at \in [1..depth -> 1..(n + 1)] /\ \A k \in 1..depth : st2[at[k]] = st[at[k]]
  BY <1>0
<1>2. {i \in 1..(n + 1) : ~st2[i].enter} = {i \in 1..n : ~st[i].enter}
  BY <1>0
<1>3. LevelsAt(t, st2, sizes, depth, open, seen, at)
  BY <1>0, <1>1, <1>2 DEF LevelsAt, n
<1> QED BY <1>0, <1>1, <1>3 DEF Levels

\* The child is a task now, not ahead.
LEMMA PushKeepsFilled ==
  ASSUME NEW t \in Trees, NEW st \in Seq(TaskOf(t)), NEW e \in DirsOf(t), NEW st2,
         Pushed(t, st, e, st2), NEW ahead, NEW seen, NEW out, Filled(t, st, ahead, seen, out)
  PROVE  Filled(t, st2, ahead \ {e}, seen, out)
<1> DEFINE n == Len(st)
<1>0. /\ n \in Nat /\ Len(st2) = n + 1 /\ \A i \in 1..n : st2[i] = st[i]
      /\ st2[n + 1].path = e /\ st2[n + 1].enter
      /\ \A i \in 1..(n + 1) : i = n + 1 \/ i \in 1..n
  BY LenProperties DEF Pushed
<1> HIDE DEF n
<1> SUFFICES ASSUME NEW i \in 1..n
             PROVE  ~st2[i].enter =>
                /\ st2[i].path \in DirsOf(t)
                /\ \A c \in t.children[st2[i].path] :
                     \/ c \in ahead \ {e} /\ \A j \in (i + 1)..(n + 1) : st2[j].enter
                     \/ c \notin DirsOf(t) /\ c \in seen
                     \/ c \in DirsOf(t) /\ (c \in out \/ \E j \in (i + 1)..(n + 1) : st2[j].path = c)
  BY <1>0 DEF Filled
<1>1. /\ n + 1 \in (i + 1)..(n + 1) /\ st2[i] = st[i]
      /\ \A j \in (i + 1)..n : j \in (i + 1)..(n + 1) /\ st2[j] = st[j]
      /\ \A j \in (i + 1)..(n + 1) : j = n + 1 \/ j \in (i + 1)..n
  BY <1>0
<1>2. ~st[i].enter =>
        /\ st[i].path \in DirsOf(t)
        /\ \A c \in t.children[st[i].path] :
             \/ c \in ahead /\ \A j \in (i + 1)..n : st[j].enter
             \/ c \notin DirsOf(t) /\ c \in seen
             \/ c \in DirsOf(t) /\ (c \in out \/ \E j \in (i + 1)..n : st[j].path = c)
  BY DEF Filled, n
<1> QED BY <1>0, <1>1, <1>2

\* A file is counted.
LEMMA CountedOnce ==
  ASSUME NEW t \in Trees, NEW seen \in SUBSET DOMAIN t.blocks, IsFiniteSet(seen),
         NEW e \in DOMAIN t.blocks, e \notin seen, NEW S, e \in S
  PROVE  SumOver(t.blocks, (seen \cup {e}) \cap S) = SumOver(t.blocks, seen \cap S) + t.blocks[e]
<1>1. t.blocks \in [DOMAIN t.blocks -> Nat]
  BY TreeShape
<1>2. IsFiniteSet(seen \cap S)
  BY FS_Subset
<1>3. \A x \in (seen \cap S) \cup {e} : t.blocks[x] \in Nat
  BY <1>1
<1>4. (seen \cup {e}) \cap S = (seen \cap S) \cup {e} /\ e \notin seen \cap S
  OBVIOUS
<1>5. SumOver(t.blocks, (seen \cap S) \cup {e}) = SumOver(t.blocks, seen \cap S) + t.blocks[e]
  BY <1>2, <1>3, <1>4, SumAdd
<1> QED BY <1>4, <1>5, Zenon

\* The order: the file is in nothing that is still to be entered.
LEMMA FileKeepsOrder ==
  ASSUME NEW t \in Trees, NEW st, NEW ahead, NEW seen, NEW out, NEW e,
         Looked(t, st, ahead, seen, out, e)
  PROVE  Apart(t, st, ahead \ {e}, seen \cup {e}, out)
<1>1. Apart(t, st, ahead, seen, out)
  BY DEF Looked
<1>2. \A j \in 1..Len(st) : st[j].enter => Untouched(t, st[j].path, seen \cup {e}, out)
  BY <1>1, EntryApart DEF Apart, Untouched
<1>3. \A o \in ahead \ {e} : Untouched(t, o, seen \cup {e}, out)
  BY <1>1, EntryApart DEF Apart, Untouched
<1> QED BY <1>1, <1>2, <1>3 DEF Apart

\* The totals: the file is below every directory that is due, and counts for each.
LEMMA FileKeepsTotals ==
  ASSUME NEW t \in Trees, NEW st, NEW ahead, NEW seen \in SUBSET DOMAIN t.blocks,
         IsFiniteSet(seen), NEW out, NEW e \in DOMAIN t.blocks,
         Looked(t, st, ahead, seen, out, e),
         NEW sizes \in Seq(Nat), NEW depth, NEW open \in Nat,
         Levels(t, st, sizes, depth, open, seen)
  PROVE  Levels(t, st, sizes, depth, open + t.blocks[e], seen \cup {e})
<1> DEFINE n == Len(st)
           more == seen \cup {e}
<1> PICK at \in [1..depth -> 1..n] : LevelsAt(t, st, sizes, depth, open, seen, at)
  BY DEF Levels
<1>1. \A k \in 1..depth : at[k] \in 1..n /\ ~st[at[k]].enter
  BY DEF LevelsAt
<1>2. depth \in Nat /\ Len(sizes) \in Nat /\ e \notin seen /\ t.blocks[e] \in Nat
  BY EntryApart, LenProperties, TreeShape DEF Levels
<1>3. \A m \in Nat \ {0} : SumOver(sizes, m..Len(sizes)) \in Nat
  <2> TAKE m \in Nat \ {0}
  <2>1. m \in Int /\ Len(sizes) \in Int
    BY <1>2
  <2>2. IsFiniteSet(m..Len(sizes))
    BY <2>1, FS_Interval
  <2>3. \A x \in m..Len(sizes) : sizes[x] \in Nat
    BY <1>2
  <2> QED BY <2>2, <2>3, SumOfFirst
<1>4. ASSUME NEW k \in 1..depth
      PROVE  SumOver(sizes, (k + 1)..Len(sizes)) + (open + t.blocks[e])
               = SumOver(t.blocks, more \cap FilesIn(t, st[at[k]].path))
  <2> DEFINE F == FilesIn(t, st[at[k]].path)
  <2>1. e \in F
    <3>1. at[k] \in 1..n /\ ~st[at[k]].enter
      BY <1>1
    <3> QED BY <3>1, EntryApart DEF FilesIn
  <2>2. SumOver(sizes, (k + 1)..Len(sizes)) + open = SumOver(t.blocks, seen \cap F)
    BY DEF LevelsAt
  <2>3. SumOver(sizes, (k + 1)..Len(sizes)) \in Nat
    BY <1>2, <1>3
  <2> HIDE DEF F
  <2> HIDE DEF more
  <2>4. SumOver(t.blocks, more \cap F) = SumOver(t.blocks, seen \cap F) + t.blocks[e]
    BY <1>2, <2>1, CountedOnce DEF more
  <2> QED BY <1>2, <2>2, <2>3, <2>4 DEF F
<1>5. SumOver(sizes, 1..Len(sizes)) + (open + t.blocks[e]) = SumOver(t.blocks, more)
  <2> DEFINE F == DOMAIN t.blocks
  <2>1. seen \cap F = seen /\ more \cap F = more /\ e \in F
    OBVIOUS
  <2> HIDE DEF F, more
  <2>2. SumOver(t.blocks, more \cap F) = SumOver(t.blocks, seen \cap F) + t.blocks[e]
    BY <1>2, <2>1, CountedOnce DEF more
  <2>3. SumOver(t.blocks, more) = SumOver(t.blocks, seen) + t.blocks[e]
    BY <2>1, <2>2
  <2>4. SumOver(sizes, 1..Len(sizes)) \in Nat
    BY <1>3
  <2>5. SumOver(sizes, 1..Len(sizes)) + open = SumOver(t.blocks, seen)
    BY DEF LevelsAt
  <2> QED BY <1>2, <2>3, <2>4, <2>5
<1>6. LevelsAt(t, st, sizes, depth, open + t.blocks[e], more, at)
  BY <1>4, <1>5 DEF LevelsAt
<1> QED BY <1>2, <1>6 DEF Levels

\* The child has been seen, not ahead.
LEMMA FileKeepsFilled ==
  ASSUME NEW t \in Trees, NEW st, NEW ahead, NEW seen, NEW out,
         NEW e \in DOMAIN t.blocks, Filled(t, st, ahead, seen, out)
  PROVE  Filled(t, st, ahead \ {e}, seen \cup {e}, out)
<1>1. e \notin DirsOf(t)
  BY TreeShape
<1> QED BY <1>1 DEF Filled

\* The lines that have been printed are about other files.
LEMMA FileKeepsLines ==
  ASSUME NEW t \in Trees, NEW st, NEW ahead, NEW seen \in SUBSET DOMAIN t.blocks,
         IsFiniteSet(seen), NEW lines \in Seq(LineOf(t)), NEW e \in DOMAIN t.blocks,
         Looked(t, st, ahead, seen, Paths(lines), e)
  PROVE  /\ Totals(t, lines, seen) => Totals(t, lines, seen \cup {e})
         /\ Complete(t, lines, seen) => Complete(t, lines, seen \cup {e})
<1>1. ASSUME NEW i \in 1..Len(lines)
      PROVE  (seen \cup {e}) \cap FilesIn(t, lines[i].path) = seen \cap FilesIn(t, lines[i].path)
  <2>1. e \notin FilesIn(t, lines[i].path)
    BY EntryApart DEF Paths, FilesIn, InsideIn
  <2> QED BY <2>1
<1>2. Totals(t, lines, seen) => Totals(t, lines, seen \cup {e})
  BY <1>1 DEF Totals
<1>3. Complete(t, lines, seen) => Complete(t, lines, seen \cup {e})
  BY DEF Complete
<1> QED BY <1>2, <1>3

-----------------------------------------------------------------------------
(* The end of the entries: the size goes on the stack. *)

\* The totals stay: what was being added up is now the last size.
LEMMA EndKeepsTotals ==
  ASSUME NEW t \in Trees, NEW st, NEW sizes \in Seq(Nat), NEW open \in Nat, NEW seen,
         Levels(t, st, sizes, Len(sizes), open, seen)
  PROVE  Levels(t, st, Append(sizes, open), Len(sizes), 0, seen)
<1> DEFINE m == Len(sizes)
           more == Append(sizes, open)
<1> PICK at \in [1..m -> 1..Len(st)] : LevelsAt(t, st, sizes, m, open, seen, at)
  BY DEF Levels
<1>1. /\ m \in Nat /\ more \in Seq(Nat) /\ Len(more) = m + 1 /\ more[m + 1] = open
      /\ \A i \in 1..m : more[i] = sizes[i] /\ sizes[i] \in Nat
  BY LenProperties, AppendProperties
<1> HIDE DEF more, m
<1>2. ASSUME NEW k \in 1..(m + 1)
      PROVE  SumOver(more, k..(m + 1)) + 0 = SumOver(sizes, k..m) + open
  <2>0. m \in Int /\ k \in Int /\ IsFiniteSet(k..m)
    BY <1>1, FS_Interval
  <2>1. k..(m + 1) = (k..m) \cup {m + 1} /\ m + 1 \notin k..m /\ IsFiniteSet(k..m)
    BY <1>1, <2>0
  <2>2. /\ \A i \in k..m : sizes[i] \in Nat /\ sizes[i] = more[i]
        /\ \A i \in (k..m) \cup {m + 1} : more[i] \in Nat
    BY <1>1
  <2>3. SumOver(more, (k..m) \cup {m + 1}) = SumOver(more, k..m) + more[m + 1]
    BY <2>1, <2>2, SumAdd
  <2>4. SumOver(sizes, k..m) = SumOver(more, k..m)
    BY <2>1, <2>2, SumSame
  <2>5. SumOver(sizes, k..m) \in Nat
    BY <2>1, <2>2, SumOfFirst
  <2>6. SumOver(more, k..(m + 1)) = SumOver(sizes, k..m) + open
    BY <1>1, <2>1, <2>3, <2>4
  <2> QED BY <2>5, <2>6
<1>3. LevelsAt(t, st, more, m, 0, seen, at)
  <2>1. \A k \in 1..m : k + 1 \in 1..(m + 1)
    BY <1>1
  <2>2. 1 \in 1..(m + 1)
    BY <1>1
  <2> QED BY <1>1, <1>2, <2>1, <2>2 DEF LevelsAt, m
<1> QED BY <1>1, <1>3 DEF Levels, m, more

-----------------------------------------------------------------------------
(* A directory is summarized. *)

Popped(t, st, st2) ==
  /\ st \in Seq(TaskOf(t)) /\ st2 \in Seq(TaskOf(t))
  /\ Len(st) \in Nat \ {0} /\ Len(st2) = Len(st) - 1 /\ ~st[Len(st)].enter
  /\ \A i \in 1..(Len(st) - 1) : st2[i] = st[i]

\* The order: what is printed is around nothing that still waits.
LEMMA PopKeepsOrder ==
  ASSUME NEW t \in Trees, NEW st, NEW st2, Popped(t, st, st2), NEW seen, NEW out,
         Parts(t, st), Chain(t, st), Apart(t, st, {}, seen, out)
  PROVE  /\ Parts(t, st2) /\ Chain(t, st2)
         /\ Apart(t, st2, {}, seen, out \cup {st[Len(st)].path})
<1> DEFINE n == Len(st)
<1>0. /\ n \in Nat \ {0} /\ Len(st2) = n - 1 /\ \A i \in 1..(n - 1) : st2[i] = st[i]
      /\ \A i \in 1..(n - 1) : i \in 1..n /\ i < n
      /\ n \in 1..n
  BY DEF Popped
<1> HIDE DEF n
<1>1. Parts(t, st2)
  <2> SUFFICES ASSUME NEW k \in 2..(n - 1)
               PROVE  \E j \in 1..(k - 1) :
                        /\ ~st2[j].enter /\ \A l \in (j + 1)..(k - 1) : st2[l].enter
                        /\ st2[j].path \in DirsOf(t) /\ st2[k].path \in t.children[st2[j].path]
    BY <1>0 DEF Parts
  <2>1. k \in 2..n /\ k \in 1..(n - 1) /\ \A l \in 1..(k - 1) : l \in 1..(n - 1)
    BY <1>0
  <2> PICK j \in 1..(k - 1) :
        /\ ~st[j].enter /\ \A l \in (j + 1)..(k - 1) : st[l].enter
        /\ st[j].path \in DirsOf(t) /\ st[k].path \in t.children[st[j].path]
    BY <2>1 DEF Parts, n
  <2>2. \A l \in (j + 1)..(k - 1) : l \in 1..(k - 1)
    OBVIOUS
  <2> QED BY <1>0, <2>1, <2>2
<1>2. Chain(t, st2)
  BY <1>0 DEF Chain, n
<1>3. Apart(t, st2, {}, seen, out \cup {st[n].path})
  <2>1. \A i, j \in 1..(n - 1) :
          i > j \/ (i # j /\ st2[i].enter) => st2[j].path \notin InsideIn(t, st2[i].path)
    BY <1>0 DEF Apart, n
  <2>2. \A i \in 1..(n - 1) :
          st2[i].enter => Untouched(t, st2[i].path, seen, out \cup {st[n].path})
    BY <1>0 DEF Apart, n, Untouched
  <2>3. \A i \in 1..(n - 1), q \in out \cup {st[n].path} : st2[i].path \notin InsideIn(t, q)
    BY <1>0 DEF Apart, n
  <2> QED BY <1>0, <2>1, <2>2, <2>3 DEF Apart
<1> QED BY <1>1, <1>2, <1>3 DEF n

\* What the files below a path that have been seen add up to.
TotalIn(t, seen, path) == SumOver(t.blocks, seen \cap FilesIn(t, path))

\* The last size is the total of the directory, and there is one for its parent.
LEMMA PopKeepsTotals ==
  ASSUME NEW t \in Trees, NEW st, NEW st2, Popped(t, st, st2),
         NEW sizes \in Seq(Nat), NEW seen, Levels(t, st, sizes, Len(sizes) - 1, 0, seen)
  PROVE  /\ Len(sizes) >= 2 /\ Len(sizes) \in Nat
         /\ Last(sizes) = TotalIn(t, seen, st[Len(st)].path)
         /\ Levels(t, st2, Carried(Front(sizes), Last(sizes)), Len(sizes) - 2, 0, seen)
         /\ Carried(Front(sizes), Last(sizes)) \in Seq(Nat)
         /\ Len(Carried(Front(sizes), Last(sizes))) = Len(sizes) - 1
<1> DEFINE n == Len(st)
           m == Len(sizes) - 1
<1>0. /\ n \in Nat \ {0} /\ Len(st2) = n - 1 /\ \A i \in 1..(n - 1) : st2[i] = st[i]
      /\ n \in 1..n /\ ~st[n].enter
  BY DEF Popped
<1> PICK at \in [1..m -> 1..n] : LevelsAt(t, st, sizes, m, 0, seen, at)
  BY DEF Levels
<1>1. m \in Nat /\ Len(sizes) \in Nat /\ Len(sizes) = m + 1
  BY LenProperties DEF Levels
<1> HIDE DEF n, m
<1>2. /\ \A k, l \in 1..m : k < l => at[k] < at[l]
      /\ {i \in 1..n : ~st[i].enter} = {at[k] : k \in 1..m}
      /\ \A k \in 1..m : SumOver(sizes, (k + 1)..(m + 1)) + 0
                           = SumOver(t.blocks, seen \cap FilesIn(t, st[at[k]].path))
      /\ SumOver(sizes, 1..(m + 1)) + 0 = SumOver(t.blocks, seen)
  BY <1>1 DEF LevelsAt, n
<1>3. PICK k \in 1..m : at[k] = n
  BY <1>0, <1>2
<1>4. m \in Nat \ {0} /\ k = m /\ m \in 1..m /\ at[m] = n
  <2>1. m \in Nat \ {0} /\ m \in 1..m
    BY <1>1
  <2>2. k < m => FALSE
    BY <1>0, <1>2, <1>3, <2>1
  <2> QED BY <1>3, <2>1, <2>2
<1> DEFINE front == Front(sizes)
           total == Last(sizes)
           less == Carried(front, total)
<1>5. /\ front \in Seq(Nat) /\ Len(front) = m /\ \A i \in 1..m : front[i] = sizes[i]
      /\ total = sizes[m + 1] /\ total \in Nat /\ \A i \in 1..(m + 1) : sizes[i] \in Nat
  <2>1. sizes # <<>>
    BY <1>1, <1>4, EmptySeq
  <2>2. front = SubSeq(sizes, 1, Len(sizes) - 1) /\ Len(sizes) - 1 = m
    BY <1>1 DEF Front
  <2>3. front \in Seq(Nat) /\ Len(front) = m /\ \A i \in 1..m : front[i] = sizes[i]
    BY <2>1, <2>2, FrontOf
  <2>4. total = sizes[m + 1] /\ m + 1 \in 1..Len(sizes)
    BY <1>1 DEF Last
  <2> QED BY <1>1, <2>3, <2>4, ElementOfSeq
<1> HIDE DEF front, total
<1>6. /\ less \in Seq(Nat) /\ Len(less) = m /\ less[m] = sizes[m] + sizes[m + 1]
      /\ \A i \in 1..(m - 1) : less[i] = sizes[i]
  <2>1. less = [front EXCEPT ![m] = front[m] + total] /\ front[m] \in Nat
    BY <1>4, <1>5 DEF Carried
  <2>2. front[m] + total \in Nat /\ front[m] = sizes[m]
    BY <1>4, <1>5, <2>1
  <2> DEFINE v == front[m] + total
  <2>3. v = sizes[m] + sizes[m + 1] /\ v \in Nat
    BY <1>5, <2>2
  <2>4. less = [front EXCEPT ![m] = v]
    BY <2>1
  <2> HIDE DEF v, less
  <2>5. less \in Seq(Nat) /\ Len(less) = m /\ less[m] = v /\ \A i \in 1..(m - 1) : less[i] = front[i]
    BY <1>4, <1>5, <2>3, <2>4
  <2>6. \A i \in 1..(m - 1) : i \in 1..m
    BY <1>4
  <2>7. \A i \in 1..(m - 1) : less[i] = sizes[i]
    BY <1>5, <2>5, <2>6
  <2>8. less[m] = sizes[m] + sizes[m + 1]
    BY <2>3, <2>5
  <2> QED BY <2>5, <2>7, <2>8
<1> HIDE DEF less
<1>7. ASSUME NEW j \in 1..m PROVE SumOver(less, j..m) + 0 = SumOver(sizes, j..(m + 1)) + 0
  <2>1. m \in Int /\ j \in Int /\ m - 1 \in Int /\ m + 1 \in 1..(m + 1)
    BY <1>4
  <2>2. IsFiniteSet(j..(m - 1)) /\ IsFiniteSet(j..m)
    BY <2>1, FS_Interval
  <2>3. /\ j..m = (j..(m - 1)) \cup {m} /\ m \notin j..(m - 1)
        /\ j..(m + 1) = (j..m) \cup {m + 1} /\ m + 1 \notin j..m
    BY <1>4
  <2>4. /\ \A i \in j..(m - 1) : sizes[i] \in Nat /\ sizes[i] = less[i]
        /\ \A i \in (j..(m - 1)) \cup {m} : sizes[i] \in Nat /\ less[i] \in Nat
        /\ \A i \in (j..m) \cup {m + 1} : sizes[i] \in Nat
    <3>1. \A i \in j..(m - 1) : i \in 1..(m - 1) /\ i \in 1..(m + 1)
      BY <1>4
    <3>2. m \in 1..(m + 1) /\ sizes[m] \in Nat /\ sizes[m + 1] \in Nat
      BY <1>4, <1>5, <2>1
    <3>3. \A i \in j..(m - 1) : sizes[i] \in Nat /\ sizes[i] = less[i]
      BY <1>5, <1>6, <3>1
    <3>4. less[m] \in Nat
      <4>1. less[m] = sizes[m] + sizes[m + 1]
        BY <1>6
      <4>2. \A a, b \in Nat : a + b \in Nat
        OBVIOUS
      <4> QED BY <3>2, <4>1, <4>2
    <3> QED BY <2>3, <3>2, <3>3, <3>4
  <2>5. SumOver(less, j..(m - 1)) = SumOver(sizes, j..(m - 1))
    BY <2>2, <2>4, SumSame
  <2>6. SumOver(less, (j..(m - 1)) \cup {m}) = SumOver(less, j..(m - 1)) + less[m]
    BY <2>2, <2>3, <2>4, SumAdd
  <2>7. SumOver(sizes, (j..(m - 1)) \cup {m}) = SumOver(sizes, j..(m - 1)) + sizes[m]
    BY <2>2, <2>3, <2>4, SumAdd
  <2>8. SumOver(sizes, (j..m) \cup {m + 1}) = SumOver(sizes, j..m) + sizes[m + 1]
    BY <2>2, <2>3, <2>4, SumAdd
  <2>9. SumOver(sizes, j..(m - 1)) \in Nat
    BY <2>2, <2>4, SumOfFirst
  <2>10. sizes[m] \in Nat /\ sizes[m + 1] \in Nat
    BY <2>4
  <2>11. /\ SumOver(less, j..m) = SumOver(sizes, j..(m - 1)) + less[m]
         /\ SumOver(sizes, j..(m + 1)) = (SumOver(sizes, j..(m - 1)) + sizes[m]) + sizes[m + 1]
    BY <2>3, <2>5, <2>6, <2>7, <2>8
  <2>12. less[m] = sizes[m] + sizes[m + 1]
    BY <1>6
  <2>13. \A a, b, c \in Nat : (a + (b + c)) + 0 = ((a + b) + c) + 0
    OBVIOUS
  <2> QED BY <2>9, <2>10, <2>11, <2>12, <2>13
<1>8. Levels(t, st2, less, m - 1, 0, seen)
  <2> DEFINE at2 == [i \in 1..(m - 1) |-> at[i]]
  <2>1. \A i \in 1..(m - 1) : i \in 1..m /\ i < m /\ i + 1 \in 1..m
    BY <1>4
  <2>2. \A i \in 1..(m - 1) : at[i] \in 1..(n - 1) /\ st2[at[i]] = st[at[i]]
    <3> TAKE i \in 1..(m - 1)
    <3>1. at[i] < n /\ at[i] \in 1..n
      BY <1>2, <1>4, <2>1
    <3> QED BY <1>0, <3>1
  <2>3. at2 \in [1..(m - 1) -> 1..(n - 1)] /\ \A i \in 1..(m - 1) : at2[i] = at[i]
    BY <2>2
  <2> HIDE DEF at2
  <2>4. {i \in 1..(n - 1) : ~st2[i].enter} = {at2[i] : i \in 1..(m - 1)}
    <3>1. ASSUME NEW i \in 1..(n - 1), ~st2[i].enter PROVE \E l \in 1..(m - 1) : at2[l] = i
      <4>1. i \in 1..n /\ i # n /\ ~st[i].enter
        BY <1>0, <3>1
      <4> PICK l \in 1..m : at[l] = i
        BY <1>2, <4>1
      <4>2. l \in 1..(m - 1)
        BY <1>4, <4>1
      <4> QED BY <2>3, <4>2
    <3>2. ASSUME NEW l \in 1..(m - 1) PROVE at2[l] \in 1..(n - 1) /\ ~st2[at2[l]].enter
      BY <1>2, <2>1, <2>2, <2>3
    <3> QED BY <3>1, <3>2
  <2>5. ASSUME NEW l \in 1..(m - 1)
        PROVE  SumOver(less, (l + 1)..m) + 0
                 = SumOver(t.blocks, seen \cap FilesIn(t, st2[at2[l]].path))
    BY <1>2, <1>7, <2>1, <2>2, <2>3
  <2>6. SumOver(less, 1..m) + 0 = SumOver(t.blocks, seen)
    <3>1. 1 \in 1..m
      BY <1>4
    <3> QED BY <1>2, <1>7, <3>1
  <2>7. \A k1, l \in 1..(m - 1) : k1 < l => at2[k1] < at2[l]
    BY <1>2, <2>1, <2>3
  <2>8. LevelsAt(t, st2, less, m - 1, 0, seen, at2)
    BY <1>0, <1>6, <2>4, <2>5, <2>6, <2>7 DEF LevelsAt
  <2>9. m - 1 \in Nat
    BY <1>4
  <2> QED BY <1>0, <2>3, <2>8, <2>9 DEF Levels
<1>9. sizes[m + 1] = SumOver(t.blocks, seen \cap FilesIn(t, st[n].path))
  <2> DEFINE S == (m + 1)..(m + 1)
  <2>1. S = {m + 1} /\ S \ {m + 1} = {} /\ m + 1 \in S
    BY <1>4
  <2>2. sizes[m + 1] \in Nat /\ IsFiniteSet({}) /\ IsFiniteSet({m + 1})
    BY <1>4, <1>5, FS_EmptySet, FS_Singleton
  <2> HIDE DEF S
  <2>3. SumOver(sizes, S) = sizes[m + 1] + SumOver(sizes, S \ {m + 1})
    BY <2>1, <2>2, SumRemove
  <2>6. SumOver(sizes, {}) = 0
    BY <2>2, SumOfFirst
  <2>7. SumOver(sizes, S \ {m + 1}) = 0
    BY <2>1, <2>6, Zenon
  <2>8. SumOver(sizes, S) = sizes[m + 1]
    BY <2>2, <2>3, <2>7
  <2>4. SumOver(sizes, (m + 1)..(m + 1)) = sizes[m + 1]
    BY <2>8 DEF S
  <2>5. SumOver(sizes, (m + 1)..(m + 1)) + 0
          = SumOver(t.blocks, seen \cap FilesIn(t, st[n].path))
    BY <1>2, <1>4
  <2> QED BY <2>2, <2>4, <2>5
<1>10. m - 1 = Len(sizes) - 2 /\ Len(sizes) >= 2 /\ Len(sizes) - 1 = m
  BY <1>1, <1>4
<1> QED BY <1>1, <1>5, <1>6, <1>8, <1>9, <1>10 DEF less, front, total, n, TotalIn

\* The directory has been dealt with, for its parent.
LEMMA PopKeepsFilled ==
  ASSUME NEW t \in Trees, NEW st, NEW st2, Popped(t, st, st2), NEW seen, NEW out,
         Filled(t, st, {}, seen, out)
  PROVE  Filled(t, st2, {}, seen, out \cup {st[Len(st)].path})
<1> DEFINE n == Len(st)
<1>0. /\ n \in Nat \ {0} /\ Len(st2) = n - 1 /\ \A i \in 1..(n - 1) : st2[i] = st[i]
  BY DEF Popped
<1> HIDE DEF n
<1> SUFFICES ASSUME NEW i \in 1..(n - 1), ~st2[i].enter
             PROVE  /\ st2[i].path \in DirsOf(t)
                    /\ \A c \in t.children[st2[i].path] :
                         \/ c \notin DirsOf(t) /\ c \in seen
                         \/ c \in DirsOf(t) /\ (c \in out \cup {st[n].path}
                                                  \/ \E j \in (i + 1)..(n - 1) : st2[j].path = c)
  BY <1>0 DEF Filled, n
<1>1. i \in 1..n /\ st2[i] = st[i]
  BY <1>0
<1>2. /\ st[i].path \in DirsOf(t)
      /\ \A c \in t.children[st[i].path] :
           \/ c \notin DirsOf(t) /\ c \in seen
           \/ c \in DirsOf(t) /\ (c \in out \/ \E j \in (i + 1)..n : st[j].path = c)
  BY <1>1 DEF Filled, n
<1>3. \A j \in (i + 1)..n : j = n \/ (j \in (i + 1)..(n - 1) /\ st2[j] = st[j])
  BY <1>0
<1> QED BY <1>1, <1>2, <1>3

\* The paths of the lines, with a new one.
LEMMA OneMorePath ==
  ASSUME NEW E, NEW lines \in Seq(E), NEW line \in E
  PROVE  Paths(Append(lines, line)) = Paths(lines) \cup {line.path}
<1> DEFINE m == Len(lines)
           more == Append(lines, line)
<1>1. /\ m \in Nat /\ Len(more) = m + 1 /\ more[m + 1] = line
      /\ \A i \in 1..m : more[i] = lines[i]
  BY AppendProperties, LenProperties
<1>2. m + 1 \in 1..(m + 1) /\ \A i \in 1..(m + 1) : i = m + 1 \/ i \in 1..m
  BY <1>1
<1>3. \A i \in 1..m : i \in 1..(m + 1)
  BY <1>1
<1> HIDE DEF more
<1> QED BY <1>1, <1>2, <1>3 DEF Paths, more

\* The new line is true of its directory, which comes after all that is below it.
LEMMA PopKeepsLines ==
  ASSUME NEW t \in Trees, NEW st, NEW st2, Popped(t, st, st2), NEW seen,
         NEW lines \in Seq(LineOf(t)), NEW line \in LineOf(t), line.path = st[Len(st)].path,
         line.total = SumOver(t.blocks, seen \cap FilesIn(t, line.path)),
         Apart(t, st, {}, seen, Paths(lines)), Totals(t, lines, seen)
  PROVE  /\ Totals(t, Append(lines, line), seen)
         /\ Filled(t, st, {}, seen, Paths(lines)) /\ Complete(t, lines, seen)
              => Complete(t, Append(lines, line), seen)
<1> DEFINE n == Len(st)
           m == Len(lines)
           more == Append(lines, line)
<1>0. /\ n \in Nat \ {0} /\ n \in 1..n /\ ~st[n].enter
      /\ m \in Nat /\ Len(more) = m + 1 /\ more[m + 1] = line /\ m + 1 \in 1..(m + 1)
      /\ \A i \in 1..m : more[i] = lines[i] /\ i \in 1..(m + 1)
      /\ \A i \in 1..(m + 1) : i = m + 1 \/ i \in 1..m
  <2>1. n \in Nat \ {0} /\ n \in 1..n /\ ~st[n].enter
    BY DEF Popped
  <2>2. /\ m \in Nat /\ Len(more) = m + 1 /\ more[m + 1] = line
        /\ \A i \in 1..m : more[i] = lines[i]
    BY AppendProperties, LenProperties
  <2> QED BY <2>1, <2>2
<1> HIDE DEF more
<1>2. Totals(t, more, seen)
  <2>1. ASSUME NEW i \in 1..m, NEW k \in (i + 1)..(m + 1)
        PROVE  more[k].path \notin InsideIn(t, more[i].path)
    <3>1. CASE k = m + 1
      <4>1. lines[i].path \in Paths(lines)
        BY DEF Paths
      <4> QED BY <1>0, <3>1, <4>1 DEF Apart
    <3>2. CASE k \in (i + 1)..m
      <4>1. k \in 1..m
        BY <1>0, <3>2
      <4> QED BY <1>0, <3>2, <4>1 DEF Totals
    <3> QED BY <1>0, <3>1, <3>2
  <2>2. \A k \in ((m + 1) + 1)..(m + 1) : FALSE
    BY <1>0
  <2>3. \A i \in 1..m : more[i].total = SumOver(t.blocks, seen \cap FilesIn(t, more[i].path))
    BY <1>0 DEF Totals
  <2> QED BY <1>0, <2>1, <2>2, <2>3 DEF Totals
<1>3. ASSUME Filled(t, st, {}, seen, Paths(lines)), Complete(t, lines, seen)
      PROVE  Complete(t, more, seen)
  <2> DEFINE p == st[n].path
  <2>1. /\ p \in DirsOf(t)
        /\ \A c \in t.children[p] : IF c \in DirsOf(t) THEN c \in Paths(lines) ELSE c \in seen
    <3>1. \A j \in (n + 1)..n : FALSE
      BY <1>0
    <3> QED BY <1>0, <1>3, <3>1 DEF Filled
  <2>2. ASSUME NEW q \in BelowIn(t, p)
        PROVE  q \in t.children[p] \/ \E c \in t.children[p] \cap DirsOf(t) : q \in BelowIn(t, c)
    BY <2>1, BelowEquation
  <2>3. ASSUME NEW c \in t.children[p] \cap DirsOf(t)
        PROVE  \E k \in 1..m : lines[k].path = c
    BY <2>1 DEF Paths
  <2>4. FilesIn(t, p) \subseteq seen
    <3> SUFFICES ASSUME NEW q \in BelowIn(t, p) \cap DOMAIN t.blocks PROVE q \in seen
      BY DEF FilesIn
    <3>1. CASE q \in t.children[p]
      BY <2>1, <3>1, TreeShape
    <3>2. CASE q \notin t.children[p]
      <4> PICK c \in t.children[p] \cap DirsOf(t) : q \in BelowIn(t, c)
        BY <2>2, <3>2
      <4> PICK k \in 1..m : lines[k].path = c
        BY <2>3
      <4> QED BY <1>3 DEF Complete, FilesIn
    <3> QED BY <3>1, <3>2
  <2>5. ASSUME NEW d \in BelowIn(t, p) \cap DirsOf(t)
        PROVE  \E k \in 1..m : lines[k].path = d
    <3>1. CASE d \in t.children[p]
      BY <2>3, <3>1
    <3>2. CASE d \notin t.children[p]
      <4> PICK c \in t.children[p] \cap DirsOf(t) : d \in BelowIn(t, c)
        BY <2>2, <3>2
      <4> PICK k \in 1..m : lines[k].path = c
        BY <2>3
      <4> PICK l \in 1..(k - 1) : lines[l].path = d
        BY <1>3 DEF Complete
      <4>1. l \in 1..m
        BY <1>0
      <4> QED BY <4>1
    <3> QED BY <3>1, <3>2
  <2>6. ASSUME NEW i \in 1..m
        PROVE  /\ FilesIn(t, more[i].path) \subseteq seen
               /\ \A d \in BelowIn(t, more[i].path) \cap DirsOf(t) :
                    \E k \in 1..(i - 1) : more[k].path = d
    <3>1. \A k \in 1..(i - 1) : k \in 1..m
      BY <1>0
    <3> QED BY <1>0, <1>3, <3>1 DEF Complete
  <2>7. /\ FilesIn(t, more[m + 1].path) \subseteq seen
        /\ \A d \in BelowIn(t, more[m + 1].path) \cap DirsOf(t) :
             \E k \in 1..((m + 1) - 1) : more[k].path = d
    <3>1. more[m + 1].path = p /\ (m + 1) - 1 = m
      BY <1>0
    <3> QED BY <1>0, <2>4, <2>5, <3>1
  <2> QED BY <1>0, <2>6, <2>7 DEF Complete
<1> QED BY <1>2, <1>3 DEF more

-----------------------------------------------------------------------------
(* The list of tasks as a stack. *)

\* A task in front of a list of tasks.
LEMMA ConsType ==
  ASSUME NEW E, NEW s \in Seq(E), NEW x \in E
  PROVE  Cons(x, s) \in Seq(E) /\ Cons(x, s) # <<>> /\ Reverse(Cons(x, s)) \in Seq(E)
<1>1. <<x>> \o s \in Seq(E) /\ <<x>> \o s # <<>>
  OBVIOUS
<1>2. Cons(x, s) \in Seq(E) /\ Cons(x, s) # <<>>
  BY <1>1 DEF Cons
<1> QED BY <1>2, ReverseType

\* In the stack it is the last, above the others.
LEMMA StackPush ==
  ASSUME NEW E, NEW s \in Seq(E), NEW x \in E, NEW st, st = Reverse(Cons(x, s))
  PROVE  /\ Len(st) = Len(s) + 1 /\ st[Len(s) + 1] = x
         /\ \A i \in 1..Len(s) : st[i] = Reverse(s)[i]
<1>1. /\ <<x>> \in Seq(E) /\ Reverse(s) \in Seq(E) /\ Len(Reverse(s)) = Len(s)
      /\ Len(s) \in Nat
  BY ReverseType, LenProperties
<1>2. Reverse(<<x>>) = <<x>>
  <2>1. Reverse(<<x>>) \in Seq(E) /\ Len(Reverse(<<x>>)) = 1 /\ Reverse(<<x>>)[1] = x
    <3>1. Len(<<x>>) = 1 /\ 1 \in 1..1 /\ <<x>>[(1 - 1) + 1] = x
      OBVIOUS
    <3> QED BY <1>1, <3>1, ReverseType
  <2> QED BY <2>1
<1>3. Reverse(<<x>> \o s) = Reverse(s) \o <<x>>
  BY <1>1, <1>2, ReverseConcat
<1>4. st = Append(Reverse(s), x)
  BY <1>1, <1>3, AppendIsConcat DEF Cons
<1> DEFINE r == Reverse(s)
<1>5. r \in Seq(E) /\ Len(r) = Len(s) /\ st = Append(r, x)
  BY <1>1, <1>4
<1> HIDE DEF r
<1>6. Len(st) = Len(r) + 1 /\ st[Len(r) + 1] = x /\ \A i \in 1..Len(r) : st[i] = r[i]
  BY <1>5, AppendProperties
<1> QED BY <1>5, <1>6 DEF r

\* The first task of the list is the last of the stack; without it the others stay.
LEMMA StackHead ==
  ASSUME NEW E, NEW s \in Seq(E), s # <<>>
  PROVE  /\ Reverse(s) \in Seq(E) /\ Len(Reverse(s)) = Len(s) /\ Len(s) \in Nat \ {0}
         /\ Head(s) \in E /\ Reverse(s)[Len(s)] = Head(s)
         /\ Tail(s) \in Seq(E) /\ Len(Tail(s)) = Len(s) - 1
         /\ Reverse(Tail(s)) \in Seq(E) /\ Len(Reverse(Tail(s))) = Len(s) - 1
         /\ \A i \in 1..(Len(s) - 1) : Reverse(Tail(s))[i] = Reverse(s)[i]
<1>1. /\ Tail(s) \in Seq(E) /\ Len(Tail(s)) = Len(s) - 1 /\ Head(s) \in E
      /\ Len(s) \in Nat \ {0} /\ s = <<Head(s)>> \o Tail(s)
  BY HeadTailProperties, EmptySeq, LenProperties
<1> DEFINE h == Head(s)
           r == Tail(s)
<1>0. h \in E /\ r \in Seq(E)
  BY <1>1
<1> HIDE DEF h, r
<1>2. s = Cons(h, r) /\ Len(r) = Len(s) - 1 /\ Len(r) + 1 = Len(s)
  BY <1>1 DEF h, r, Cons
<1>3. /\ Reverse(s)[Len(r) + 1] = h
      /\ \A i \in 1..Len(r) : Reverse(s)[i] = Reverse(r)[i]
  BY <1>0, <1>2, StackPush
<1>4. /\ Reverse(r) \in Seq(E) /\ Len(Reverse(r)) = Len(r) /\ Len(r) \in Nat
      /\ Reverse(s) \in Seq(E) /\ Len(Reverse(s)) = Len(s)
  BY <1>0, ReverseType, LenProperties
<1> QED BY <1>1, <1>2, <1>3, <1>4 DEF h, r

-----------------------------------------------------------------------------
(* The steps. *)

\* What is below a path of `tree`.
LEMMA BelowIs ==
  /\ \A p : Below(p) = BelowIn(tree, p) /\ Files(p) = FilesIn(tree, p)
  /\ \A S : Blocks(S) = SumOver(tree.blocks, S)
  /\ Dirs = DirsOf(tree)
<1>1. Dirs = DirsOf(tree)
  BY DEF Dirs, DirsOf
<1>2. ASSUME NEW p PROVE Below(p) = BelowIn(tree, p)
  BY DEF Below, BelowIn, Dirs
<1>3. ASSUME NEW S PROVE Blocks(S) = SumOver(tree.blocks, S)
  BY DEF Blocks, SumOver
<1>4. ASSUME NEW p PROVE Files(p) = FilesIn(tree, p)
  BY <1>2 DEF Files, FilesIn
<1> QED BY <1>1, <1>2, <1>3, <1>4

\* Nothing is in the list, and nothing has been printed.
LEMMA InitEstablishes == Init => IInv
<1> SUFFICES ASSUME Init PROVE IInv
  OBVIOUS
<1>1. TypeInv
  <2>1. IsFiniteSet({})
    BY FS_EmptySet
  <2> QED BY <2>1, InputsAssumption DEF Init, TypeInv, NamesOf
<1>2. LinesInv
  BY DEF Init, LinesInv, Totals, Complete
<1>3. PanicsOnlyOnErrors
  BY DEF Init, PanicsOnlyOnErrors
<1>4. WalkInv
  <2>1. Stack = <<>> /\ tasks = <<>> /\ phase = "run" /\ listing = {}
    BY DEF Init, Stack, Reverse
  <2>2. Parts(tree, <<>>) /\ Chain(tree, <<>>) /\ Filled(tree, <<>>, {}, counted, Paths(printed))
        /\ Apart(tree, <<>>, {}, counted, Paths(printed))
    BY DEF Parts, Chain, Filled, Apart
  <2> QED BY <2>1, <2>2 DEF WalkInv
<1> QED BY <1>1, <1>2, <1>3, <1>4 DEF IInv

\* The list of tasks is a list of tasks from both ends.
LEMMA StackType ==
  ASSUME TypeInv
  PROVE  Stack \in Seq(TaskOf(tree)) /\ Len(Stack) = Len(tasks) /\ Len(tasks) \in Nat
BY ReverseType, LenProperties DEF TypeInv, Stack

\* A new input: the one task is to enter it, and the one size is zero.
LEMMA NextInputKeeps == IInv /\ NextInput => IInv'
<1> SUFFICES ASSUME IInv, NextInput PROVE IInv'
  OBVIOUS
<1> DEFINE path == Last(inputs)
           task == Task(path, TRUE)
           st == <<task>>
<1>0. /\ TypeInv /\ WalkInv /\ PanicsOnlyOnErrors /\ tree \in Trees /\ phase = "run" /\ listing = {}
      /\ tree' = tree /\ phase' = "run" /\ listing' = {} /\ carry' = <<0>> /\ tasks' = st
      /\ printed' = <<>> /\ counted' = {}
  BY DEF IInv, TypeInv, WalkInv, Running, NextInput, environment, RootCarry
<1>1. path \in STRING /\ Front(inputs) \in Seq(STRING)
  <2>1. inputs \in Seq(STRING) /\ inputs # <<>>
    BY DEF IInv, TypeInv, NextInput
  <2>2. Front(inputs) = SubSeq(inputs, 1, Len(inputs) - 1)
    BY DEF Front
  <2>3. Len(inputs) \in 1..Len(inputs)
    BY <2>1, LenProperties, EmptySeq
  <2> QED BY <2>1, <2>2, <2>3, FrontOf, ElementOfSeq DEF Last
<1> HIDE DEF path
<1>2. task \in TaskOf(tree) /\ task.enter
  BY <1>1 DEF Task, TaskOf
<1> HIDE DEF task
<1>3. st \in Seq(TaskOf(tree)) /\ Len(st) = 1 /\ st[1] = task
  BY <1>2
<1>4. Stack' = st
  <2>1. Reverse(st) \in Seq(TaskOf(tree)) /\ Len(Reverse(st)) = 1 /\ Reverse(st)[1] = task
    <3>1. 1 \in 1..1 /\ st[(1 - 1) + 1] = task
      BY <1>3
    <3> QED BY <1>3, <3>1, ReverseType
  <2>2. Reverse(st) = st
    BY <1>3, <2>1
  <2> QED BY <1>0, <2>2 DEF Stack
<1> HIDE DEF st
<1>5. /\ Parts(tree, st) /\ Chain(tree, st) /\ Apart(tree, st, {}, {}, {})
      /\ Filled(tree, st, {}, {}, {})
  <2>1. Parts(tree, st) /\ Chain(tree, st) /\ Filled(tree, st, {}, {}, {})
    BY <1>2, <1>3 DEF Parts, Chain, Filled
  <2>2. Apart(tree, st, {}, {}, {})
    BY <1>2, <1>3 DEF Apart, Untouched
  <2> QED BY <2>1, <2>2
<1>6. Levels(tree, st, <<0>>, 0, 0, {})
  <2> DEFINE at == [k \in 1..0 |-> 1]
             sizes == <<0>>
  <2>1. SumOver(sizes, 1..Len(sizes)) + 0 = SumOver(tree.blocks, {})
    <3>1. sizes[1] = 0 /\ Len(sizes) = 1 /\ 1..1 = {1} /\ {1} \ {1} = {}
      OBVIOUS
    <3> HIDE DEF sizes
    <3>2. IsFiniteSet({}) /\ IsFiniteSet({1})
      BY FS_EmptySet, FS_Singleton
    <3>3. SumOver(sizes, {1}) = sizes[1] + SumOver(sizes, {1} \ {1})
      BY <3>1, <3>2, SumRemove
    <3>4. SumOver(sizes, {}) = 0 /\ SumOver(tree.blocks, {}) = 0
      BY <3>2, SumOfFirst
    <3>5. SumOver(sizes, {1}) = 0
      BY <3>1, <3>3, <3>4
    <3>6. SumOver(sizes, 1..Len(sizes)) = 0
      BY <3>1, <3>5
    <3> QED BY <3>4, <3>6
  <2>2. at \in [1..0 -> 1..Len(st)]
    BY <1>3
  <2> HIDE DEF at, sizes
  <2>3. LevelsAt(tree, st, sizes, 0, 0, {}, at)
    BY <1>2, <1>3, <2>1 DEF LevelsAt
  <2> QED BY <2>2, <2>3 DEF Levels, sizes
<1>7. TypeInv'
  <2>1. IsFiniteSet({}) /\ <<0>> \in Seq(Nat)
    BY FS_EmptySet
  <2>2. /\ exists' = exists /\ size' = size /\ inputs' \in Seq(STRING)
        /\ exists \subseteq NamesOf(tree) /\ size \in Nat
    BY <1>0, <1>1 DEF TypeInv, NextInput, environment
  <2>3. tasks' \in Seq(TaskOf(tree)) /\ carry' \in Seq(Nat) /\ printed' \in Seq(LineOf(tree))
    BY <1>0, <1>3, <2>1
  <2> QED BY <1>0, <2>1, <2>2, <2>3 DEF TypeInv
<1>8. LinesInv'
  BY <1>0 DEF LinesInv, Totals, Complete
<1>9. PanicsOnlyOnErrors'
  BY <1>0 DEF PanicsOnlyOnErrors
<1>10. Paths(printed') = {} /\ Depth' = 0 /\ Open' = 0
  BY <1>0 DEF Paths, Depth, Open
<1>11. WalkInv'
  BY <1>0, <1>4, <1>5, <1>6, <1>10 DEF WalkInv
<1> QED BY <1>7, <1>8, <1>9, <1>11 DEF IInv

\* du ends without tasks.
LEMMA AllDoneKeeps == IInv /\ AllDone => IInv'
<1> SUFFICES ASSUME IInv, AllDone PROVE IInv'
  OBVIOUS
<1>1. TypeInv'
  BY DEF IInv, TypeInv, AllDone, environment
<1>2. LinesInv'
  BY DEF IInv, LinesInv, AllDone, environment
<1> QED BY <1>1, <1>2 DEF IInv, PanicsOnlyOnErrors, Running, AllDone
\* A directory is read: its task becomes its summary, its entries are ahead.
LEMMA ReadDirKeeps == IInv /\ ReadDir => IInv'
<1> SUFFICES ASSUME IInv, ReadDir PROVE IInv'
  OBVIOUS
<1> DEFINE head == Head(tasks)
           path == head.path
           st == Stack
           st2 == Stack'
           n == Len(tasks)
           out == Paths(printed)
<1>0. /\ TypeInv /\ LinesInv /\ WalkInv /\ tree \in Trees /\ tasks \in Seq(TaskOf(tree))
      /\ phase = "run" /\ listing = {} /\ tasks # <<>> /\ head.enter
      /\ tree' = tree /\ exists' = exists /\ phase' = "list" /\ carry' = carry /\ size' = 0
      /\ printed' = printed /\ counted' = counted /\ carry \in Seq(Nat)
      /\ tasks' = <<Task(path, FALSE)>> \o Tail(tasks)
  BY DEF IInv, TypeInv, WalkInv, Running, ReadDir, environment, Summary
<1>1. /\ st \in Seq(TaskOf(tree)) /\ Len(st) = n /\ n \in Nat \ {0}
      /\ head \in TaskOf(tree) /\ st[n] = head
      /\ Tail(tasks) \in Seq(TaskOf(tree)) /\ Len(Tail(tasks)) = n - 1
      /\ \A i \in 1..(n - 1) : Reverse(Tail(tasks))[i] = st[i]
  BY <1>0, StackHead DEF Stack
<1>2. Task(path, FALSE) \in TaskOf(tree) /\ Task(path, FALSE).path = path /\ ~Task(path, FALSE).enter
  BY <1>1 DEF TaskOf, Task
<1>3. /\ tasks' \in Seq(TaskOf(tree)) /\ tasks' # <<>>
      /\ st2 \in Seq(TaskOf(tree)) /\ Len(st2) = n
      /\ st2[n] = Task(path, FALSE) /\ \A i \in 1..(n - 1) : st2[i] = st[i]
  <2> DEFINE r == Tail(tasks)
             x == Task(path, FALSE)
             E == TaskOf(tree)
  <2>1. r \in Seq(E) /\ x \in E /\ Len(r) = n - 1 /\ n \in Nat
    BY <1>1, <1>2
  <2>2. tasks' = Cons(x, r) /\ st2 = Reverse(Cons(x, r))
    BY <1>0 DEF Stack, Cons
  <2> HIDE DEF r, x, E, st2, n
  <2>3. tasks' \in Seq(E) /\ tasks' # <<>> /\ st2 \in Seq(E)
    BY <2>1, <2>2, ConsType
  <2>4. /\ Len(st2) = Len(r) + 1 /\ st2[Len(r) + 1] = x
        /\ \A i \in 1..Len(r) : st2[i] = Reverse(r)[i]
    BY <2>1, <2>2, StackPush
  <2>5. Len(r) + 1 = n
    BY <2>1
  <2> QED BY <1>1, <2>1, <2>3, <2>4, <2>5 DEF r, x, E, n
<1> HIDE DEF st, st2, n, out, head
<1>4. Entered(tree, st, st2) /\ st[Len(st)] = head
  BY <1>0, <1>1, <1>2, <1>3 DEF Entered
<1>5. /\ Parts(tree, st) /\ Chain(tree, st) /\ Apart(tree, st, {}, counted, out)
      /\ Levels(tree, st, carry, Len(carry) - 1, 0, counted)
      /\ Whole(tree, exists, missed) => Filled(tree, st, {}, counted, out)
  BY <1>0 DEF WalkInv, Depth, Open, st, out
<1>6. \/ path \in DirsOf(tree) /\ listing' = tree.children[path] \cap exists /\ missed' = missed
      \/ listing' = {} /\ missed' # {}
  BY <1>0 DEF ReadDir, Existing, Dirs, DirsOf, head
<1>7. /\ Reading(tree, st2, listing') /\ Parts(tree, st2) /\ Chain(tree, st2)
      /\ Apart(tree, st2, listing', counted, out)
  <2>1. listing' # {} => st[Len(st)].path \in DirsOf(tree)
                           /\ listing' \subseteq tree.children[st[Len(st)].path]
    BY <1>4, <1>6
  <2> QED BY <1>0, <1>4, <1>5, <2>1, EnterKeepsOrder
<1>8. Levels(tree, st2, carry, Len(carry), 0, counted)
  <2>1. Len(carry) - 1 \in Nat /\ Len(carry) \in Nat
    BY <1>0, <1>5, LenProperties DEF Levels
  <2>2. Levels(tree, st2, carry, (Len(carry) - 1) + 1, 0, counted)
    BY <1>0, <1>4, <1>5, <2>1, EnterKeepsTotals
  <2>3. (Len(carry) - 1) + 1 = Len(carry)
    BY <2>1
  <2> QED BY <2>2, <2>3
<1>9. Whole(tree, exists, missed') =>
        Whole(tree, exists, missed) /\ Filled(tree, st2, listing', counted, out)
  <2> SUFFICES ASSUME Whole(tree, exists, missed')
               PROVE  Whole(tree, exists, missed) /\ Filled(tree, st2, listing', counted, out)
    OBVIOUS
  <2>1. /\ path \in DirsOf(tree) /\ listing' = tree.children[path] \cap exists /\ missed' = missed
        /\ exists = NamesOf(tree)
    BY <1>6 DEF Whole
  <2>2. listing' = tree.children[st[Len(st)].path] /\ st[Len(st)].path \in DirsOf(tree)
    BY <1>0, <1>4, <2>1, TreeShape
  <2>3. Whole(tree, exists, missed)
    BY <2>1
  <2> QED BY <1>0, <1>4, <1>5, <2>2, <2>3, EnterKeepsFilled
<1>10. listing' \subseteq NamesOf(tree)
  BY <1>0, <1>6, TreeShape
<1>11. TypeInv'
  BY <1>0, <1>3, <1>10 DEF TypeInv, ReadDir
<1>12. LinesInv'
  BY <1>0, <1>9 DEF LinesInv
<1>13. PanicsOnlyOnErrors'
  BY <1>0 DEF PanicsOnlyOnErrors
<1>14. WalkInv'
  <2>1. Depth' = Len(carry) /\ Open' = 0
    BY <1>0 DEF Depth, Open
  <2> QED BY <1>0, <1>7, <1>8, <1>9, <2>1 DEF WalkInv, st2, out
<1> QED BY <1>11, <1>12, <1>13, <1>14 DEF IInv

\* The state in the loop over the entries, for the steps of the loop.
LEMMA Looping ==
  ASSUME IInv, phase = "list"
  PROVE  /\ tree \in Trees /\ Stack \in Seq(TaskOf(tree)) /\ tasks \in Seq(TaskOf(tree))
         /\ Len(Stack) = Len(tasks) /\ Len(tasks) \in Nat /\ tasks # <<>>
         /\ carry \in Seq(Nat) /\ size \in Nat /\ listing \subseteq NamesOf(tree)
         /\ counted \in SUBSET DOMAIN tree.blocks /\ IsFiniteSet(counted)
         /\ Reading(tree, Stack, listing) /\ Parts(tree, Stack) /\ Chain(tree, Stack)
         /\ Apart(tree, Stack, listing, counted, Paths(printed))
         /\ Levels(tree, Stack, carry, Len(carry), size, counted)
         /\ Whole(tree, exists, missed) => Filled(tree, Stack, listing, counted, Paths(printed))
         /\ \A e \in listing : Looked(tree, Stack, listing, counted, Paths(printed), e)
<1>1. TypeInv /\ WalkInv
  BY DEF IInv, Running
<1>2. Stack \in Seq(TaskOf(tree)) /\ Len(Stack) = Len(tasks) /\ Len(tasks) \in Nat
  BY <1>1, StackType
<1>3. tasks # <<>>
  <2>1. PICK i \in 1..Len(Stack) : TRUE
    BY <1>1 DEF WalkInv, Reading
  <2> QED BY <1>2, <2>1
<1>4. Depth = Len(carry) /\ Open = size
  BY DEF Depth, Open
<1>5. \A e \in listing : Looked(tree, Stack, listing, counted, Paths(printed), e)
  BY <1>1, <1>2 DEF WalkInv, Looked
<1> QED BY <1>1, <1>2, <1>3, <1>4, <1>5 DEF TypeInv, WalkInv
\* A directory becomes the first task.
LEMMA DirectoryKeeps == \A e \in Dirs : IInv /\ Entry(e) => IInv'
<1> SUFFICES ASSUME NEW e \in Dirs, IInv, Entry(e) PROVE IInv'
  OBVIOUS
<1> DEFINE task == Task(e, TRUE)
           st == Stack
           st2 == Stack'
           out == Paths(printed)
<1>0. /\ TypeInv /\ LinesInv /\ phase = "list" /\ e \in listing /\ e \in DirsOf(tree)
      /\ tasks' = <<task>> \o tasks /\ listing' = listing \ {e}
      /\ tree' = tree /\ exists' = exists /\ phase' = "list" /\ carry' = carry /\ size' = size
      /\ printed' = printed /\ counted' = counted /\ missed' = missed /\ inputs' = inputs
  BY DEF IInv, Entry, environment, Dirs, DirsOf
<1>1. /\ tree \in Trees /\ st \in Seq(TaskOf(tree)) /\ tasks \in Seq(TaskOf(tree))
      /\ Len(st) = Len(tasks) /\ Len(tasks) \in Nat /\ listing \subseteq NamesOf(tree)
      /\ Levels(tree, st, carry, Len(carry), size, counted)
      /\ Whole(tree, exists, missed) => Filled(tree, st, listing, counted, out)
      /\ Looked(tree, st, listing, counted, out, e)
  BY <1>0, Looping
<1>2. task \in TaskOf(tree) /\ task.path = e /\ task.enter
  BY <1>0, <1>1 DEF TaskOf, Task
<1> HIDE DEF task
<1>3. /\ tasks' \in Seq(TaskOf(tree)) /\ st2 \in Seq(TaskOf(tree)) /\ Len(st2) = Len(st) + 1
      /\ st2[Len(st) + 1] = task /\ \A i \in 1..Len(st) : st2[i] = st[i]
  <2> DEFINE E == TaskOf(tree)
  <2>1. tasks \in Seq(E) /\ task \in E
    BY <1>1, <1>2
  <2>2. tasks' = Cons(task, tasks) /\ st2 = Reverse(Cons(task, tasks)) /\ st = Reverse(tasks)
    BY <1>0 DEF Stack, Cons
  <2> HIDE DEF E, st, st2
  <2>3. tasks' \in Seq(E) /\ st2 \in Seq(E)
    BY <2>1, <2>2, ConsType
  <2>4. /\ Len(st2) = Len(tasks) + 1 /\ st2[Len(tasks) + 1] = task
        /\ \A i \in 1..Len(tasks) : st2[i] = Reverse(tasks)[i]
    BY <2>1, <2>2, StackPush
  <2> QED BY <1>1, <2>2, <2>3, <2>4 DEF E
<1> HIDE DEF st, st2, out
<1>4. Pushed(tree, st, e, st2)
  BY <1>2, <1>3 DEF Pushed
<1>5. /\ Reading(tree, st2, listing') /\ Parts(tree, st2) /\ Chain(tree, st2)
      /\ Apart(tree, st2, listing', counted, out)
  BY <1>0, <1>1, <1>4, PushKeepsOrder
<1>6. Levels(tree, st2, carry, Len(carry), size, counted)
  BY <1>1, <1>4, PushKeepsTotals
<1>7. Whole(tree, exists, missed) => Filled(tree, st2, listing', counted, out)
  BY <1>0, <1>1, <1>4, PushKeepsFilled
<1>8. TypeInv'
  BY <1>0, <1>3 DEF TypeInv
<1>9. LinesInv' /\ PanicsOnlyOnErrors'
  BY <1>0 DEF LinesInv, PanicsOnlyOnErrors
<1>10. WalkInv'
  <2>1. Depth' = Len(carry) /\ Open' = size
    BY <1>0 DEF Depth, Open
  <2> QED BY <1>0, <1>5, <1>6, <1>7, <2>1 DEF WalkInv, st2, out
<1> QED BY <1>8, <1>9, <1>10 DEF IInv

\* A file is added to the size.
LEMMA FileKeeps == \A e \in listing \ Dirs : IInv /\ Entry(e) => IInv'
<1> SUFFICES ASSUME NEW e \in listing \ Dirs, IInv, Entry(e) PROVE IInv'
  OBVIOUS
<1> DEFINE st == Stack
           out == Paths(printed)
<1>0. /\ TypeInv /\ LinesInv /\ phase = "list" /\ e \in listing /\ e \notin DirsOf(tree)
      /\ size' = size + tree.blocks[e] /\ counted' = counted \cup {e} /\ listing' = listing \ {e}
      /\ tree' = tree /\ exists' = exists /\ phase' = "list" /\ carry' = carry /\ tasks' = tasks
      /\ printed' = printed /\ missed' = missed /\ inputs' = inputs
  BY DEF IInv, Entry, environment, Dirs, DirsOf
<1>1. /\ tree \in Trees /\ listing \subseteq NamesOf(tree) /\ carry \in Seq(Nat) /\ size \in Nat
      /\ counted \in SUBSET DOMAIN tree.blocks /\ IsFiniteSet(counted)
      /\ Reading(tree, st, listing) /\ Parts(tree, st) /\ Chain(tree, st)
      /\ Apart(tree, st, listing, counted, out)
      /\ Levels(tree, st, carry, Len(carry), size, counted)
      /\ Whole(tree, exists, missed) => Filled(tree, st, listing, counted, out)
      /\ Looked(tree, st, listing, counted, out, e)
  BY <1>0, Looping
<1>2. e \in DOMAIN tree.blocks /\ tree.blocks[e] \in Nat /\ printed \in Seq(LineOf(tree))
  BY <1>0, <1>1, TreeShape DEF NamesOf, DirsOf, TypeInv
<1>3. Stack' = st
  BY <1>0 DEF Stack
<1> HIDE DEF st, out
<1>4. Reading(tree, st, listing') /\ Apart(tree, st, listing', counted', out)
  BY <1>0, <1>1, FewerAhead, FileKeepsOrder
<1>5. Levels(tree, st, carry, Len(carry), size', counted')
  BY <1>0, <1>1, <1>2, FileKeepsTotals
<1>6. Whole(tree, exists, missed) => Filled(tree, st, listing', counted', out)
  BY <1>0, <1>1, <1>2, FileKeepsFilled
<1>7. TypeInv'
  <2>1. IsFiniteSet(counted \cup {e})
    BY <1>1, FS_AddElement
  <2>2. size + tree.blocks[e] \in Nat
    BY <1>1, <1>2
  <2> QED BY <1>0, <1>1, <1>2, <2>1, <2>2 DEF TypeInv
<1>8. LinesInv'
  <2>1. /\ Totals(tree, printed, counted) => Totals(tree, printed, counted')
        /\ Complete(tree, printed, counted) => Complete(tree, printed, counted')
    BY <1>0, <1>1, <1>2, FileKeepsLines DEF out
  <2> QED BY <1>0, <2>1 DEF LinesInv
<1>9. PanicsOnlyOnErrors'
  BY <1>0 DEF PanicsOnlyOnErrors
<1>10. WalkInv'
  <2>1. Depth' = Len(carry) /\ Open' = size'
    BY <1>0 DEF Depth, Open
  <2> QED BY <1>0, <1>1, <1>3, <1>4, <1>5, <1>6, <2>1 DEF WalkInv, out
<1> QED BY <1>7, <1>8, <1>9, <1>10 DEF IInv

\* An entry is passed over, with a message.
LEMMA EntryFailsKeeps == \A e \in listing : IInv /\ EntryFails(e) => IInv'
<1> SUFFICES ASSUME NEW e \in listing, IInv, EntryFails(e) PROVE IInv'
  OBVIOUS
<1>0. /\ TypeInv /\ LinesInv /\ phase = "list"
      /\ listing' = listing \ {e} /\ missed' # {} /\ listing' \subseteq listing
      /\ tree' = tree /\ exists' = exists /\ phase' = "list" /\ carry' = carry /\ tasks' = tasks
      /\ printed' = printed /\ inputs' = inputs /\ size' = size /\ counted' = counted
  BY DEF IInv, EntryFails, environment
<1>1. /\ tree \in Trees /\ listing \subseteq NamesOf(tree)
      /\ Reading(tree, Stack, listing) /\ Parts(tree, Stack) /\ Chain(tree, Stack)
      /\ Apart(tree, Stack, listing, counted, Paths(printed))
      /\ Levels(tree, Stack, carry, Len(carry), size, counted)
  BY <1>0, Looping
<1>2. Reading(tree, Stack, listing') /\ Apart(tree, Stack, listing', counted, Paths(printed))
  BY <1>0, <1>1, FewerAhead
<1>3. ~Whole(tree, exists', missed')
  BY <1>0 DEF Whole
<1>4. TypeInv'
  BY <1>0, <1>1 DEF TypeInv
<1>5. LinesInv' /\ PanicsOnlyOnErrors'
  BY <1>0, <1>3 DEF LinesInv, PanicsOnlyOnErrors
<1>6. WalkInv'
  <2>1. Depth' = Len(carry) /\ Open' = size /\ Stack' = Stack
    BY <1>0 DEF Depth, Open, Stack
  <2> QED BY <1>0, <1>1, <1>2, <1>3, <2>1 DEF WalkInv
<1> QED BY <1>4, <1>5, <1>6 DEF IInv

\* The panic is about an entry that has been removed, or cannot be looked at.
LEMMA EntryPanicsKeeps == \A e \in listing : IInv /\ EntryPanics(e) => IInv'
<1> SUFFICES ASSUME NEW e \in listing, IInv, EntryPanics(e) PROVE IInv'
  OBVIOUS
<1>1. TypeInv'
  BY DEF IInv, TypeInv, EntryPanics, environment
<1>2. LinesInv'
  BY DEF IInv, LinesInv, EntryPanics, environment
<1>3. PanicsOnlyOnErrors' /\ ~Running'
  BY DEF PanicsOnlyOnErrors, EntryPanics, environment, Running
<1> QED BY <1>1, <1>2, <1>3 DEF IInv

\* A message that nobody reads.
LEMMA MessagePanicsKeeps == IInv /\ MessagePanics => IInv'
<1> SUFFICES ASSUME IInv, MessagePanics PROVE IInv'
  OBVIOUS
<1>1. TypeInv'
  BY DEF IInv, TypeInv, MessagePanics, environment
<1>2. LinesInv'
  BY DEF IInv, LinesInv, MessagePanics, environment
<1>3. PanicsOnlyOnErrors' /\ ~Running'
  BY DEF PanicsOnlyOnErrors, MessagePanics, environment, Running
<1> QED BY <1>1, <1>2, <1>3 DEF IInv

\* The size of the directory goes on the stack.
LEMMA EndOfEntriesKeeps == IInv /\ EndOfEntries => IInv'
<1> SUFFICES ASSUME IInv, EndOfEntries PROVE IInv'
  OBVIOUS
<1>0. /\ TypeInv /\ LinesInv /\ phase = "list" /\ listing = {} /\ listing' = {}
      /\ carry' = Append(carry, size) /\ phase' = "run"
      /\ tree' = tree /\ exists' = exists /\ tasks' = tasks /\ missed' = missed
      /\ printed' = printed /\ inputs' = inputs /\ size' = size /\ counted' = counted
  BY DEF IInv, EndOfEntries, environment
<1>1. /\ tree \in Trees /\ carry \in Seq(Nat) /\ size \in Nat
      /\ Parts(tree, Stack) /\ Chain(tree, Stack)
      /\ Apart(tree, Stack, listing, counted, Paths(printed))
      /\ Levels(tree, Stack, carry, Len(carry), size, counted)
      /\ Whole(tree, exists, missed) => Filled(tree, Stack, listing, counted, Paths(printed))
  BY <1>0, Looping
<1>2. Levels(tree, Stack, carry', Len(carry), 0, counted)
  BY <1>0, <1>1, EndKeepsTotals
<1>3. carry' \in Seq(Nat) /\ Len(carry') - 1 = Len(carry)
  BY <1>0, <1>1, AppendProperties, LenProperties
<1>4. TypeInv'
  BY <1>0, <1>3 DEF TypeInv
<1>5. LinesInv' /\ PanicsOnlyOnErrors'
  BY <1>0 DEF LinesInv, PanicsOnlyOnErrors
<1>6. WalkInv'
  <2>1. Depth' = Len(carry) /\ Open' = 0 /\ Stack' = Stack
    BY <1>0, <1>3 DEF Depth, Open, Stack
  <2> QED BY <1>0, <1>1, <1>2, <2>1 DEF WalkInv
<1> QED BY <1>4, <1>5, <1>6 DEF IInv
\* A summary: the last size is the total of the directory, and its parent gets it.
LEMMA SummarizeKeeps == IInv /\ Summarize => IInv'
<1> SUFFICES ASSUME IInv, Summarize PROVE IInv'
  OBVIOUS
<1> DEFINE head == Head(tasks)
           rest == Tail(tasks)
           st == Stack
           st2 == Reverse(rest)
           n == Len(tasks)
           out == Paths(printed)
           line == [path |-> head.path, total |-> Last(carry)]
<1>0. /\ TypeInv /\ LinesInv /\ WalkInv /\ tree \in Trees /\ tasks \in Seq(TaskOf(tree))
      /\ phase = "run" /\ listing = {} /\ tasks # <<>> /\ ~head.enter
      /\ tree' = tree /\ exists' = exists /\ listing' = {} /\ size' = size /\ missed' = missed
      /\ counted' = counted /\ inputs' = inputs /\ closed' = closed
      /\ carry \in Seq(Nat) /\ printed \in Seq(LineOf(tree))
  BY DEF IInv, TypeInv, WalkInv, Running, Summarize, environment
<1>1. /\ st \in Seq(TaskOf(tree)) /\ Len(st) = n /\ n \in Nat \ {0}
      /\ head \in TaskOf(tree) /\ st[n] = head
      /\ rest \in Seq(TaskOf(tree)) /\ st2 \in Seq(TaskOf(tree)) /\ Len(st2) = n - 1
      /\ \A i \in 1..(n - 1) : st2[i] = st[i]
  BY <1>0, StackHead DEF Stack
<1> HIDE DEF st, st2, n, out, head, rest
<1>2. Popped(tree, st, st2) /\ st[Len(st)] = head
  BY <1>0, <1>1 DEF Popped
<1>3. /\ Parts(tree, st) /\ Chain(tree, st) /\ Apart(tree, st, {}, counted, out)
      /\ Levels(tree, st, carry, Len(carry) - 1, 0, counted)
      /\ Whole(tree, exists, missed) => Filled(tree, st, {}, counted, out)
  BY <1>0 DEF WalkInv, Depth, Open, st, out
<1> DEFINE less == Carried(Front(carry), Last(carry))
<1>4. /\ Len(carry) >= 2 /\ Len(carry) \in Nat
      /\ Last(carry) = TotalIn(tree, counted, head.path)
      /\ Levels(tree, st2, less, Len(carry) - 2, 0, counted)
      /\ less \in Seq(Nat) /\ Len(less) = Len(carry) - 1
  <2>1. Levels(tree, st, carry, Len(carry) - 1, 0, counted) /\ carry \in Seq(Nat)
    BY <1>0, <1>3
  <2>2. Len(carry) >= 2 /\ Len(carry) \in Nat
    BY <1>0, <1>2, <2>1, PopKeepsTotals, Zenon
  <2>3. Last(carry) = TotalIn(tree, counted, st[Len(st)].path)
    BY <1>0, <1>2, <2>1, PopKeepsTotals
  <2>4. Levels(tree, st2, less, Len(carry) - 2, 0, counted)
    BY <1>0, <1>2, <2>1, PopKeepsTotals
  <2>5. less \in Seq(Nat) /\ Len(less) = Len(carry) - 1
    BY <1>0, <1>2, <2>1, PopKeepsTotals
  <2> QED BY <1>2, <2>2, <2>3, <2>4, <2>5
<1>5. Last(carry) \in Nat
  <2>1. Last(carry) = carry[Len(carry)] /\ Len(carry) \in 1..Len(carry)
    BY <1>4 DEF Last
  <2> QED BY <1>0, <2>1, ElementOfSeq
<1> HIDE DEF less
<1>6. CASE "stdout" \in closed
  <2>1. phase' = "panicked" /\ tasks' = tasks /\ carry' = carry /\ printed' = printed
    BY <1>6 DEF Summarize
  <2>2. TypeInv' /\ LinesInv'
    BY <1>0, <2>1 DEF TypeInv, LinesInv
  <2>3. PanicsOnlyOnErrors' /\ ~Running'
    BY <1>0, <1>6, <2>1 DEF PanicsOnlyOnErrors, Running
  <2> QED BY <2>2, <2>3 DEF IInv
<1>7. CASE "stdout" \notin closed
  <2>1. /\ printed' = Append(printed, line) /\ carry' = less /\ tasks' = rest /\ phase' = "run"
    BY <1>0, <1>4, <1>7 DEF Summarize, less, rest, head
  <2>2. line \in LineOf(tree) /\ line.path = head.path /\ line.total = Last(carry)
    BY <1>1, <1>5 DEF LineOf, TaskOf
  <2> HIDE DEF line
  <2>3. /\ Parts(tree, st2) /\ Chain(tree, st2)
        /\ Apart(tree, st2, {}, counted, out \cup {head.path})
    BY <1>0, <1>2, <1>3, PopKeepsOrder
  <2>4. Whole(tree, exists, missed) => Filled(tree, st2, {}, counted, out \cup {head.path})
    BY <1>0, <1>2, <1>3, PopKeepsFilled
  <2>5. /\ Totals(tree, printed', counted)
        /\ Whole(tree, exists, missed) => Complete(tree, printed', counted)
        /\ Paths(printed') = out \cup {head.path}
    <3>1. /\ Totals(tree, printed, counted)
          /\ Whole(tree, exists, missed) => Complete(tree, printed, counted)
      BY <1>0 DEF LinesInv
    <3>2. line.total = SumOver(tree.blocks, counted \cap FilesIn(tree, line.path))
      BY <1>4, <1>5, <2>2 DEF TotalIn
    <3>3. /\ line.path = st[Len(st)].path
          /\ Apart(tree, st, {}, counted, Paths(printed))
      BY <1>2, <1>3, <2>2 DEF out
    <3>4. /\ Totals(tree, Append(printed, line), counted)
          /\ Filled(tree, st, {}, counted, Paths(printed)) /\ Complete(tree, printed, counted)
               => Complete(tree, Append(printed, line), counted)
          /\ Paths(Append(printed, line)) = Paths(printed) \cup {st[Len(st)].path}
      <4>1. Totals(tree, Append(printed, line), counted)
        BY <1>0, <1>2, <2>2, <3>1, <3>2, <3>3, PopKeepsLines
      <4>2. Filled(tree, st, {}, counted, Paths(printed)) /\ Complete(tree, printed, counted)
              => Complete(tree, Append(printed, line), counted)
        BY <1>0, <1>2, <2>2, <3>1, <3>2, <3>3, PopKeepsLines
      <4>3. Paths(Append(printed, line)) = Paths(printed) \cup {line.path}
        BY <1>0, <2>2, OneMorePath
      <4> QED BY <3>3, <4>1, <4>2, <4>3
    <3> QED BY <1>2, <1>3, <2>1, <3>1, <3>4 DEF out
  <2>6. TypeInv'
    <3>1. printed' \in Seq(LineOf(tree))
      BY <1>0, <2>1, <2>2, AppendProperties
    <3> QED BY <1>0, <1>1, <1>4, <2>1, <3>1 DEF TypeInv
  <2>7. LinesInv' /\ PanicsOnlyOnErrors'
    BY <1>0, <2>1, <2>5 DEF LinesInv, PanicsOnlyOnErrors
  <2>8. WalkInv'
    <3>1. Stack' = st2
      BY <2>1 DEF Stack, st2
    <3>2. Depth' = Len(carry) - 2 /\ Open' = 0
      BY <1>4, <2>1 DEF Depth, Open
    <3> QED BY <1>0, <1>4, <2>1, <2>3, <2>4, <2>5, <3>1, <3>2 DEF WalkInv
  <2> QED BY <2>6, <2>7, <2>8 DEF IInv
<1> QED BY <1>6, <1>7

\* What is removed has been passed over, whatever comes of it.
LEMMA UnlinkKeeps == \A e \in exists : IInv /\ Unlink(e) => IInv'
<1> SUFFICES ASSUME NEW e \in exists, IInv, Unlink(e) PROVE IInv'
  OBVIOUS
<1>0. /\ TypeInv /\ LinesInv /\ Running /\ WalkInv /\ exists' = exists \ {e} /\ e \in NamesOf(tree)
      /\ tree' = tree /\ phase' = phase /\ listing' = listing /\ carry' = carry /\ tasks' = tasks
      /\ printed' = printed /\ inputs' = inputs /\ size' = size /\ counted' = counted
  BY DEF IInv, Unlink, TypeInv
<1>1. ~Whole(tree, exists', missed')
  BY <1>0 DEF Whole
<1>2. TypeInv'
  BY <1>0 DEF TypeInv
<1>3. LinesInv' /\ PanicsOnlyOnErrors'
  BY <1>0, <1>1 DEF LinesInv, PanicsOnlyOnErrors, Running
<1>4. WalkInv'
  <2>1. Depth' = Depth /\ Open' = Open /\ Stack' = Stack
    BY <1>0 DEF Depth, Open, Stack
  <2> QED BY <1>0, <1>1, <2>1 DEF WalkInv
<1> QED BY <1>2, <1>3, <1>4 DEF IInv

\* The reader of the output is only of concern to the panics.
LEMMA ReaderQuitsKeeps == IInv /\ ReaderQuits => IInv'
<1> SUFFICES ASSUME IInv, ReaderQuits PROVE IInv'
  OBVIOUS
<1>0. /\ TypeInv /\ LinesInv /\ Running /\ WalkInv /\ exists' = exists /\ missed' = missed
      /\ tree' = tree /\ phase' = phase /\ listing' = listing /\ carry' = carry /\ tasks' = tasks
      /\ printed' = printed /\ inputs' = inputs /\ size' = size /\ counted' = counted
      /\ closed' # {}
  BY DEF IInv, ReaderQuits
<1>1. TypeInv'
  BY <1>0 DEF TypeInv
<1>2. LinesInv' /\ PanicsOnlyOnErrors'
  BY <1>0 DEF LinesInv, PanicsOnlyOnErrors
<1>3. WalkInv'
  <2>1. Depth' = Depth /\ Open' = Open /\ Stack' = Stack
    BY <1>0 DEF Depth, Open, Stack
  <2> QED BY <1>0, <2>1 DEF WalkInv
<1> QED BY <1>1, <1>2, <1>3 DEF IInv

\* Nothing changes.
LEMMA StutterKeeps == IInv /\ UNCHANGED vars => IInv'
<1> SUFFICES ASSUME IInv, UNCHANGED vars PROVE IInv'
  OBVIOUS
<1>0. /\ exists' = exists /\ missed' = missed /\ closed' = closed
      /\ tree' = tree /\ phase' = phase /\ listing' = listing /\ carry' = carry /\ tasks' = tasks
      /\ printed' = printed /\ inputs' = inputs /\ size' = size /\ counted' = counted
  BY DEF vars, environment
<1>1. TypeInv' /\ LinesInv' /\ PanicsOnlyOnErrors' /\ Running' = Running
  BY <1>0 DEF TypeInv, LinesInv, IInv, PanicsOnlyOnErrors, Running
<1>2. ASSUME Running PROVE WalkInv'
  <2>1. Depth' = Depth /\ Open' = Open /\ Stack' = Stack /\ WalkInv
    BY <1>0, <1>2 DEF Depth, Open, Stack, IInv
  <2> QED BY <1>0, <2>1 DEF WalkInv
<1> QED BY <1>1, <1>2 DEF IInv

\* The invariant holds in every state of every behaviour: the types, the lines that have
\* been printed, the panics, and the fit of the stack of sizes and the list of tasks.
THEOREM Invariance == Spec => []IInv
<1>1. ASSUME IInv, [Next]_vars PROVE IInv'
  <2>1. CASE NextInput
    BY <1>1, <2>1, NextInputKeeps
  <2>2. CASE AllDone
    BY <1>1, <2>2, AllDoneKeeps
  <2>3. CASE ReadDir
    BY <1>1, <2>3, ReadDirKeeps
  <2>4. CASE EndOfEntries
    BY <1>1, <2>4, EndOfEntriesKeeps
  <2>5. CASE Summarize
    BY <1>1, <2>5, SummarizeKeeps
  <2>6. ASSUME NEW e \in listing, Entry(e) PROVE IInv'
    <3>1. CASE e \in Dirs
      BY <1>1, <2>6, <3>1, DirectoryKeeps
    <3>2. CASE e \notin Dirs
      BY <1>1, <2>6, <3>2, FileKeeps
    <3> QED BY <3>1, <3>2
  <2>7. ASSUME NEW e \in listing, EntryFails(e) PROVE IInv'
    BY <1>1, <2>7, EntryFailsKeeps
  <2>8. ASSUME NEW e \in listing, EntryPanics(e) PROVE IInv'
    BY <1>1, <2>8, EntryPanicsKeeps
  <2>9. ASSUME NEW e \in exists, Unlink(e) PROVE IInv'
    BY <1>1, <2>9, UnlinkKeeps
  <2>10. CASE ReaderQuits
    BY <1>1, <2>10, ReaderQuitsKeeps
  <2>11. CASE UNCHANGED vars
    BY <1>1, <2>11, StutterKeeps
  <2>12. CASE MessagePanics
    BY <1>1, <2>12, MessagePanicsKeeps
  <2> QED BY <1>1, <2>1, <2>2, <2>3, <2>4, <2>5, <2>6, <2>7, <2>8, <2>9, <2>10, <2>11, <2>12
          DEF Next, Ended
<1> QED BY <1>1, InitEstablishes, PTL DEF Spec

-----------------------------------------------------------------------------
(* The properties. *)

\* Every total is the sum over the files below the path that were counted, of all of
\* them if nothing is missing, and directories come after everything below them.
THEOREM PrintedTotals == Spec => []TotalsAreSums
<1>1. ASSUME IInv PROVE TotalsAreSums
  <2>1. /\ tree \in Trees /\ printed \in Seq(LineOf(tree)) /\ DOMAIN printed = 1..Len(printed)
        /\ Totals(tree, printed, counted)
        /\ Whole(tree, exists, missed) => Complete(tree, printed, counted)
    BY <1>1 DEF IInv, TypeInv, LinesInv
  <2>2. missed = {} /\ exists = Dirs \cup DOMAIN tree.blocks => Whole(tree, exists, missed)
    BY DEF Whole, NamesOf, Dirs
  <2>3. ASSUME NEW i \in 1..Len(printed)
        PROVE  LET path == printed[i].path
               IN  /\ printed[i].total = Blocks(counted \cap Files(path))
                   /\ missed = {} /\ exists = Dirs \cup DOMAIN tree.blocks =>
                        counted \cap Files(path) = Files(path)
                   /\ \A k \in (i + 1)..Len(printed) : printed[k].path \notin {path} \cup Below(path)
                   /\ missed = {} /\ exists = Dirs \cup DOMAIN tree.blocks =>
                        \A d \in Below(path) \cap Dirs : \E k \in 1..(i - 1) : printed[k].path = d
    <3> DEFINE path == printed[i].path
    <3>1. /\ Below(path) = BelowIn(tree, path) /\ Files(path) = FilesIn(tree, path)
          /\ Blocks(counted \cap Files(path)) = SumOver(tree.blocks, counted \cap Files(path))
          /\ Dirs = DirsOf(tree)
      BY BelowIs
    <3>2. printed[i].total = Blocks(counted \cap Files(path))
      BY <2>1, <3>1 DEF Totals
    <3>3. \A k \in (i + 1)..Len(printed) : printed[k].path \notin {path} \cup Below(path)
      BY <2>1, <3>1 DEF Totals, InsideIn
    <3>4. Complete(tree, printed, counted) =>
            /\ counted \cap Files(path) = Files(path)
            /\ \A d \in Below(path) \cap Dirs : \E k \in 1..(i - 1) : printed[k].path = d
      BY <3>1 DEF Complete
    <3> QED BY <2>1, <2>2, <3>2, <3>3, <3>4
  <2> QED BY <2>1, <2>3 DEF TotalsAreSums
<1> QED BY <1>1, Invariance, PTL

\* An entry that is gone or cannot be looked at, or an output that cannot be written,
\* is behind every panic.
THEOREM Panics == Spec => []PanicsOnlyOnErrors
<1>1. IInv => PanicsOnlyOnErrors
  BY DEF IInv
<1> QED BY <1>1, Invariance, PTL

\* The summaries that are due, counted.
LEMMA DueCounted ==
  ASSUME NEW n \in Nat, NEW depth \in Nat, NEW at \in [1..depth -> 1..n], NEW due,
         \A k, l \in 1..depth : k < l => at[k] < at[l],
         \A i \in due : \E k \in 1..depth : n - at[k] + 1 = i,
         \A k \in 1..depth : n - at[k] + 1 \in due
  PROVE  Cardinality(due) = depth
<1> DEFINE f == [k \in 1..depth |-> n - at[k] + 1]
<1>1. \A k \in 1..depth : at[k] \in Int /\ k \in Int
  OBVIOUS
<1>2. f \in [1..depth -> due] /\ \A y \in due : \E k \in 1..depth : f[k] = y
  OBVIOUS
<1>3. ASSUME NEW k \in 1..depth, NEW l \in 1..depth, f[k] = f[l] PROVE k = l
  <2>1. at[k] = at[l]
    BY <1>1, <1>3
  <2>2. ~(k < l) /\ ~(l < k)
    BY <1>1, <2>1
  <2> QED BY <1>1, <2>2
<1> HIDE DEF f
<1>4. f \in Bijection(1..depth, due)
  BY <1>2, <1>3 DEF Bijection, Injection, IsInjective, Surjection
<1>5. ExistsBijection(1..depth, due)
  BY <1>4 DEF ExistsBijection
<1> QED BY <1>5, FS_CountingElements

\* The sizes fit the tasks, and the tasks the tree.
THEOREM StackFits == Spec => []CarryFollowsTasks
<1>1. ASSUME IInv, Running, tasks # <<>> PROVE CarryFollowsTasks
  <2> DEFINE n == Len(tasks)
             due == {i \in DOMAIN tasks : ~tasks[i].enter}
             open == IF phase = "list" THEN 1 ELSE 0
  <2>1. /\ TypeInv /\ WalkInv /\ tree \in Trees /\ tasks \in Seq(TaskOf(tree)) /\ n \in Nat
        /\ carry \in Seq(Nat) /\ Len(carry) \in Nat /\ size \in Nat
        /\ DOMAIN tasks = 1..n /\ DOMAIN carry = 1..Len(carry)
    BY <1>1, LenProperties DEF IInv, TypeInv
  <2>2. Len(Stack) = n /\ \A i \in 1..n : Stack[i] = tasks[n - i + 1]
    BY <2>1, ReverseType DEF Stack
  <2> HIDE DEF n
  <2>3. \A i \in 1..n : n - i + 1 \in 1..n /\ n - (n - i + 1) + 1 = i /\ tasks[i] = Stack[n - i + 1]
    BY <2>1, <2>2
  <2>4. Depth \in Nat
    BY <1>1, <2>1 DEF WalkInv, Levels
  <2> PICK at \in [1..Depth -> 1..n] : LevelsAt(tree, Stack, carry, Depth, Open, counted, at)
    BY <1>1, <2>1, <2>2 DEF WalkInv, Levels
  <2>5. Len(carry) = Cardinality(due) + 1 - open
    <3>1. /\ \A i \in due : \E k \in 1..Depth : n - at[k] + 1 = i
          /\ \A k \in 1..Depth : n - at[k] + 1 \in due
      <4>1. {i \in 1..n : ~Stack[i].enter} = {at[k] : k \in 1..Depth}
        BY <2>2 DEF LevelsAt
      <4>2. ASSUME NEW i \in due PROVE \E k \in 1..Depth : n - at[k] + 1 = i
        <5>1. n - i + 1 \in 1..n /\ ~Stack[n - i + 1].enter
          BY <2>1, <2>3
        <5> PICK k \in 1..Depth : at[k] = n - i + 1
          BY <4>1, <5>1
        <5> QED BY <2>1, <2>3
      <4>3. ASSUME NEW k \in 1..Depth PROVE n - at[k] + 1 \in due
        <5>1. at[k] \in 1..n /\ ~Stack[at[k]].enter
          BY <4>1
        <5> QED BY <2>1, <2>2, <2>3, <5>1
      <4> QED BY <4>2, <4>3
    <3>2. \A k, l \in 1..Depth : k < l => at[k] < at[l]
      BY DEF LevelsAt
    <3> HIDE DEF due
    <3>3. Cardinality(due) = Depth
      <4> DEFINE d == Depth
      <4>1. /\ n \in Nat /\ d \in Nat /\ at \in [1..d -> 1..n]
            /\ \A k, l \in 1..d : k < l => at[k] < at[l]
            /\ \A i \in due : \E k \in 1..d : n - at[k] + 1 = i
            /\ \A k \in 1..d : n - at[k] + 1 \in due
        BY <2>1, <2>4, <3>1, <3>2
      <4> HIDE DEF d
      <4>2. Cardinality(due) = d
        BY <4>1, DueCounted
      <4> QED BY <4>2 DEF d
    <3> QED BY <2>1, <3>3 DEF Depth
  <2>6. MapThenSumSet(LAMBDA i : carry[i], DOMAIN carry) + open * size = Blocks(counted)
    <3>1. SumOver(carry, 1..Len(carry)) + Open = SumOver(tree.blocks, counted)
      BY DEF LevelsAt
    <3>2. open * size = Open
      BY <2>1 DEF Open
    <3>3. MapThenSumSet(LAMBDA i : carry[i], DOMAIN carry) = SumOver(carry, DOMAIN carry)
      BY DEF SumOver
    <3>4. Blocks(counted) = SumOver(tree.blocks, counted)
      BY BelowIs
    <3> QED BY <2>1, <3>1, <3>2, <3>3, <3>4
  <2>7. ASSUME NEW i \in 1..n, i < n
        PROVE  LET later == {k \in (i + 1)..n : ~tasks[k].enter}
               IN  later # {} /\ tasks[i].path \in tree.children[tasks[Min(later)].path]
    <3> DEFINE later == {k \in (i + 1)..n : ~tasks[k].enter}
               m == n - i + 1
    <3>1. m \in 2..n /\ tasks[i] = Stack[m]
      BY <2>1, <2>3, <2>7
    <3>2. PICK j \in 1..(m - 1) :
            /\ ~Stack[j].enter /\ \A k \in (j + 1)..(m - 1) : Stack[k].enter
            /\ Stack[j].path \in DirsOf(tree) /\ Stack[m].path \in tree.children[Stack[j].path]
      BY <2>1, <2>2, <3>1 DEF WalkInv, Parts
    <3> DEFINE l == n - j + 1
    <3>3. l \in (i + 1)..n /\ l \in 1..n /\ j \in 1..n /\ tasks[l] = Stack[j]
      BY <2>1, <2>2
    <3>4. ASSUME NEW k \in later PROVE l <= k
      <4>1. SUFFICES ASSUME k < l PROVE FALSE
        BY <2>1, <3>3
      <4>2. k \in 1..n /\ n - k + 1 \in (j + 1)..(m - 1) /\ tasks[k] = Stack[n - k + 1]
        BY <2>1, <2>3, <4>1
      <4> QED BY <3>2, <4>2
    <3>5. later \subseteq Nat /\ l \in later
      BY <2>1, <3>2, <3>3
    <3> HIDE DEF l, later
    <3>6. Min(later) = l
      <4>1. Min(later) \in later /\ Min(later) <= l
        BY <3>5, MinIsLeast
      <4>2. l <= Min(later) /\ Min(later) \in Nat /\ l \in Nat
        BY <3>4, <3>5, <4>1
      <4> QED BY <4>1, <4>2
    <3> QED BY <3>1, <3>2, <3>3, <3>5, <3>6 DEF later
  <2> QED BY <2>1, <2>5, <2>6, <2>7 DEF CarryFollowsTasks, n
<1>2. IInv => CarryFollowsTasks
  BY <1>1 DEF CarryFollowsTasks
<1> QED BY <1>2, Invariance, PTL
====
