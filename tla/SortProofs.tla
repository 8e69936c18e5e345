----------------------------- MODULE SortProofs -----------------------------
(***************************************************************************)
(* Proofs about Sort, for every number of threads, every input and every   *)
(* option: no line is lost or doubled on its way through the batches, the  *)
(* pool, the merges and the heap; nobody waits for ever; and the output is *)
(* sorted as long as there is no empty chunk and no write buffer lost      *)
(* anything.                                                               *)
(***************************************************************************)
EXTENDS Sort, DataLemmas, FiniteSetTheorems, TLAPS

-----------------------------------------------------------------------------
(* Counting: how many lines of a sequence are in a set T.                  *)

Places(s, T) == {i \in 1..Len(s) : s[i] \in T}
Count(s, T) == Cardinality(Places(s, T))

\* A count is a number.
LEMMA CountType ==
  ASSUME NEW s \in Seq(Line), NEW T
  PROVE  IsFiniteSet(Places(s, T)) /\ Count(s, T) \in Nat
<1>1. Len(s) \in Nat
  BY LenProperties
<1>2. IsFiniteSet(1..Len(s)) /\ Places(s, T) \in SUBSET (1..Len(s))
  BY <1>1, FS_Interval DEF Places
<1>3. IsFiniteSet(Places(s, T))
  BY <1>2, FS_Subset
<1> QED BY <1>3, FS_CardinalityType DEF Count

\* Nothing has no lines.
LEMMA CountEmpty ==
  ASSUME NEW T
  PROVE  Count(<<>>, T) = 0
<1>1. Places(<<>>, T) = {}
  BY DEF Places
<1> QED BY <1>1, FS_EmptySet DEF Count

\* One more line counts once, if it is in T.
LEMMA CountAppend ==
  ASSUME NEW s \in Seq(Line), NEW x \in Line, NEW T
  PROVE  Count(Append(s, x), T) = Count(s, T) + IF x \in T THEN 1 ELSE 0
<1> DEFINE t == Append(s, x)
           n == Len(s) + 1
<1>1. Len(s) \in Nat /\ Len(t) = n /\ t[n] = x /\ \A i \in 1..Len(s) : t[i] = s[i]
  BY LenProperties, AppendProperties
<1>2. n \notin Places(s, T) /\ IsFiniteSet(Places(s, T)) /\ Count(s, T) \in Nat
  <2>1. n \notin 1..Len(s)
    BY <1>1
  <2> QED BY <2>1, CountType DEF Places
<1>3. CASE x \in T
  <2>1. Places(t, T) = Places(s, T) \cup {n}
    <3> HIDE DEF t
    <3> QED BY <1>1, <1>3 DEF Places
  <2>2. Cardinality(Places(s, T) \cup {n}) = Cardinality(Places(s, T)) + 1
    <3> HIDE DEF n
    <3> QED BY <1>2, FS_AddElement
  <2> QED BY <1>3, <2>1, <2>2 DEF Count
<1>4. CASE x \notin T
  <2>1. Places(t, T) = Places(s, T)
    <3> HIDE DEF t
    <3> QED BY <1>1, <1>4 DEF Places
  <2> QED BY <1>2, <1>4, <2>1 DEF Count
<1> QED BY <1>3, <1>4

\* The counts of two pieces add up.
LEMMA CountConcat ==
  ASSUME NEW s \in Seq(Line), NEW t \in Seq(Line), NEW T
  PROVE  Count(s \o t, T) = Count(s, T) + Count(t, T)
<1> DEFINE S == Seq(Line)
           size == [r \in S |-> Len(r)]
           Holds(r) == Count(s \o r, T) = Count(s, T) + Count(r, T)
           P == {r \in S : Holds(r)}
<1>1. size \in [S -> Nat]
  BY LenProperties
<1>2. ASSUME NEW r \in S, \A u \in S : size[u] < size[r] => u \in P
      PROVE  r \in P
  <2>1. CASE r = <<>>
    BY <2>1, ConcatEmptySeq, CountEmpty, CountType
  <2>2. CASE r # <<>>
    <3>1. PICK u \in S, x \in Line : r = Append(u, x) /\ Len(r) = Len(u) + 1
      BY <2>2, FrontAndLast
    <3>2. Holds(u)
      <4>1. Len(u) \in Nat /\ Len(u) < Len(r)
        BY <3>1, LenProperties
      <4> QED BY <1>2, <4>1
    <3>3. s \o r = Append(s \o u, x) /\ s \o u \in S
      BY <3>1, ConcatAppend
    <3>4. /\ Count(s \o r, T) = Count(s \o u, T) + IF x \in T THEN 1 ELSE 0
          /\ Count(r, T) = Count(u, T) + IF x \in T THEN 1 ELSE 0
          /\ Count(u, T) \in Nat /\ Count(s, T) \in Nat /\ Count(s \o u, T) \in Nat
      BY <3>1, <3>3, CountAppend, CountType, ZenonT(30)
    <3> QED BY <3>2, <3>4
  <2> QED BY <2>1, <2>2
<1>3. \A r \in S : r \in P
  <2> HIDE DEF P, size, S
  <2> QED BY <1>1, <1>2, InductionOnSize
<1> QED BY <1>3

\* Two special cases: how often one line occurs, and how many lines there are.
LEMMA CountOne ==
  ASSUME NEW s \in Seq(Line), NEW l
  PROVE  Copies(l, s) = Count(s, {l})
<1>1. Places(s, {l}) = {i \in 1..Len(s) : s[i] = l}
  BY DEF Places
<1> QED BY <1>1 DEF Copies, Count

\* Every line is a line.
LEMMA CountAll ==
  ASSUME NEW s \in Seq(Line)
  PROVE  Count(s, Line) = Len(s)
<1>1. Len(s) \in Nat /\ \A i \in 1..Len(s) : s[i] \in Line
  BY LenProperties, ElementOfSeq
<1>2. Places(s, Line) = 1..Len(s)
  BY <1>1 DEF Places
<1>3. Cardinality(1..Len(s)) = Len(s)
  <2>1. 1 \in Int /\ Len(s) \in Int
    BY <1>1
  <2>2. Cardinality(1..Len(s)) = IF 1 > Len(s) THEN 0 ELSE Len(s) - 1 + 1
    BY <2>1, FS_Interval
  <2> QED BY <1>1, <2>2
<1> QED BY <1>2, <1>3 DEF Count

-----------------------------------------------------------------------------
(* Lines in several sequences.                                             *)

Weight(h, T) == Count(FlattenSeq(h), T)

\* The weight of a sequence of chunks is a number.
LEMMA WeightType ==
  ASSUME NEW h \in Seq(Seq(Line)), NEW T
  PROVE  FlattenSeq(h) \in Seq(Line) /\ Weight(h, T) \in Nat
BY FlattenType, CountType DEF Weight

\* The weights of two sequences of chunks add up.
LEMMA WeightConcat ==
  ASSUME NEW a \in Seq(Seq(Line)), NEW b \in Seq(Seq(Line)), NEW T
  PROVE  Weight(a \o b, T) = Weight(a, T) + Weight(b, T)
<1>1. FlattenSeq(a) \in Seq(Line) /\ FlattenSeq(b) \in Seq(Line)
  BY FlattenType
<1>2. FlattenSeq(a \o b) = FlattenSeq(a) \o FlattenSeq(b)
  BY FlattenConcat
<1> QED BY <1>1, <1>2, CountConcat DEF Weight

\* The weight of no chunk, and of one.
LEMMA WeightFew ==
  ASSUME NEW c \in Seq(Line), NEW T
  PROVE  Weight(<<>>, T) = 0 /\ Weight(<<c>>, T) = Count(c, T)
<1>1. FlattenSeq(<<c>>) = c
  <2>1. <<>> \in Seq(Seq(Line)) /\ Append(<<>>, c) = <<c>>
    BY EmptySeq
  <2>2. FlattenSeq(Append(<<>>, c)) = FlattenSeq(<<>>) \o c
    BY <2>1, FlattenAppend
  <2> QED BY <2>1, <2>2, FlattenEmpty, ConcatEmptySeq
<1> QED BY <1>1, FlattenEmpty, CountEmpty DEF Weight

\* One more chunk adds its lines.
LEMMA WeightAppend ==
  ASSUME NEW h \in Seq(Seq(Line)), NEW c \in Seq(Line), NEW T
  PROVE  Weight(Append(h, c), T) = Weight(h, T) + Count(c, T)
<1>1. FlattenSeq(Append(h, c)) = FlattenSeq(h) \o c /\ FlattenSeq(h) \in Seq(Line)
  BY FlattenAppend, FlattenType
<1> QED BY <1>1, CountConcat DEF Weight

\* One of the sequences is replaced.
LEMMA WeightReplace ==
  ASSUME NEW h \in Seq(Seq(Line)), NEW i \in 1..Len(h), NEW c \in Seq(Line), NEW T
  PROVE  Weight([h EXCEPT ![i] = c], T) + Count(h[i], T) = Weight(h, T) + Count(c, T)
<1> DEFINE E == Seq(Line)
           front == SubSeq(h, 1, i - 1)
           back == SubSeq(h, i + 1, Len(h))
           g == [h EXCEPT ![i] = c]
<1>1. g \in Seq(E) /\ front \in Seq(E) /\ back \in Seq(E) /\ h[i] \in E
  <2>1. Len(h) \in Nat /\ i - 1 \in 0..Len(h) /\ i \in 0..Len(h)
    BY LenProperties
  <2> QED BY <2>1, ExceptSeq, CutInTwo, ElementOfSeq
<1>2. h = (front \o <<h[i]>>) \o back /\ g = (front \o <<c>>) \o back
  <2> HIDE DEF E
  <2>1. c \in E
    BY DEF E
  <2>2. h \in Seq(E)
    BY DEF E
  <2>3. h = (SubSeq(h, 1, i - 1) \o <<h[i]>>) \o SubSeq(h, i + 1, Len(h))
    BY <2>2, SplitAround
  <2>4. [h EXCEPT ![i] = c] = (SubSeq(h, 1, i - 1) \o <<c>>) \o SubSeq(h, i + 1, Len(h))
    BY <2>1, <2>2, ReplaceAround
  <2> QED BY <2>3, <2>4
<1> HIDE DEF front, back, g
<1>3. \A x \in E : Weight((front \o <<x>>) \o back, T) = Weight(front, T) + Count(x, T) + Weight(back, T)
  <2> TAKE x \in E
  <2>1. <<x>> \in Seq(E) /\ front \o <<x>> \in Seq(E)
    BY <1>1, ConcatProperties
  <2>0. \A a, b \in Seq(E) : Weight(a \o b, T) = Weight(a, T) + Weight(b, T)
    BY WeightConcat
  <2>2. Weight((front \o <<x>>) \o back, T) = Weight(front \o <<x>>, T) + Weight(back, T)
    BY <1>1, <2>0, <2>1
  <2>3. Weight(front \o <<x>>, T) = Weight(front, T) + Weight(<<x>>, T)
    BY <1>1, <2>0, <2>1
  <2>4. Weight(<<x>>, T) = Count(x, T)
    BY WeightFew
  <2> QED BY <2>2, <2>3, <2>4
<1>4. Weight(front, T) \in Nat /\ Weight(back, T) \in Nat /\ Count(c, T) \in Nat /\ Count(h[i], T) \in Nat
  BY <1>1, WeightType, CountType
<1>5. /\ Weight(h, T) = Weight(front, T) + Count(h[i], T) + Weight(back, T)
      /\ Weight(g, T) = Weight(front, T) + Count(c, T) + Weight(back, T)
  BY <1>1, <1>2, <1>3
<1> QED BY <1>4, <1>5 DEF g

-----------------------------------------------------------------------------
(* The heap: what its operations do to the chunks in it, whatever the order. *)

Heaps == Seq(Seq(Line))
Elements(h) == {h[i] : i \in 1..Len(h)}

\* Two heaps hold the same.
Alike(g, h) ==
  /\ g \in Heaps /\ Len(g) = Len(h) /\ Elements(g) = Elements(h)
  /\ \A T : Weight(g, T) = Weight(h, T)

\* Being made of the same chunks is transitive.
LEMMA AlikeIsTransitive ==
  ASSUME NEW g, NEW h, NEW k, Alike(g, h), Alike(h, k)
  PROVE  Alike(g, k)
BY DEF Alike

\* A swap keeps the chunks.
LEMMA SwapFacts ==
  ASSUME NEW h \in Heaps, NEW i \in 1..Len(h), NEW j \in 1..Len(h)
  PROVE  /\ Alike(Heap!Swap(h, i, j), h)
         /\ \A k \in 1..Len(h) :
              Heap!Swap(h, i, j)[k] = IF k = j THEN h[i] ELSE IF k = i THEN h[j] ELSE h[k]
<1> DEFINE C == Seq(Line)
           f == [h EXCEPT ![i] = h[j]]
           g == [f EXCEPT ![j] = h[i]]
<1>1. h[i] \in C /\ h[j] \in C /\ h \in Seq(C)
  BY ElementOfSeq DEF Heaps
<1>2. /\ f \in Seq(C) /\ Len(f) = Len(h)
      /\ \A k \in 1..Len(h) : f[k] = IF k = i THEN h[j] ELSE h[k]
  BY <1>1, ExceptSeq
<1>3. \A T : Weight(f, T) + Count(h[i], T) = Weight(h, T) + Count(h[j], T)
  BY <1>1, WeightReplace
<1>4. Heap!Swap(h, i, j) = g
  BY DEF Heap!Swap
<1> HIDE DEF f
<1>5. /\ g \in Seq(C) /\ Len(g) = Len(f)
      /\ \A k \in 1..Len(f) : g[k] = IF k = j THEN h[i] ELSE f[k]
  BY <1>1, <1>2, ExceptSeq
<1>6. \A T : Weight(g, T) + Count(f[j], T) = Weight(f, T) + Count(h[i], T)
  <2>1. j \in 1..Len(f)
    BY <1>2
  <2> QED BY <1>1, <1>2, <2>1, WeightReplace
<1> HIDE DEF g
<1>7. f[j] = h[j]
  BY <1>2
<1>8. ASSUME NEW T PROVE Weight(g, T) = Weight(h, T)
  <2>1. /\ Weight(g, T) \in Nat /\ Weight(h, T) \in Nat /\ Weight(f, T) \in Nat
        /\ Count(h[i], T) \in Nat /\ Count(h[j], T) \in Nat
    BY <1>1, <1>2, <1>5, WeightType, CountType
  <2>2. Weight(f, T) + Count(h[i], T) = Weight(h, T) + Count(h[j], T)
    BY <1>3
  <2>3. Weight(g, T) + Count(h[j], T) = Weight(f, T) + Count(h[i], T)
    BY <1>6, <1>7
  <2> QED BY <2>1, <2>2, <2>3
<1>9. \A k \in 1..Len(h) : g[k] = IF k = j THEN h[i] ELSE IF k = i THEN h[j] ELSE h[k]
  BY <1>2, <1>5
<1>10. Elements(g) = Elements(h)
  <2>1. ASSUME NEW k \in 1..Len(h) PROVE g[k] \in Elements(h)
    BY <1>9 DEF Elements
  <2>2. ASSUME NEW k \in 1..Len(h) PROVE h[k] \in Elements(g)
    <3>1. \E l \in 1..Len(h) : g[l] = h[k]
      <4>1. CASE k = j
        BY <1>9, <4>1
      <4>2. CASE k = i
        BY <1>9, <4>2
      <4>3. CASE k # i /\ k # j
        BY <1>9, <4>3
      <4> QED BY <4>1, <4>2, <4>3
    <3> QED BY <1>2, <1>5, <3>1 DEF Elements
  <2>3. Len(g) = Len(h)
    BY <1>2, <1>5
  <2>4. \A x : x \in Elements(g) => x \in Elements(h)
    BY <2>1, <2>3 DEF Elements
  <2>5. \A x : x \in Elements(h) => x \in Elements(g)
    BY <2>2 DEF Elements
  <2> QED BY <2>4, <2>5
<1>11. Alike(g, h)
  BY <1>2, <1>5, <1>8, <1>10 DEF Alike, Heaps
<1> QED BY <1>4, <1>9, <1>11

\* The positions that a spot has: its parent, its greater child.
LEMMA ParentOf ==
  ASSUME NEW s \in Heap!Spot, s.at \in 2..Len(s.heap)
  PROVE  /\ s.heap \in Heaps /\ s.at \in Nat \ {0}
         /\ Heap!Parent(s) \in 1..Len(s.heap) /\ Heap!Parent(s) < s.at
         /\ Heap!Parent(s) = s.at \div 2
         /\ Heap!MovedTo(s, Heap!Parent(s)) \in Heap!Spot
         /\ Alike(Heap!MovedTo(s, Heap!Parent(s)).heap, s.heap)
         /\ Heap!MovedTo(s, Heap!Parent(s)).at = Heap!Parent(s)
<1> DEFINE p == Heap!Parent(s)
           g == Heap!Swap(s.heap, s.at, p)
<1>1. s.heap \in Heaps /\ s.at \in Nat \ {0} /\ Len(s.heap) \in Nat /\ p = s.at \div 2
  BY LenProperties DEF Heap!Spot, Heap!Parent, Heaps
<1>2. p \in 1..Len(s.heap) /\ p < s.at /\ p \in Nat \ {0} /\ s.at \in 1..Len(s.heap)
  BY <1>1
<1>3. Alike(g, s.heap)
  BY <1>1, <1>2, SwapFacts
<1>4. Heap!MovedTo(s, p) = [heap |-> g, at |-> p]
  BY DEF Heap!MovedTo
<1> QED BY <1>1, <1>2, <1>3, <1>4 DEF Heap!Spot, Alike, Heaps

\* The element sinks to a position inside the heap, below it.
LEMMA ChildOf ==
  ASSUME NEW s \in Heap!Spot, ~ (2 * s.at > Len(s.heap))
  PROVE  /\ s.heap \in Heaps /\ s.at \in 1..Len(s.heap)
         /\ Heap!Child(s) \in 1..Len(s.heap) /\ s.at < Heap!Child(s)
         /\ Heap!Child(s) \div 2 = s.at
         /\ Heap!MovedTo(s, Heap!Child(s)) \in Heap!Spot
         /\ Alike(Heap!MovedTo(s, Heap!Child(s)).heap, s.heap)
         /\ Heap!MovedTo(s, Heap!Child(s)).at = Heap!Child(s)
<1> DEFINE c == Heap!Child(s)
           g == Heap!Swap(s.heap, s.at, c)
<1>1. s.heap \in Heaps /\ s.at \in Nat \ {0} /\ Len(s.heap) \in Nat
  BY LenProperties DEF Heap!Spot, Heaps
<1>2. c = 2 * s.at \/ (c = 2 * s.at + 1 /\ 2 * s.at < Len(s.heap))
  BY DEF Heap!Child, Heap!GreaterChild
<1>3. /\ c \in 1..Len(s.heap) /\ s.at < c /\ c \in Nat \ {0} /\ s.at \in 1..Len(s.heap)
      /\ c \div 2 = s.at
  <2> DEFINE a == s.at
             n == Len(s.heap)
  <2>1. a \in Nat \ {0} /\ n \in Nat /\ (c = 2 * a \/ (c = 2 * a + 1 /\ 2 * a < n)) /\ ~ (2 * a > n)
    BY <1>1, <1>2
  <2> HIDE DEF a, n, c
  <2>2. c \in 1..n /\ a < c /\ c \in Nat \ {0} /\ a \in 1..n
    BY <2>1
  <2>3. c \div 2 = a
    BY <2>1
  <2> QED BY <2>2, <2>3 DEF a, n
<1>4. Alike(g, s.heap)
  BY <1>1, <1>3, SwapFacts
<1>5. Heap!MovedTo(s, c) = [heap |-> g, at |-> c]
  BY DEF Heap!MovedTo
<1> QED BY <1>1, <1>3, <1>4, <1>5 DEF Heap!Spot, Alike, Heaps

\* The three loops are what their definitions say, and give heaps.
LEMMA SiftUpDefined ==
  /\ Heap!SiftUp \in [Heap!Spot -> Heaps]
  /\ \A s \in Heap!Spot :
       Heap!SiftUp[s] = IF s.at \notin 2..Len(s.heap) \/ ChunkLeq(s.heap[s.at], s.heap[Heap!Parent(s)]) THEN s.heap ELSE Heap!SiftUp[Heap!MovedTo(s, Heap!Parent(s))]
<1> DEFINE S == Heap!Spot
           Stops(s) == s.at \notin 2..Len(s.heap) \/ ChunkLeq(s.heap[s.at], s.heap[Heap!Parent(s)])
           Value(s) == s.heap
           Goes(s) == Heap!MovedTo(s, Heap!Parent(s))
           Is(f) == f = [s \in S |-> IF Stops(s) THEN Value(s) ELSE f[Goes(s)]]
           size == [s \in S |-> s.at]
           Base == {s \in S : Stops(s)}
           base == [s \in Base |-> Value(s)]
           next == [s \in S \ Base |-> Goes(s)]
<1>1. Heap!SiftUp = CHOOSE f : Is(f)
  BY DEF Heap!SiftUp
<1>2. size \in [S -> Nat]
  BY LenProperties DEF Heap!Spot
<1>3. \A s \in S : Stops(s) => Value(s) \in Heaps
  BY DEF Heap!Spot, Heaps
<1>4. ASSUME NEW s \in S, ~ Stops(s)
      PROVE  Goes(s) \in S /\ size[Goes(s)] < size[s]
  BY <1>4, ParentOf
<1> HIDE DEF S, Stops, Value, Goes, size
<1>5. Base \in SUBSET S /\ base \in [Base -> Heaps] /\ next \in [S \ Base -> S]
      /\ \A s \in S \ Base : size[next[s]] < size[s]
  BY <1>3, <1>4
<1>6. PICK f \in [S -> Heaps] : LoopsBy(f, S, Base, base, next)
  <2> HIDE DEF Base, base, next
  <2>1. LoopOn(S, Heaps, size, Base, base, next)
    BY <1>2, <1>5 DEF LoopOn
  <2> QED BY <2>1, LoopExists
<1>7. Is(f)
  <2>1. \A s \in S : f[s] = IF Stops(s) THEN Value(s) ELSE f[Goes(s)]
    BY <1>6 DEF LoopsBy
  <2> QED BY <1>6, <2>1
<1>8. Is(Heap!SiftUp)
  <2> HIDE DEF Is
  <2> QED BY <1>1, <1>7
<1>9. \A s \in S : Heap!SiftUp[s] = IF Stops(s) THEN Value(s) ELSE Heap!SiftUp[Goes(s)]
  BY <1>8
<1>10. \A s \in S : Heap!SiftUp[s] \in Heaps
  <2> DEFINE P == {s \in S : Heap!SiftUp[s] \in Heaps}
  <2>1. ASSUME NEW s \in S, \A u \in S : size[u] < size[s] => u \in P
        PROVE  s \in P
    <3>1. CASE Stops(s)
      BY <1>3, <1>9, <3>1
    <3>2. CASE ~ Stops(s)
      <4>1. Goes(s) \in P
        BY <1>4, <2>1, <3>2
      <4> QED BY <1>9, <3>2, <4>1
    <3> QED BY <3>1, <3>2
  <2> HIDE DEF P
  <2>2. \A s \in S : s \in P
    BY <1>2, <2>1, InductionOnSize
  <2> QED BY <2>2 DEF P
<1>11. Heap!SiftUp \in [S -> Heaps]
  BY <1>8, <1>10
<1> QED BY <1>9, <1>11 DEF S, Stops, Value, Goes

\* Sinking comes to an end at the end of the heap.
LEMMA ChildSize ==
  ASSUME NEW s \in Heap!Spot, ~ (2 * s.at > Len(s.heap))
  PROVE  LET size == [t \in Heap!Spot |-> IF t.at <= Len(t.heap) THEN Len(t.heap) - t.at ELSE 0]
             t == Heap!MovedTo(s, Heap!Child(s))
         IN  t \in Heap!Spot /\ size[t] < size[s]
<1> DEFINE size == [u \in Heap!Spot |-> IF u.at <= Len(u.heap) THEN Len(u.heap) - u.at ELSE 0]
           t == Heap!MovedTo(s, Heap!Child(s))
<1>1. /\ s.heap \in Heaps /\ s.at \in 1..Len(s.heap) /\ Heap!Child(s) \in 1..Len(s.heap)
      /\ s.at < Heap!Child(s) /\ t \in Heap!Spot /\ Alike(t.heap, s.heap) /\ t.at = Heap!Child(s)
  BY ChildOf
<1>2. Len(t.heap) = Len(s.heap) /\ Len(s.heap) \in Nat
  BY <1>1, LenProperties DEF Alike, Heaps
<1> HIDE DEF t
<1>3. size[t] = Len(s.heap) - Heap!Child(s) /\ size[s] = Len(s.heap) - s.at
  BY <1>1, <1>2
<1>4. size[t] < size[s]
  <2> HIDE DEF size
  <2> QED BY <1>1, <1>2, <1>3
<1> QED BY <1>1, <1>4 DEF t

\* sift_down() ends, and does what its loop says.
LEMMA SiftDownDefined ==
  /\ Heap!SiftDown \in [Heap!Spot -> Heaps]
  /\ \A s \in Heap!Spot :
       Heap!SiftDown[s] = IF 2 * s.at > Len(s.heap) \/ ChunkLeq(s.heap[Heap!Child(s)], s.heap[s.at]) THEN s.heap ELSE Heap!SiftDown[Heap!MovedTo(s, Heap!Child(s))]
<1> DEFINE S == Heap!Spot
           Stops(s) == 2 * s.at > Len(s.heap) \/ ChunkLeq(s.heap[Heap!Child(s)], s.heap[s.at])
           Value(s) == s.heap
           Goes(s) == Heap!MovedTo(s, Heap!Child(s))
           Is(f) == f = [s \in S |-> IF Stops(s) THEN Value(s) ELSE f[Goes(s)]]
           size == [s \in S |-> IF s.at <= Len(s.heap) THEN Len(s.heap) - s.at ELSE 0]
           Base == {s \in S : Stops(s)}
           base == [s \in Base |-> Value(s)]
           next == [s \in S \ Base |-> Goes(s)]
<1>1. Heap!SiftDown = CHOOSE f : Is(f)
  BY DEF Heap!SiftDown
<1>2. size \in [S -> Nat]
  BY LenProperties DEF Heap!Spot
<1>3. \A s \in S : Stops(s) => Value(s) \in Heaps
  BY DEF Heap!Spot, Heaps
<1>4. ASSUME NEW s \in S, ~ Stops(s)
      PROVE  Goes(s) \in S /\ size[Goes(s)] < size[s]
  BY <1>4, ChildSize
<1> HIDE DEF S, Stops, Value, Goes, size
<1>5. Base \in SUBSET S /\ base \in [Base -> Heaps] /\ next \in [S \ Base -> S]
      /\ \A s \in S \ Base : size[next[s]] < size[s]
  BY <1>3, <1>4
<1>6. PICK f \in [S -> Heaps] : LoopsBy(f, S, Base, base, next)
  <2> HIDE DEF Base, base, next
  <2>1. LoopOn(S, Heaps, size, Base, base, next)
    BY <1>2, <1>5 DEF LoopOn
  <2> QED BY <2>1, LoopExists
<1>7. Is(f)
  <2>1. \A s \in S : f[s] = IF Stops(s) THEN Value(s) ELSE f[Goes(s)]
    BY <1>6 DEF LoopsBy
  <2> QED BY <1>6, <2>1
<1>8. Is(Heap!SiftDown)
  <2> HIDE DEF Is
  <2> QED BY <1>1, <1>7
<1>9. \A s \in S : Heap!SiftDown[s] = IF Stops(s) THEN Value(s) ELSE Heap!SiftDown[Goes(s)]
  BY <1>8
<1>10. \A s \in S : Heap!SiftDown[s] \in Heaps
  <2> DEFINE P == {s \in S : Heap!SiftDown[s] \in Heaps}
  <2>1. ASSUME NEW s \in S, \A u \in S : size[u] < size[s] => u \in P
        PROVE  s \in P
    <3>1. CASE Stops(s)
      BY <1>3, <1>9, <3>1
    <3>2. CASE ~ Stops(s)
      <4>1. Goes(s) \in P
        BY <1>4, <2>1, <3>2
      <4> QED BY <1>9, <3>2, <4>1
    <3> QED BY <3>1, <3>2
  <2> HIDE DEF P
  <2>2. \A s \in S : s \in P
    BY <1>2, <2>1, InductionOnSize
  <2> QED BY <2>2 DEF P
<1>11. Heap!SiftDown \in [S -> Heaps]
  BY <1>8, <1>10
<1> QED BY <1>9, <1>11 DEF S, Stops, Value, Goes

\* So does sift_down_to_bottom().
LEMMA SiftDownToBottomDefined ==
  /\ Heap!SiftDownToBottom \in [Heap!Spot -> Heaps]
  /\ \A s \in Heap!Spot :
       Heap!SiftDownToBottom[s] = IF 2 * s.at > Len(s.heap) THEN Heap!SiftUp[s] ELSE Heap!SiftDownToBottom[Heap!MovedTo(s, Heap!Child(s))]
<1> DEFINE S == Heap!Spot
           Stops(s) == 2 * s.at > Len(s.heap)
           Value(s) == Heap!SiftUp[s]
           Goes(s) == Heap!MovedTo(s, Heap!Child(s))
           Is(f) == f = [s \in S |-> IF Stops(s) THEN Value(s) ELSE f[Goes(s)]]
           size == [s \in S |-> IF s.at <= Len(s.heap) THEN Len(s.heap) - s.at ELSE 0]
           Base == {s \in S : Stops(s)}
           base == [s \in Base |-> Value(s)]
           next == [s \in S \ Base |-> Goes(s)]
<1>1. Heap!SiftDownToBottom = CHOOSE f : Is(f)
  BY DEF Heap!SiftDownToBottom
<1>2. size \in [S -> Nat]
  BY LenProperties DEF Heap!Spot
<1>3. \A s \in S : Stops(s) => Value(s) \in Heaps
  BY SiftUpDefined
<1>4. ASSUME NEW s \in S, ~ Stops(s)
      PROVE  Goes(s) \in S /\ size[Goes(s)] < size[s]
  BY <1>4, ChildSize
<1> HIDE DEF S, Stops, Value, Goes, size
<1>5. Base \in SUBSET S /\ base \in [Base -> Heaps] /\ next \in [S \ Base -> S]
      /\ \A s \in S \ Base : size[next[s]] < size[s]
  BY <1>3, <1>4
<1>6. PICK f \in [S -> Heaps] : LoopsBy(f, S, Base, base, next)
  <2> HIDE DEF Base, base, next
  <2>1. LoopOn(S, Heaps, size, Base, base, next)
    BY <1>2, <1>5 DEF LoopOn
  <2> QED BY <2>1, LoopExists
<1>7. Is(f)
  <2>1. \A s \in S : f[s] = IF Stops(s) THEN Value(s) ELSE f[Goes(s)]
    BY <1>6 DEF LoopsBy
  <2> QED BY <1>6, <2>1
<1>8. Is(Heap!SiftDownToBottom)
  <2> HIDE DEF Is
  <2> QED BY <1>1, <1>7
<1>9. \A s \in S : Heap!SiftDownToBottom[s] = IF Stops(s) THEN Value(s) ELSE Heap!SiftDownToBottom[Goes(s)]
  BY <1>8
<1>10. \A s \in S : Heap!SiftDownToBottom[s] \in Heaps
  <2> DEFINE P == {s \in S : Heap!SiftDownToBottom[s] \in Heaps}
  <2>1. ASSUME NEW s \in S, \A u \in S : size[u] < size[s] => u \in P
        PROVE  s \in P
    <3>1. CASE Stops(s)
      BY <1>3, <1>9, <3>1
    <3>2. CASE ~ Stops(s)
      <4>1. Goes(s) \in P
        BY <1>4, <2>1, <3>2
      <4> QED BY <1>9, <3>2, <4>1
    <3> QED BY <3>1, <3>2
  <2> HIDE DEF P
  <2>2. \A s \in S : s \in P
    BY <1>2, <2>1, InductionOnSize
  <2> QED BY <2>2 DEF P
<1>11. Heap!SiftDownToBottom \in [S -> Heaps]
  BY <1>8, <1>10
<1> QED BY <1>9, <1>11 DEF S, Stops, Value, Goes

\* So does rebuild().
LEMMA RebuildDefined ==
  /\ Heap!Rebuild \in [Heap!Spot -> Heaps]
  /\ \A s \in Heap!Spot :
       Heap!Rebuild[s] = IF s.at = 1 THEN Heap!SiftDown[s] ELSE Heap!Rebuild[[heap |-> Heap!SiftDown[s], at |-> s.at - 1]]
<1> DEFINE S == Heap!Spot
           Stops(s) == s.at = 1
           Value(s) == Heap!SiftDown[s]
           Goes(s) == [heap |-> Heap!SiftDown[s], at |-> s.at - 1]
           Is(f) == f = [s \in S |-> IF Stops(s) THEN Value(s) ELSE f[Goes(s)]]
           size == [s \in S |-> s.at]
           Base == {s \in S : Stops(s)}
           base == [s \in Base |-> Value(s)]
           next == [s \in S \ Base |-> Goes(s)]
<1>1. Heap!Rebuild = CHOOSE f : Is(f)
  BY DEF Heap!Rebuild
<1>2. size \in [S -> Nat]
  BY LenProperties DEF Heap!Spot
<1>3. \A s \in S : Stops(s) => Value(s) \in Heaps
  BY SiftDownDefined
<1>4. ASSUME NEW s \in S, ~ Stops(s)
      PROVE  Goes(s) \in S /\ size[Goes(s)] < size[s]
  <2>1. Heap!SiftDown[s] \in Seq(Seq(Line)) /\ s.at \in Nat \ {0} /\ s.at # 1
    BY <1>4, SiftDownDefined DEF Heap!Spot, Heaps
  <2>2. s.at - 1 \in Nat \ {0} /\ s.at - 1 < s.at
    BY <2>1
  <2> QED BY <2>1, <2>2 DEF Heap!Spot
<1> HIDE DEF S, Stops, Value, Goes, size
<1>5. Base \in SUBSET S /\ base \in [Base -> Heaps] /\ next \in [S \ Base -> S]
      /\ \A s \in S \ Base : size[next[s]] < size[s]
  BY <1>3, <1>4
<1>6. PICK f \in [S -> Heaps] : LoopsBy(f, S, Base, base, next)
  <2> HIDE DEF Base, base, next
  <2>1. LoopOn(S, Heaps, size, Base, base, next)
    BY <1>2, <1>5 DEF LoopOn
  <2> QED BY <2>1, LoopExists
<1>7. Is(f)
  <2>1. \A s \in S : f[s] = IF Stops(s) THEN Value(s) ELSE f[Goes(s)]
    BY <1>6 DEF LoopsBy
  <2> QED BY <1>6, <2>1
<1>8. Is(Heap!Rebuild)
  <2> HIDE DEF Is
  <2> QED BY <1>1, <1>7
<1>9. \A s \in S : Heap!Rebuild[s] = IF Stops(s) THEN Value(s) ELSE Heap!Rebuild[Goes(s)]
  BY <1>8
<1>10. \A s \in S : Heap!Rebuild[s] \in Heaps
  <2> DEFINE P == {s \in S : Heap!Rebuild[s] \in Heaps}
  <2>1. ASSUME NEW s \in S, \A u \in S : size[u] < size[s] => u \in P
        PROVE  s \in P
    <3>1. CASE Stops(s)
      BY <1>3, <1>9, <3>1
    <3>2. CASE ~ Stops(s)
      <4>1. Goes(s) \in P
        BY <1>4, <2>1, <3>2
      <4> QED BY <1>9, <3>2, <4>1
    <3> QED BY <3>1, <3>2
  <2> HIDE DEF P
  <2>2. \A s \in S : s \in P
    BY <1>2, <2>1, InductionOnSize
  <2> QED BY <2>2 DEF P
<1>11. Heap!Rebuild \in [S -> Heaps]
  BY <1>8, <1>10
<1> QED BY <1>9, <1>11 DEF S, Stops, Value, Goes

\* What comes out of them holds what was put in.
LEMMA SiftUpAlike ==
  \A s \in Heap!Spot : Alike(Heap!SiftUp[s], s.heap)
<1> DEFINE S == Heap!Spot
           size == [s \in S |-> s.at]
           P == {s \in S : Alike(Heap!SiftUp[s], s.heap)}
<1>1. size \in [S -> Nat]
  BY LenProperties DEF Heap!Spot
<1>2. ASSUME NEW s \in S, \A u \in S : size[u] < size[s] => u \in P
      PROVE  s \in P
  <2> DEFINE u == Heap!MovedTo(s, Heap!Parent(s))
  <2>1. CASE s.at \notin 2..Len(s.heap) \/ ChunkLeq(s.heap[s.at], s.heap[Heap!Parent(s)])
    <3>1. s.heap \in Heaps
      BY DEF Heap!Spot, Heaps
    <3> QED BY <2>1, <3>1, SiftUpDefined DEF Alike
  <2>2. CASE ~ (s.at \notin 2..Len(s.heap) \/ ChunkLeq(s.heap[s.at], s.heap[Heap!Parent(s)]))
    <3>1. u \in S /\ Alike(u.heap, s.heap) /\ u.at < s.at /\ u.at \in Nat
      BY <2>2, ParentOf
    <3> HIDE DEF u
    <3>2. Alike(Heap!SiftUp[u], u.heap)
      BY <1>2, <3>1
    <3>3. Heap!SiftUp[s] = Heap!SiftUp[u]
      BY <2>2, SiftUpDefined DEF u
    <3> QED BY <3>1, <3>2, <3>3, AlikeIsTransitive
  <2> QED BY <2>1, <2>2
<1>3. \A s \in S : s \in P
  <2> HIDE DEF P, size, S
  <2> QED BY <1>1, <1>2, InductionOnSize
<1> QED BY <1>3

\* sift_down() keeps the chunks.
LEMMA SiftDownAlike ==
  \A s \in Heap!Spot : Alike(Heap!SiftDown[s], s.heap)
<1> DEFINE S == Heap!Spot
           size == [s \in S |-> IF s.at <= Len(s.heap) THEN Len(s.heap) - s.at ELSE 0]
           P == {s \in S : Alike(Heap!SiftDown[s], s.heap)}
<1>1. size \in [S -> Nat]
  BY LenProperties DEF Heap!Spot
<1>2. ASSUME NEW s \in S, \A u \in S : size[u] < size[s] => u \in P
      PROVE  s \in P
  <2> DEFINE u == Heap!MovedTo(s, Heap!Child(s))
  <2>1. CASE 2 * s.at > Len(s.heap) \/ ChunkLeq(s.heap[Heap!Child(s)], s.heap[s.at])
    <3>1. s.heap \in Heaps
      BY DEF Heap!Spot, Heaps
    <3> QED BY <2>1, <3>1, SiftDownDefined DEF Alike
  <2>2. CASE ~ (2 * s.at > Len(s.heap) \/ ChunkLeq(s.heap[Heap!Child(s)], s.heap[s.at]))
    <3>1. u \in S /\ Alike(u.heap, s.heap) /\ size[u] < size[s]
      BY <2>2, ChildOf, ChildSize
    <3> HIDE DEF u, size
    <3>2. Alike(Heap!SiftDown[u], u.heap)
      BY <1>2, <3>1
    <3>3. Heap!SiftDown[s] = Heap!SiftDown[u]
      BY <2>2, SiftDownDefined DEF u
    <3> QED BY <3>1, <3>2, <3>3, AlikeIsTransitive
  <2> QED BY <2>1, <2>2
<1>3. \A s \in S : s \in P
  <2> HIDE DEF P, size, S
  <2> QED BY <1>1, <1>2, InductionOnSize
<1> QED BY <1>3

\* So does sift_down_to_bottom().
LEMMA SiftDownToBottomAlike ==
  \A s \in Heap!Spot : Alike(Heap!SiftDownToBottom[s], s.heap)
<1> DEFINE S == Heap!Spot
           size == [s \in S |-> IF s.at <= Len(s.heap) THEN Len(s.heap) - s.at ELSE 0]
           P == {s \in S : Alike(Heap!SiftDownToBottom[s], s.heap)}
<1>1. size \in [S -> Nat]
  BY LenProperties DEF Heap!Spot
<1>2. ASSUME NEW s \in S, \A u \in S : size[u] < size[s] => u \in P
      PROVE  s \in P
  <2> DEFINE u == Heap!MovedTo(s, Heap!Child(s))
  <2>1. CASE 2 * s.at > Len(s.heap)
    BY <2>1, SiftDownToBottomDefined, SiftUpAlike
  <2>2. CASE ~ (2 * s.at > Len(s.heap))
    <3>1. u \in S /\ Alike(u.heap, s.heap) /\ size[u] < size[s]
      BY <2>2, ChildOf, ChildSize
    <3> HIDE DEF u, size
    <3>2. Alike(Heap!SiftDownToBottom[u], u.heap)
      BY <1>2, <3>1
    <3>3. Heap!SiftDownToBottom[s] = Heap!SiftDownToBottom[u]
      BY <2>2, SiftDownToBottomDefined DEF u
    <3> QED BY <3>1, <3>2, <3>3, AlikeIsTransitive
  <2> QED BY <2>1, <2>2
<1>3. \A s \in S : s \in P
  <2> HIDE DEF P, size, S
  <2> QED BY <1>1, <1>2, InductionOnSize
<1> QED BY <1>3

\* So does rebuild().
LEMMA RebuildAlike ==
  \A s \in Heap!Spot : Alike(Heap!Rebuild[s], s.heap)
<1> DEFINE S == Heap!Spot
           size == [s \in S |-> s.at]
           P == {s \in S : Alike(Heap!Rebuild[s], s.heap)}
<1>1. size \in [S -> Nat]
  BY LenProperties DEF Heap!Spot
<1>2. ASSUME NEW s \in S, \A u \in S : size[u] < size[s] => u \in P
      PROVE  s \in P
  <2> DEFINE u == [heap |-> Heap!SiftDown[s], at |-> s.at - 1]
  <2>1. CASE s.at = 1
    BY <2>1, RebuildDefined, SiftDownAlike
  <2>2. CASE ~ (s.at = 1)
    <3>1. Heap!SiftDown[s] \in Seq(Seq(Line)) /\ s.at \in Nat \ {0} /\ Alike(Heap!SiftDown[s], s.heap)
      BY SiftDownDefined, SiftDownAlike DEF Heap!Spot, Heaps
    <3>2. s.at - 1 \in Nat \ {0} /\ s.at - 1 < s.at
      BY <2>2, <3>1
    <3>3. u \in S /\ u.heap = Heap!SiftDown[s] /\ size[u] < size[s]
      BY <3>1, <3>2 DEF Heap!Spot
    <3>4. Heap!Rebuild[s] = Heap!Rebuild[u]
      BY <2>2, RebuildDefined
    <3> HIDE DEF u, size
    <3>5. Alike(Heap!Rebuild[u], u.heap)
      BY <1>2, <3>3
    <3> QED BY <3>1, <3>3, <3>4, <3>5, AlikeIsTransitive
  <2> QED BY <2>1, <2>2
<1>3. \A s \in S : s \in P
  <2> HIDE DEF P, size, S
  <2> QED BY <1>1, <1>2, InductionOnSize
<1> QED BY <1>3

\* The operations of the heap that sort uses.
LEMMA FromVecFacts ==
  ASSUME NEW v \in Heaps
  PROVE  Alike(Heap!FromVec(v), v)
<1>1. Len(v) \in Nat
  BY LenProperties DEF Heaps
<1>2. CASE Len(v) < 2
  BY <1>2 DEF Heap!FromVec, Alike
<1>3. CASE ~ (Len(v) < 2)
  <2> DEFINE s == [heap |-> v, at |-> Len(v) \div 2]
  <2>1. s \in Heap!Spot
    BY <1>1, <1>3 DEF Heap!Spot, Heaps
  <2>2. Heap!FromVec(v) = Heap!Rebuild[s]
    BY <1>3 DEF Heap!FromVec
  <2>3. Alike(Heap!Rebuild[s], s.heap)
    BY <2>1, RebuildAlike
  <2> QED BY <2>2, <2>3
<1> QED BY <1>2, <1>3

\* push() adds one chunk.
LEMMA PushFacts ==
  ASSUME NEW h \in Heaps, NEW c \in Seq(Line)
  PROVE  /\ Heap!PushOnto(h, c) \in Heaps /\ Len(Heap!PushOnto(h, c)) = Len(h) + 1
         /\ Elements(Heap!PushOnto(h, c)) = Elements(h) \cup {c}
         /\ \A T : Weight(Heap!PushOnto(h, c), T) = Weight(h, T) + Count(c, T)
<1> DEFINE g == Append(h, c)
           s == [heap |-> g, at |-> Len(h) + 1]
           p == Heap!PushOnto(h, c)
<1>1. /\ g \in Heaps /\ Len(h) \in Nat /\ Len(g) = Len(h) + 1 /\ g[Len(h) + 1] = c
      /\ \A i \in 1..Len(h) : g[i] = h[i]
  BY LenProperties, AppendProperties DEF Heaps
<1>2. \A T : Weight(g, T) = Weight(h, T) + Count(c, T)
  BY WeightAppend DEF Heaps
<1> HIDE DEF g
<1>3. s \in Heap!Spot
  BY <1>1 DEF Heap!Spot, Heaps
<1>4. Alike(p, g)
  BY <1>3, SiftUpAlike DEF Heap!PushOnto, g
<1>5. Elements(g) = Elements(h) \cup {c}
  BY <1>1 DEF Elements
<1> HIDE DEF p
<1> QED BY <1>1, <1>2, <1>4, <1>5 DEF Alike, p

\* pop() takes one chunk out of the heap.
LEMMA PopFacts ==
  ASSUME NEW h \in Heaps, h # <<>>
  PROVE  /\ Heap!Peek(h) \in Seq(Line) /\ Heap!Popped(h) \in Heaps
         /\ Len(Heap!Popped(h)) = Len(h) - 1
         /\ Elements(h) = Elements(Heap!Popped(h)) \cup {Heap!Peek(h)}
         /\ \A T : Weight(h, T) = Weight(Heap!Popped(h), T) + Count(Heap!Peek(h), T)
<1> DEFINE C == Seq(Line)
           n == Len(h)
           front == SubSeq(h, 1, n - 1)
           g == [front EXCEPT ![1] = h[n]]
           s == [heap |-> g, at |-> 1]
           p == Heap!Popped(h)
<1>0. h \in Seq(C) /\ n \in Nat \ {0} /\ h[1] \in C /\ h[n] \in C
  BY EmptySeq, ElementOfSeq DEF Heaps
<1>1. /\ front \in Seq(C) /\ Len(front) = n - 1 /\ \A i \in 1..(n - 1) : front[i] = h[i]
      /\ h = Append(front, h[n])
  BY <1>0, FrontOf
<1>2. CASE n = 1
  <2>1. p = <<>> /\ front = <<>> /\ h = <<h[1]>>
    <3>1. front = <<>>
      BY <1>1, <1>2, EmptySeq
    <3>2. Append(<<>>, h[1]) = <<h[1]>>
      OBVIOUS
    <3> QED BY <1>1, <1>2, <3>1, <3>2 DEF Heap!Popped
  <2>2. \A T : Weight(h, T) = Count(h[1], T) /\ Weight(<<>>, T) = 0 /\ Count(h[1], T) \in Nat
    BY <1>0, <2>1, WeightFew, CountType
  <2>3. Elements(h) = {h[1]} /\ Elements(<<>>) = {} /\ <<>> \in Heaps /\ Len(<<>>) = 0
    BY <1>2, EmptySeq DEF Elements, Heaps
  <2> QED BY <1>0, <1>2, <2>1, <2>2, <2>3 DEF Heap!Peek
<1>3. CASE n # 1
  <2>1. 1 \in 1..Len(front) /\ 1 \in 1..(n - 1)
    BY <1>0, <1>1, <1>3
  <2> HIDE DEF front, n
  <2>2. /\ g \in Seq(C) /\ Len(g) = n - 1
        /\ \A i \in 1..(n - 1) : g[i] = IF i = 1 THEN h[n] ELSE h[i]
    BY <1>0, <1>1, <2>1, ExceptSeq
  <2>3. \A T : Weight(g, T) + Count(front[1], T) = Weight(front, T) + Count(h[n], T)
    BY <1>0, <1>1, <2>1, WeightReplace
  <2>4. \A T : Weight(h, T) = Weight(front, T) + Count(h[n], T)
    <3> DEFINE last == h[n]
    <3>1. last \in C /\ front \in Seq(C) /\ h = Append(front, last)
      BY <1>0, <1>1
    <3> HIDE DEF last
    <3>2. \A T : Weight(Append(front, last), T) = Weight(front, T) + Count(last, T)
      BY <3>1, WeightAppend
    <3> QED BY <3>1, <3>2 DEF last
  <2>5. p = Heap!SiftDownToBottom[s]
    BY <1>3 DEF Heap!Popped, front, n
  <2> HIDE DEF g, p
  <2>6. s \in Heap!Spot
    BY <2>2 DEF Heap!Spot
  <2>7. Alike(p, g)
    BY <2>5, <2>6, SiftDownToBottomAlike
  <2>8. front[1] = h[1]
    BY <1>1, <2>1
  <2>9. Elements(h) = Elements(g) \cup {h[1]}
    <3>1. ASSUME NEW i \in 1..n PROVE h[i] \in Elements(g) \cup {h[1]}
      <4>1. CASE i = 1
        BY <4>1
      <4>2. CASE i = n
        BY <2>1, <2>2, <4>2 DEF Elements
      <4>3. CASE i # 1 /\ i # n
        <5>1. i \in 1..(n - 1)
          BY <1>0, <4>3
        <5> QED BY <2>2, <4>3, <5>1 DEF Elements
      <4> QED BY <4>1, <4>2, <4>3
    <3>2. ASSUME NEW i \in 1..(n - 1) PROVE g[i] \in Elements(h)
      <4>1. i \in 1..n /\ n \in 1..n
        BY <1>0
      <4> QED BY <2>2, <4>1 DEF Elements, n
    <3>3. h[1] \in Elements(h) /\ Len(g) = n - 1
      BY <1>0, <2>2 DEF Elements, n
    <3>4. \A x : x \in Elements(h) => x \in Elements(g) \cup {h[1]}
      BY <3>1 DEF Elements, n
    <3>5. \A x : x \in Elements(g) => x \in Elements(h)
      BY <3>2, <3>3 DEF Elements
    <3> QED BY <3>3, <3>4, <3>5
  <2>10. \A T : Weight(h, T) = Weight(p, T) + Count(h[1], T)
    <3> TAKE T
    <3>1. /\ Weight(g, T) + Count(h[1], T) = Weight(front, T) + Count(h[n], T)
          /\ Weight(h, T) = Weight(front, T) + Count(h[n], T)
      BY <2>3, <2>4, <2>8
    <3>2. Weight(p, T) = Weight(g, T)
      BY <2>7 DEF Alike
    <3> QED BY <3>1, <3>2
  <2> QED BY <1>0, <2>2, <2>7, <2>9, <2>10 DEF Alike, Heap!Peek, n, p
<1> QED BY <1>2, <1>3

-----------------------------------------------------------------------------
(* Merging: what the rounds do to the lines in the heap and in the output. *)

\* A chunk that has a head loses it, at least.
LEMMA DrainedFacts ==
  ASSUME NEW c \in Seq(Line), NEW limit
  PROVE  /\ Drained(c, limit) \in 0..Len(c) /\ (c # <<>> => Drained(c, limit) >= 1)
         /\ \A i \in 2..Drained(c, limit) : ~ (c[i] > limit)
         /\ Drained(c, limit) < Len(c) => c[Drained(c, limit) + 1] > limit
<1> DEFINE stop == {k \in 1..(Len(c) - 1) : c[k + 1] > limit}
           d == Drained(c, limit)
<1>1. Len(c) \in Nat /\ (c # <<>> => Len(c) >= 1)
  BY LenProperties, EmptySeq
<1>2. CASE stop = {}
  <2>1. d = Len(c)
    BY <1>2 DEF Drained
  <2>2. ASSUME NEW i \in 2..Len(c) PROVE ~ (c[i] > limit)
    <3>1. i - 1 \in 1..(Len(c) - 1) /\ (i - 1) + 1 = i
      BY <1>1
    <3>2. i - 1 \notin stop
      BY <1>2
    <3> QED BY <3>1, <3>2
  <2> HIDE DEF d
  <2> QED BY <1>1, <2>1, <2>2 DEF d
<1>3. CASE stop # {}
  <2>1. stop \subseteq Nat
    OBVIOUS
  <2>2. d = Min(stop)
    BY <1>3 DEF Drained
  <2>3. d \in stop /\ \A k \in stop : d <= k
    <3> HIDE DEF stop, d
    <3> QED BY <1>3, <2>1, <2>2, MinIsLeast
  <2> HIDE DEF d
  <2>4. d \in 1..(Len(c) - 1) /\ c[d + 1] > limit
    BY <2>3
  <2>5. ASSUME NEW i \in 2..d PROVE ~ (c[i] > limit)
    <3>1. i - 1 \in 1..(Len(c) - 1) /\ (i - 1) + 1 = i /\ ~ (d <= i - 1)
      BY <1>1, <2>4
    <3>2. i - 1 \notin stop
      <4> HIDE DEF stop
      <4> QED BY <2>3, <3>1
    <3> QED BY <3>1, <3>2
  <2> HIDE DEF stop
  <2> QED BY <1>1, <2>4, <2>5 DEF d
<1> QED BY <1>2, <1>3

\* The parts of a round: the chunk, what is left, how many lines leave the chunk.
Left(heap) == Heap!Popped(heap)
Taken(heap) ==
  IF Left(heap) = <<>> \/ Left(heap)[1] = <<>> THEN Len(Heap!Peek(heap))
  ELSE Drained(Heap!Peek(heap), Head(Left(heap)[1]))
Given(heap) == SubSeq(Heap!Peek(heap), 1, Taken(heap))
Kept(heap) == SubSeq(Heap!Peek(heap), Taken(heap) + 1, Len(Heap!Peek(heap)))

\* A round of the merge takes a chunk, gives some of its lines, one at least if there
\* are any, and keeps the others.
LEMMA RoundParts ==
  ASSUME NEW heap \in Heaps, heap # <<>>
  PROVE  /\ Heap!Peek(heap) \in Seq(Line) /\ Left(heap) \in Heaps
         /\ Len(Left(heap)) = Len(heap) - 1 /\ Len(heap) \in Nat \ {0}
         /\ Taken(heap) \in 0..Len(Heap!Peek(heap))
         /\ (Heap!Peek(heap) # <<>> => Taken(heap) >= 1)
         /\ Given(heap) \in Seq(Line) /\ Len(Given(heap)) = Taken(heap)
         /\ Kept(heap) \in Seq(Line) /\ Len(Kept(heap)) = Len(Heap!Peek(heap)) - Taken(heap)
         /\ Given(heap) \o Kept(heap) = Heap!Peek(heap)
         /\ \A T : Count(Heap!Peek(heap), T) = Count(Given(heap), T) + Count(Kept(heap), T)
<1> DEFINE chunk == Heap!Peek(heap)
           k == Taken(heap)
<1>1. chunk \in Seq(Line) /\ Left(heap) \in Heaps /\ Len(Left(heap)) = Len(heap) - 1
  BY PopFacts DEF Left
<1>2. Len(heap) \in Nat \ {0} /\ Len(chunk) \in Nat /\ (chunk # <<>> => Len(chunk) >= 1)
  BY <1>1, LenProperties, EmptySeq DEF Heaps
<1>3. k \in 0..Len(chunk) /\ (chunk # <<>> => k >= 1)
  <2> HIDE DEF chunk
  <2> QED BY <1>1, <1>2, DrainedFacts DEF Taken, chunk
<1> HIDE DEF k, chunk
<1>4. /\ SubSeq(chunk, 1, k) \in Seq(Line) /\ Len(SubSeq(chunk, 1, k)) = k
      /\ SubSeq(chunk, k + 1, Len(chunk)) \in Seq(Line)
      /\ Len(SubSeq(chunk, k + 1, Len(chunk))) = Len(chunk) - k
      /\ SubSeq(chunk, 1, k) \o SubSeq(chunk, k + 1, Len(chunk)) = chunk
  <2>1. \A n \in 0..Len(chunk) :
          /\ SubSeq(chunk, 1, n) \in Seq(Line) /\ Len(SubSeq(chunk, 1, n)) = n
          /\ SubSeq(chunk, n + 1, Len(chunk)) \in Seq(Line)
          /\ Len(SubSeq(chunk, n + 1, Len(chunk))) = Len(chunk) - n
    BY <1>1, CutInTwo
  <2>2. \A n \in 0..Len(chunk) :
          SubSeq(chunk, 1, n) \o SubSeq(chunk, n + 1, Len(chunk)) = chunk
    BY <1>1, CutInTwo
  <2> QED BY <1>3, <2>1, <2>2
<1>5. Given(heap) = SubSeq(chunk, 1, k) /\ Kept(heap) = SubSeq(chunk, k + 1, Len(chunk))
  BY DEF Given, Kept, chunk, k
<1>6. /\ Given(heap) \in Seq(Line) /\ Len(Given(heap)) = k
      /\ Kept(heap) \in Seq(Line) /\ Len(Kept(heap)) = Len(chunk) - k
      /\ Given(heap) \o Kept(heap) = chunk
  BY <1>4, <1>5
<1>7. \A T : Count(chunk, T) = Count(Given(heap), T) + Count(Kept(heap), T)
  <2> TAKE T
  <2>1. Count(Given(heap) \o Kept(heap), T) = Count(Given(heap), T) + Count(Kept(heap), T)
    BY <1>6, CountConcat
  <2> QED BY <1>6, <2>1
<1> QED BY <1>1, <1>2, <1>3, <1>6, <1>7 DEF chunk, k

\* A round takes lines from the heap to the output, and makes the heap smaller.
LEMMA RoundFacts ==
  ASSUME NEW s \in MergeState, s.heap # <<>>
  PROVE  /\ MergeRound(s) = [out |-> s.out \o Given(s.heap),
                            heap |-> IF Taken(s.heap) = Len(Heap!Peek(s.heap)) THEN Left(s.heap)
                                     ELSE Heap!PushOnto(Left(s.heap), Kept(s.heap))]
         /\ MergeRound(s) \in MergeState
         /\ \A T : Weight(MergeRound(s).heap, T) + Count(MergeRound(s).out, T)
                    = Weight(s.heap, T) + Count(s.out, T)
         /\ Weight(MergeRound(s).heap, Line) + Len(MergeRound(s).heap)
              < Weight(s.heap, Line) + Len(s.heap)
<1> DEFINE heap == s.heap
           chunk == Heap!Peek(heap)
           k == Taken(heap)
           left == Left(heap)
           given == Given(heap)
           kept == Kept(heap)
           r == MergeRound(s)
           next == IF k = Len(chunk) THEN left ELSE Heap!PushOnto(left, kept)
<1>0. heap \in Heaps /\ heap # <<>> /\ s.out \in Seq(Line)
  BY DEF MergeState, Heaps
<1>1. r = [out |-> s.out \o given, heap |-> next]
  BY DEF MergeRound, Left, Taken, Given, Kept
<1> HIDE DEF heap
<1>2. /\ chunk \in Seq(Line) /\ left \in Heaps /\ Len(left) = Len(heap) - 1
      /\ Len(heap) \in Nat \ {0} /\ k \in 0..Len(chunk) /\ (chunk # <<>> => k >= 1)
      /\ given \in Seq(Line) /\ Len(given) = k /\ kept \in Seq(Line) /\ Len(kept) = Len(chunk) - k
      /\ \A T : Count(chunk, T) = Count(given, T) + Count(kept, T)
  BY <1>0, RoundParts
<1>3. \A T : Weight(heap, T) = Weight(left, T) + Count(chunk, T)
  BY <1>0, PopFacts DEF Left
<1> HIDE DEF r, given, kept, left, k, chunk
<1>4. \A T : Count(s.out \o given, T) = Count(s.out, T) + Count(given, T)
  BY <1>0, <1>2, CountConcat
<1>5. s.out \o given \in Seq(Line)
  BY <1>0, <1>2, ConcatProperties
<1>6. ASSUME NEW T
      PROVE  /\ Weight(heap, T) \in Nat /\ Weight(left, T) \in Nat /\ Count(chunk, T) \in Nat
             /\ Count(given, T) \in Nat /\ Count(kept, T) \in Nat /\ Count(s.out, T) \in Nat
  BY <1>0, <1>2, WeightType, CountType DEF Heaps
<1>7. /\ Count(chunk, Line) = Len(chunk) /\ Count(kept, Line) = Len(kept)
      /\ Len(chunk) \in Nat /\ Len(left) \in Nat /\ k \in Nat
  BY <1>2, CountAll, LenProperties DEF Heaps
<1>8. CASE k = Len(chunk)
  <2>1. next = left
    BY <1>8
  <2>2. Count(kept, Line) = 0 /\ \A T : Count(kept, T) = 0
    <3>1. Len(kept) = 0
      BY <1>2, <1>7, <1>8
    <3>2. kept = <<>>
      BY <1>2, <3>1, EmptySeq
    <3> QED BY <3>2, CountEmpty
  <2>3. ASSUME NEW T PROVE Weight(next, T) + Count(s.out \o given, T) = Weight(heap, T) + Count(s.out, T)
    <3>1. /\ Count(s.out \o given, T) = Count(s.out, T) + Count(given, T)
          /\ Weight(heap, T) = Weight(left, T) + Count(chunk, T)
          /\ Count(chunk, T) = Count(given, T) + Count(kept, T) /\ Count(kept, T) = 0
      BY <1>2, <1>3, <1>4, <2>2
    <3> QED BY <1>6, <2>1, <3>1
  <2>4. Weight(next, Line) + Len(next) < Weight(heap, Line) + Len(heap)
    <3>1. Weight(heap, Line) = Weight(left, Line) + Count(chunk, Line)
      BY <1>3
    <3>2. Weight(left, Line) \in Nat /\ Count(chunk, Line) \in Nat
      BY <1>6
    <3> HIDE DEF next
    <3> QED BY <1>2, <1>7, <2>1, <3>1, <3>2
  <2> QED BY <1>0, <1>1, <1>2, <1>5, <2>1, <2>3, <2>4 DEF MergeState, Heaps, heap, k, chunk, left, given, kept, r
<1>9. CASE k # Len(chunk)
  <2>1. next = Heap!PushOnto(left, kept)
    BY <1>9
  <2>2. /\ next \in Heaps /\ Len(next) = Len(left) + 1
        /\ \A T : Weight(next, T) = Weight(left, T) + Count(kept, T)
    BY <1>2, <2>1, PushFacts, SMTT(30)
  <2> HIDE DEF next
  <2>3. ASSUME NEW T PROVE Weight(next, T) + Count(s.out \o given, T) = Weight(heap, T) + Count(s.out, T)
    <3>1. /\ Count(s.out \o given, T) = Count(s.out, T) + Count(given, T)
          /\ Weight(heap, T) = Weight(left, T) + Count(chunk, T)
          /\ Count(chunk, T) = Count(given, T) + Count(kept, T)
          /\ Weight(next, T) = Weight(left, T) + Count(kept, T)
      BY <1>2, <1>3, <1>4, <2>2
    <3> QED BY <1>6, <3>1
  <2>4. Weight(next, Line) + Len(next) < Weight(heap, Line) + Len(heap)
    <3>1. /\ Weight(heap, Line) = Weight(left, Line) + Count(chunk, Line)
          /\ Weight(next, Line) = Weight(left, Line) + Count(kept, Line)
      BY <1>3, <2>2
    <3>2. chunk # <<>>
      BY <1>2, <1>7, <1>9, EmptySeq
    <3>3. Len(kept) = Len(chunk) - k /\ k >= 1
      BY <1>2, <3>2
    <3>4. /\ Count(kept, Line) = Len(kept) /\ Count(chunk, Line) = Len(chunk)
          /\ Weight(left, Line) \in Nat /\ Len(chunk) \in Nat /\ Len(left) \in Nat /\ k \in Nat
      BY <1>6, <1>7
    <3>5. Len(heap) = Len(left) + 1 /\ Len(next) = Len(left) + 1
      BY <1>2, <1>7, <2>2
    <3> QED BY <3>1, <3>3, <3>4, <3>5
  <2>5. r = [out |-> s.out \o given, heap |-> next] /\ r \in MergeState
    BY <1>1, <1>5, <2>2 DEF MergeState, Heaps, next
  <2> QED BY <2>1, <2>3, <2>4, <2>5, <1>1 DEF heap, k, chunk, left, given, kept, r, next
<1> QED BY <1>8, <1>9

\* The merge ends, and does what its loop says.
LEMMA MergedDefined ==
  /\ Merged \in [MergeState -> Seq(Line)]
  /\ \A s \in MergeState : Merged[s] = IF s.heap = <<>> THEN s.out ELSE Merged[MergeRound(s)]
<1> DEFINE S == MergeState
           Stops(s) == s.heap = <<>>
           Value(s) == s.out
           Goes(s) == MergeRound(s)
           Is(f) == f = [s \in S |-> IF Stops(s) THEN Value(s) ELSE f[Goes(s)]]
           size == [s \in S |-> Weight(s.heap, Line) + Len(s.heap)]
           Base == {s \in S : Stops(s)}
           base == [s \in Base |-> Value(s)]
           next == [s \in S \ Base |-> Goes(s)]
<1>1. Merged = CHOOSE f : Is(f)
  BY DEF Merged, MergeState, Heaps
<1>2. size \in [S -> Nat]
  <2>1. ASSUME NEW s \in S PROVE Weight(s.heap, Line) + Len(s.heap) \in Nat
    <3>1. Weight(s.heap, Line) \in Nat /\ Len(s.heap) \in Nat
      BY WeightType, LenProperties DEF MergeState, Heaps
    <3> QED BY <3>1
  <2> QED BY <2>1
<1>3. \A s \in S : Stops(s) => Value(s) \in Seq(Line)
  BY DEF MergeState, Heaps
<1>4. ASSUME NEW s \in S, ~ Stops(s)
      PROVE  Goes(s) \in S /\ size[Goes(s)] < size[s]
  BY <1>4, RoundFacts
<1> HIDE DEF S, Stops, Value, Goes, size
<1>5. Base \in SUBSET S /\ base \in [Base -> Seq(Line)] /\ next \in [S \ Base -> S]
      /\ \A s \in S \ Base : size[next[s]] < size[s]
  BY <1>3, <1>4
<1>6. PICK f \in [S -> Seq(Line)] : LoopsBy(f, S, Base, base, next)
  <2> HIDE DEF Base, base, next
  <2>1. LoopOn(S, Seq(Line), size, Base, base, next)
    BY <1>2, <1>5 DEF LoopOn
  <2> QED BY <2>1, LoopExists
<1>7. Is(f)
  <2>1. \A s \in S : f[s] = IF Stops(s) THEN Value(s) ELSE f[Goes(s)]
    BY <1>6 DEF LoopsBy
  <2> QED BY <1>6, <2>1
<1>8. Is(Merged)
  <2> HIDE DEF Is
  <2> QED BY <1>1, <1>7
<1>9. \A s \in S : Merged[s] = IF Stops(s) THEN Value(s) ELSE Merged[Goes(s)]
  BY <1>8
<1>10. \A s \in S : Merged[s] \in Seq(Line)
  <2> DEFINE P == {s \in S : Merged[s] \in Seq(Line)}
  <2>1. ASSUME NEW s \in S, \A u \in S : size[u] < size[s] => u \in P
        PROVE  s \in P
    <3>1. CASE Stops(s)
      BY <1>3, <1>9, <3>1
    <3>2. CASE ~ Stops(s)
      <4>1. Goes(s) \in P
        BY <1>4, <2>1, <3>2
      <4> QED BY <1>9, <3>2, <4>1
    <3> QED BY <3>1, <3>2
  <2> HIDE DEF P
  <2>2. \A s \in S : s \in P
    BY <1>2, <2>1, InductionOnSize
  <2> QED BY <2>2 DEF P
<1>11. Merged \in [S -> Seq(Line)]
  BY <1>8, <1>10
<1> QED BY <1>9, <1>11 DEF S, Stops, Value, Goes

\* A merge gives the lines of its parts.
LEMMA MergeAllFacts ==
  ASSUME NEW parts \in Heaps
  PROVE  /\ MergeAll(parts) \in Seq(Line)
         /\ \A T : Count(MergeAll(parts), T) = Weight(parts, T)
<1> DEFINE S == MergeState
           size == [s \in S |-> Weight(s.heap, Line) + Len(s.heap)]
           P == {s \in S : \A T : Count(Merged[s], T) = Weight(s.heap, T) + Count(s.out, T)}
           start == [heap |-> Heap!FromVec(parts), out |-> <<>>]
<1>1. size \in [S -> Nat]
  <2>1. ASSUME NEW s \in S PROVE Weight(s.heap, Line) + Len(s.heap) \in Nat
    <3>1. Weight(s.heap, Line) \in Nat /\ Len(s.heap) \in Nat
      BY WeightType, LenProperties DEF MergeState, Heaps
    <3> QED BY <3>1
  <2> QED BY <2>1
<1>2. ASSUME NEW s \in S, \A u \in S : size[u] < size[s] => u \in P
      PROVE  s \in P
  <2>1. CASE s.heap = <<>>
    <3>1. Merged[s] = s.out /\ s.out \in Seq(Line)
      BY <2>1, MergedDefined DEF MergeState, Heaps
    <3>2. ASSUME NEW T PROVE Count(Merged[s], T) = Weight(s.heap, T) + Count(s.out, T)
      <4>1. <<>> \in Seq(Line)
        BY EmptySeq
      <4>2. Weight(s.heap, T) = 0 /\ Count(s.out, T) \in Nat
        BY <2>1, <3>1, <4>1, WeightFew, CountType
      <4> QED BY <3>1, <4>2
    <3> QED BY <3>2
  <2>2. CASE s.heap # <<>>
    <3>1. /\ MergeRound(s) \in S /\ size[MergeRound(s)] < size[s]
          /\ \A T : Weight(MergeRound(s).heap, T) + Count(MergeRound(s).out, T)
                     = Weight(s.heap, T) + Count(s.out, T)
      BY <2>2, RoundFacts
    <3>2. MergeRound(s) \in P /\ Merged[s] = Merged[MergeRound(s)]
      BY <1>2, <2>2, <3>1, MergedDefined
    <3> QED BY <3>1, <3>2
  <2> QED BY <2>1, <2>2
<1>3. \A s \in S : s \in P
  <2> HIDE DEF P, size, S
  <2> QED BY <1>1, <1>2, InductionOnSize
<1>4. Alike(Heap!FromVec(parts), parts)
  BY FromVecFacts
<1>5. start \in S /\ <<>> \in Seq(Line)
  BY <1>4, EmptySeq DEF MergeState, Heaps, Alike
<1>6. MergeAll(parts) = Merged[start]
  BY DEF MergeAll
<1>7. ASSUME NEW T PROVE Count(MergeAll(parts), T) = Weight(parts, T)
  <2>1. Count(Merged[start], T) = Weight(start.heap, T) + Count(start.out, T)
    BY <1>3, <1>5
  <2>2. Weight(start.heap, T) = Weight(parts, T) /\ Count(start.out, T) = 0
    BY <1>4, CountEmpty DEF Alike
  <2>3. Weight(parts, T) \in Nat
    BY WeightType DEF Heaps
  <2> QED BY <1>6, <2>1, <2>2, <2>3
<1> QED BY <1>5, <1>6, <1>7, MergedDefined

-----------------------------------------------------------------------------
(* Sorting a batch.                                                        *)

\* Order p is one in which s ascends.
Ascends(s, p) == \A i, j \in 1..Len(s) : i < j => s[p[i]] <= s[p[j]]
Orders(s) == Bijection(1..Len(s), 1..Len(s))

\* What a bijection of the positions is.
LEMMA OrderParts ==
  ASSUME NEW n \in Nat, NEW p
  PROVE  p \in Bijection(1..n, 1..n) <=>
           /\ p \in [1..n -> 1..n]
           /\ \A i, j \in 1..n : p[i] = p[j] => i = j
           /\ \A k \in 1..n : \E i \in 1..n : p[i] = k
BY DEF Bijection, Injection, Surjection, IsInjective

\* A line is inserted before the first one that is greater.
LEMMA OrderInserts ==
  ASSUME NEW u \in Seq(Line), NEW x \in Line, NEW p \in Orders(u), Ascends(u, p)
  PROVE  \E q \in Orders(Append(u, x)) : Ascends(Append(u, x), q)
<1> DEFINE n == Len(u)
           s == Append(u, x)
           greater == {i \in 1..n : u[p[i]] > x}
<1>1. /\ n \in Nat /\ s \in Seq(Line) /\ Len(s) = n + 1 /\ s[n + 1] = x
      /\ (\A i \in 1..n : s[i] = u[i]) /\ \A i \in 1..n : u[i] \in Line
  BY LenProperties, AppendProperties, ElementOfSeq
<1>2. x \in Nat /\ \A i \in 1..n : u[i] \in Nat
  BY <1>1, LineAssumption
<1>3. /\ p \in [1..n -> 1..n]
      /\ \A i, j \in 1..n : p[i] = p[j] => i = j
      /\ \A k \in 1..n : \E i \in 1..n : p[i] = k
  BY <1>1, OrderParts DEF Orders
<1>4. \A i, j \in 1..n : i < j => u[p[i]] <= u[p[j]]
  BY DEF Ascends
<1> HIDE DEF n, s
<1>p. \A i \in 1..n : p[i] \in 1..n /\ u[p[i]] \in Nat
  BY <1>2, <1>3
<1>5. PICK m \in 1..(n + 1) : /\ \A i \in 1..n : i < m => u[p[i]] <= x
                              /\ \A i \in 1..n : m <= i => x <= u[p[i]]
  <2>1. CASE greater = {}
    <3>1. \A i \in 1..n : u[p[i]] <= x
      BY <1>2, <1>3, <2>1, SMTT(30)
    <3>2. n + 1 \in 1..(n + 1) /\ \A i \in 1..n : ~ (n + 1 <= i)
      BY <1>1
    <3> QED BY <3>1, <3>2
  <2>2. CASE greater # {}
    <3>1. greater \subseteq Nat
      OBVIOUS
    <3>2. PICK m \in greater : \A i \in greater : m <= i
      <4> HIDE DEF greater
      <4> QED BY <2>2, <3>1, LeastElement
    <3>3. m \in 1..n /\ u[p[m]] > x
      BY <3>2
    <3>4. ASSUME NEW i \in 1..n, i < m PROVE u[p[i]] <= x
      <4>1. i \notin greater
        <5>1. ~ (m <= i) /\ i \in Nat
          BY <3>3, <3>4
        <5> HIDE DEF greater
        <5> QED BY <3>2, <5>1
      <4>2. ~ (u[p[i]] > x)
        BY <3>4, <4>1
      <4> QED BY <1>2, <1>p, <4>2
    <3>5. ASSUME NEW i \in 1..n, m <= i PROVE x <= u[p[i]]
      <4>2. u[p[i]] \in Nat /\ u[p[m]] \in Nat
        BY <1>p, <3>3
      <4>1. u[p[m]] <= u[p[i]]
        <5>1. CASE m = i
          BY <4>2, <5>1
        <5>2. CASE m < i
          BY <1>4, <3>3, <5>2
        <5> QED BY <3>3, <3>5, <5>1, <5>2
      <4> QED BY <1>2, <3>3, <4>1, <4>2
    <3>6. m \in 1..(n + 1)
      BY <1>1, <3>3
    <3> QED BY <3>4, <3>5, <3>6
  <2> QED BY <2>1, <2>2
<1> DEFINE q == [i \in 1..(n + 1) |-> IF i < m THEN p[i] ELSE IF i = m THEN n + 1 ELSE p[i - 1]]
<1>6. /\ \A i \in 1..(n + 1) : i < m => i \in 1..n /\ q[i] = p[i] /\ p[i] \in 1..n
      /\ q[m] = n + 1
      /\ \A i \in 1..(n + 1) : m < i => i - 1 \in 1..n /\ q[i] = p[i - 1] /\ p[i - 1] \in 1..n
  <2>1. ASSUME NEW i \in 1..(n + 1), i < m PROVE i \in 1..n /\ q[i] = p[i] /\ p[i] \in 1..n
    <3>1. i \in 1..n
      BY <1>1, <2>1
    <3> QED BY <1>p, <2>1, <3>1
  <2>2. q[m] = n + 1
    <3>1. ~ (m < m)
      BY <1>1
    <3> QED BY <3>1
  <2>3. ASSUME NEW i \in 1..(n + 1), m < i
        PROVE  i - 1 \in 1..n /\ q[i] = p[i - 1] /\ p[i - 1] \in 1..n
    <3>1. i - 1 \in 1..n /\ ~ (i < m) /\ i # m
      BY <1>1, <2>3
    <3> QED BY <1>p, <3>1
  <2> HIDE DEF q
  <2> QED BY <2>1, <2>2, <2>3
<1>7. q \in [1..(n + 1) -> 1..(n + 1)]
  <2>1. q = [i \in 1..(n + 1) |-> q[i]]
    OBVIOUS
  <2>2. \A k : k \in 1..n => k \in 1..(n + 1)
    BY <1>1
  <2>3. n + 1 \in 1..(n + 1)
    BY <1>1
  <2>4. \A i \in 1..(n + 1) : i < m \/ i = m \/ m < i
    BY <1>1
  <2> HIDE DEF q
  <2>5. ASSUME NEW i \in 1..(n + 1) PROVE q[i] \in 1..(n + 1)
    BY <1>6, <2>2, <2>3, <2>4
  <2> QED BY <2>1, <2>5
<1> HIDE DEF q
<1>8. ASSUME NEW i \in 1..(n + 1), NEW j \in 1..(n + 1), q[i] = q[j] PROVE i = j
  <2>1. \A k \in 1..(n + 1) : k < m \/ k = m \/ m < k
    BY <1>1, <1>5
  <2>2. n + 1 \notin 1..n
    BY <1>1
  <2>3. \A k, l \in 1..(n + 1) : k < m /\ m < l => k # l - 1
    BY <1>1, <1>5
  <2>4. \A k, l \in 1..(n + 1) : k - 1 = l - 1 => k = l
    BY <1>1
  <2>5. CASE i < m
    <3>1. q[i] = p[i] /\ i \in 1..n /\ p[i] \in 1..n
      BY <1>6, <2>5
    <3>2. CASE j < m
      BY <1>3, <1>6, <1>8, <3>1, <3>2, ZenonT(30)
    <3>3. CASE j = m
      BY <1>6, <1>8, <2>2, <3>1, <3>3
    <3>4. CASE m < j
      <4>1. q[j] = p[j - 1] /\ j - 1 \in 1..n
        BY <1>6, <3>4
      <4>2. i = j - 1
        BY <1>3, <1>8, <3>1, <4>1
      <4> QED BY <2>3, <2>5, <3>4, <4>2
    <3> QED BY <2>1, <3>2, <3>3, <3>4
  <2>6. CASE i = m
    BY <1>6, <1>8, <2>1, <2>2, <2>6
  <2>7. CASE m < i
    <3>1. q[i] = p[i - 1] /\ i - 1 \in 1..n /\ p[i - 1] \in 1..n
      BY <1>6, <2>7
    <3>2. CASE j < m
      <4>1. q[j] = p[j] /\ j \in 1..n
        BY <1>6, <3>2
      <4>2. j = i - 1
        BY <1>3, <1>8, <3>1, <4>1
      <4> QED BY <2>3, <2>7, <3>2, <4>2
    <3>3. CASE j = m
      BY <1>6, <1>8, <2>2, <3>1, <3>3
    <3>4. CASE m < j
      <4>1. q[j] = p[j - 1] /\ j - 1 \in 1..n
        BY <1>6, <3>4
      <4>2. i - 1 = j - 1
        BY <1>3, <1>8, <3>1, <4>1
      <4> QED BY <2>4, <4>2
    <3> QED BY <2>1, <3>2, <3>3, <3>4
  <2> QED BY <2>1, <2>5, <2>6, <2>7
<1>9. ASSUME NEW k \in 1..(n + 1) PROVE \E i \in 1..(n + 1) : q[i] = k
  <2>1. CASE k = n + 1
    BY <1>6, <2>1
  <2>2. CASE k # n + 1
    <3>1. k \in 1..n
      BY <1>1, <2>2
    <3>2. PICK i \in 1..n : p[i] = k
      BY <1>3, <3>1
    <3>3. CASE i < m
      <4>1. i \in 1..(n + 1)
        BY <1>1
      <4> QED BY <1>6, <3>2, <3>3, <4>1
    <3>4. CASE m <= i
      <4>1. i + 1 \in 1..(n + 1) /\ m < i + 1 /\ (i + 1) - 1 = i
        BY <1>1, <1>5, <3>4
      <4>2. q[i + 1] = p[(i + 1) - 1]
        BY <1>6, <4>1
      <4> QED BY <3>2, <4>1, <4>2
    <3> QED BY <1>5, <3>3, <3>4
  <2> QED BY <2>1, <2>2
<1>10. q \in Orders(s)
  <2>1. n + 1 \in Nat
    BY <1>1
  <2>2. q \in Bijection(1..(n + 1), 1..(n + 1))
    BY <1>7, <1>8, <1>9, <2>1, OrderParts
  <2> QED BY <1>1, <2>2 DEF Orders
<1>11. ASSUME NEW i \in 1..(n + 1), NEW j \in 1..(n + 1), i < j
       PROVE  s[q[i]] <= s[q[j]]
  <2>1. /\ \A k \in 1..(n + 1) : k < m => s[q[k]] = u[p[k]]
        /\ s[q[m]] = x
        /\ \A k \in 1..(n + 1) : m < k => s[q[k]] = u[p[k - 1]]
    BY <1>1, <1>6
  <2>2. CASE j < m
    <3>1. i < m /\ i \in 1..n /\ j \in 1..n
      BY <1>6, <1>11, <2>2, <1>1, <1>5
    <3> QED BY <1>4, <1>11, <2>1, <2>2, <3>1
  <2>3. CASE j = m
    <3>1. i < m /\ i \in 1..n
      BY <1>6, <1>11, <2>3
    <3> QED BY <1>5, <2>1, <2>3, <3>1
  <2>4. CASE m < j /\ i < m
    <3>1. i \in 1..n /\ j - 1 \in 1..n /\ i < j - 1
      BY <1>1, <1>5, <1>6, <2>4
    <3> QED BY <1>4, <2>1, <2>4, <3>1
  <2>5. CASE i = m
    <3>1. j - 1 \in 1..n /\ m <= j - 1 /\ m < j
      BY <1>1, <1>5, <1>6, <1>11, <2>5
    <3> QED BY <1>5, <2>1, <2>5, <3>1
  <2>6. CASE m < i
    <3>1. m < j /\ i - 1 < j - 1 /\ i - 1 \in 1..n /\ j - 1 \in 1..n
      BY <1>1, <1>5, <1>6, <1>11, <2>6
    <3> QED BY <1>4, <2>1, <2>6, <3>1
  <2> QED BY <1>1, <1>5, <1>11, <2>2, <2>3, <2>4, <2>5, <2>6
<1>12. Ascends(s, q)
  BY <1>1, <1>11 DEF Ascends
<1> QED BY <1>10, <1>12 DEF s

\* Every sequence of lines can be sorted.
LEMMA OrderExists ==
  \A s \in Seq(Line) : \E p \in Orders(s) : Ascends(s, p)
<1> DEFINE S == Seq(Line)
           size == [s \in S |-> Len(s)]
           P == {s \in S : \E p \in Orders(s) : Ascends(s, p)}
<1>1. size \in [S -> Nat]
  BY LenProperties
<1>2. ASSUME NEW s \in S, \A u \in S : size[u] < size[s] => u \in P
      PROVE  s \in P
  <2>1. CASE s = <<>>
    <3> DEFINE p == [i \in {} |-> i]
    <3>1. Len(s) = 0 /\ 1..0 = {} /\ 0 \in Nat
      BY <2>1
    <3>2. p \in [1..0 -> 1..0]
      BY <3>1
    <3> HIDE DEF p
    <3>3. p \in Bijection(1..0, 1..0)
      BY <3>1, <3>2, OrderParts
    <3> QED BY <3>1, <3>3 DEF Orders, Ascends
  <2>2. CASE s # <<>>
    <3>1. PICK u \in S, x \in Line : s = Append(u, x) /\ Len(s) = Len(u) + 1
      BY <2>2, FrontAndLast
    <3>2. u \in P
      <4>1. Len(u) \in Nat /\ Len(u) < Len(s)
        BY <3>1, LenProperties
      <4> QED BY <1>2, <4>1
    <3> QED BY <3>1, <3>2, OrderInserts
  <2> QED BY <2>1, <2>2
<1>3. \A s \in S : s \in P
  <2> HIDE DEF P, size, S
  <2> QED BY <1>1, <1>2, InductionOnSize
<1> QED BY <1>3

\* The lines of a batch, each as often as before, in ascending order.
LEMMA SortedFacts ==
  ASSUME NEW s \in Seq(Line)
  PROVE  /\ Sorted(s) \in Seq(Line) /\ Len(Sorted(s)) = Len(s)
         /\ \A T : Count(Sorted(s), T) = Count(s, T)
         /\ IsSorted(Sorted(s), <=)
<1> DEFINE n == Len(s)
           p == CHOOSE p \in Orders(s) : Ascends(s, p)
           t == [i \in 1..n |-> s[p[i]]]
<1>1. n \in Nat /\ \A i \in 1..n : s[i] \in Line
  BY LenProperties, ElementOfSeq
<1>2. p \in Orders(s) /\ Ascends(s, p)
  BY OrderExists
<1>3. Sorted(s) = t
  BY DEF Sorted, Orders, Ascends
<1> HIDE DEF p
<1>4. /\ p \in [1..n -> 1..n]
      /\ \A i, j \in 1..n : p[i] = p[j] => i = j
      /\ \A k \in 1..n : \E i \in 1..n : p[i] = k
  BY <1>1, <1>2, OrderParts DEF Orders
<1>5. t \in Seq(Line) /\ Len(t) = n /\ \A i \in 1..n : t[i] = s[p[i]]
  <2>1. \A i \in 1..n : s[p[i]] \in Line
    BY <1>1, <1>4
  <2> QED BY <1>1, <2>1
<1> HIDE DEF t, n
<1>6. ASSUME NEW T PROVE Count(t, T) = Count(s, T)
  <2> DEFINE f == [i \in Places(t, T) |-> p[i]]
  <2>1. f \in Bijection(Places(t, T), Places(s, T))
    <3>1. Places(t, T) = {i \in 1..n : s[p[i]] \in T} /\ Places(s, T) = {i \in 1..n : s[i] \in T}
      BY <1>5 DEF Places, n
    <3>2. f \in [Places(t, T) -> Places(s, T)]
      BY <1>4, <3>1
    <3>3. \A i, j \in Places(t, T) : f[i] = f[j] => i = j
      BY <1>4, <3>1
    <3>4. \A k \in Places(s, T) : \E i \in Places(t, T) : f[i] = k
      <4> TAKE k \in Places(s, T)
      <4>1. PICK i \in 1..n : p[i] = k
        BY <1>4, <3>1
      <4>2. i \in Places(t, T)
        BY <3>1, <4>1
      <4> QED BY <4>1, <4>2
    <3> HIDE DEF f
    <3> QED BY <3>2, <3>3, <3>4 DEF Bijection, Injection, Surjection, IsInjective
  <2>2. ExistsBijection(Places(t, T), Places(s, T)) /\ IsFiniteSet(Places(t, T))
    BY <1>5, <2>1, CountType DEF ExistsBijection
  <2> QED BY <2>2, FS_Bijection DEF Count
<1>7. \A i, j \in 1..Len(t) : i < j => t[i] <= t[j]
  BY <1>2, <1>5 DEF Ascends, n
<1>8. IsSorted(t, <=)
  BY <1>7 DEF IsSorted
<1> QED BY <1>3, <1>5, <1>6, <1>8 DEF n

-----------------------------------------------------------------------------
(* Chunks and jobs: how many of their lines are in a set T.                *)

ChunkWeight(cs, T) == Weight(LinesOfEach(cs), T)
JobWeight(jobs, T) == Count(JobLines(jobs), T)
LinesOfJobs(jobs) == [i \in 1..Len(jobs) |-> FlattenSeq(jobs[i].parts)]

\* The lines of chunks, taken piece by piece.
LEMMA LinesOfEachFacts ==
  ASSUME NEW a \in Seq(Chunk), NEW b \in Seq(Chunk), NEW c \in Chunk
  PROVE  /\ LinesOfEach(a) \in Heaps
         /\ LinesOfEach(a \o b) = LinesOfEach(a) \o LinesOfEach(b)
         /\ LinesOfEach(<<>>) = <<>> /\ LinesOfEach(<<c>>) = <<c.lines>>
<1>1. \A x \in Seq(Chunk) : /\ LinesOfEach(x) \in Heaps /\ Len(LinesOfEach(x)) = Len(x)
                            /\ \A i \in 1..Len(x) : LinesOfEach(x)[i] = x[i].lines
  <2> TAKE x \in Seq(Chunk)
  <2>0. \A i \in 1..Len(x) : x[i] \in Chunk
    BY ElementOfSeq
  <2>1. Len(x) \in Nat /\ \A i \in 1..Len(x) : x[i].lines \in Seq(Line)
    BY <2>0, LenProperties DEF Chunk
  <2> QED BY <2>1 DEF LinesOfEach, Lines, Heaps
<1>2. LinesOfEach(a \o b) = LinesOfEach(a) \o LinesOfEach(b)
  <2>1. /\ a \o b \in Seq(Chunk) /\ Len(a) \in Nat /\ Len(b) \in Nat
        /\ Len(a \o b) = Len(a) + Len(b)
        /\ \A i \in 1..(Len(a) + Len(b)) :
             (a \o b)[i] = IF i <= Len(a) THEN a[i] ELSE b[i - Len(a)]
    BY ConcatProperties, LenProperties
  <2> DEFINE x == LinesOfEach(a)
             y == LinesOfEach(b)
             z == LinesOfEach(a \o b)
  <2>2. /\ x \in Heaps /\ y \in Heaps /\ z \in Heaps
        /\ Len(x) = Len(a) /\ Len(y) = Len(b) /\ Len(z) = Len(a) + Len(b)
        /\ \A i \in 1..Len(a) : x[i] = a[i].lines
        /\ \A i \in 1..Len(b) : y[i] = b[i].lines
        /\ \A i \in 1..(Len(a) + Len(b)) : z[i] = (a \o b)[i].lines
    BY <1>1, <2>1
  <2> HIDE DEF x, y, z
  <2>3. /\ x \o y \in Heaps /\ Len(x \o y) = Len(a) + Len(b)
        /\ \A i \in 1..(Len(a) + Len(b)) :
             (x \o y)[i] = IF i <= Len(a) THEN x[i] ELSE y[i - Len(a)]
    <3>1. x \in Seq(Seq(Line)) /\ y \in Seq(Seq(Line))
      BY <2>2 DEF Heaps
    <3>2. /\ x \o y \in Seq(Seq(Line)) /\ Len(x \o y) = Len(x) + Len(y)
          /\ \A i \in 1..(Len(x) + Len(y)) :
               (x \o y)[i] = IF i <= Len(x) THEN x[i] ELSE y[i - Len(x)]
      BY <3>1, ConcatProperties
    <3> QED BY <2>2, <3>2 DEF Heaps
  <2>4. ASSUME NEW i \in 1..(Len(a) + Len(b)) PROVE z[i] = (x \o y)[i]
    <3>1. i \in 1..Len(a) \/ (~ (i <= Len(a)) /\ i - Len(a) \in 1..Len(b))
      BY <2>1
    <3>2. i \in 1..Len(a) => i <= Len(a)
      BY <2>1
    <3> QED BY <2>1, <2>2, <2>3, <3>1, <3>2
  <2>5. z = x \o y
    <3> HIDE DEF Heaps
    <3>1. x \o y \in Seq(Seq(Line)) /\ z \in Seq(Seq(Line))
      BY <2>2, <2>3 DEF Heaps
    <3> QED BY <2>2, <2>3, <2>4, <3>1, SeqEqual
  <2> QED BY <2>5 DEF x, y, z
<1>3. LinesOfEach(<<>>) = <<>> /\ LinesOfEach(<<c>>) = <<c.lines>>
  BY DEF LinesOfEach, Lines
<1> QED BY <1>1, <1>2, <1>3

\* The lines of jobs, taken piece by piece.
LEMMA LinesOfJobsFacts ==
  ASSUME NEW a \in Seq(Job), NEW b \in Seq(Job), NEW j \in Job
  PROVE  /\ LinesOfJobs(a) \in Heaps
         /\ LinesOfJobs(a \o b) = LinesOfJobs(a) \o LinesOfJobs(b)
         /\ LinesOfJobs(<<>>) = <<>> /\ LinesOfJobs(<<j>>) = <<FlattenSeq(j.parts)>>
<1>1. \A x \in Seq(Job) : /\ LinesOfJobs(x) \in Heaps /\ Len(LinesOfJobs(x)) = Len(x)
                          /\ \A i \in 1..Len(x) : LinesOfJobs(x)[i] = FlattenSeq(x[i].parts)
  <2> TAKE x \in Seq(Job)
  <2>0. \A i \in 1..Len(x) : x[i] \in Job
    BY ElementOfSeq
  <2>1. \A i \in 1..Len(x) : x[i].parts \in Seq(Seq(Line))
    BY <2>0 DEF Job
  <2>2. \A h \in Seq(Seq(Line)) : FlattenSeq(h) \in Seq(Line)
    BY FlattenType
  <2>3. Len(x) \in Nat /\ \A i \in 1..Len(x) : FlattenSeq(x[i].parts) \in Seq(Line)
    BY <2>1, <2>2, LenProperties
  <2> QED BY <2>3 DEF LinesOfJobs, Heaps
<1>2. LinesOfJobs(a \o b) = LinesOfJobs(a) \o LinesOfJobs(b)
  <2>1. /\ a \o b \in Seq(Job) /\ Len(a) \in Nat /\ Len(b) \in Nat
        /\ Len(a \o b) = Len(a) + Len(b)
        /\ \A i \in 1..(Len(a) + Len(b)) :
             (a \o b)[i] = IF i <= Len(a) THEN a[i] ELSE b[i - Len(a)]
    BY ConcatProperties, LenProperties
  <2> DEFINE x == LinesOfJobs(a)
             y == LinesOfJobs(b)
             z == LinesOfJobs(a \o b)
  <2>2. /\ x \in Heaps /\ y \in Heaps /\ z \in Heaps
        /\ Len(x) = Len(a) /\ Len(y) = Len(b) /\ Len(z) = Len(a) + Len(b)
        /\ \A i \in 1..Len(a) : x[i] = FlattenSeq(a[i].parts)
        /\ \A i \in 1..Len(b) : y[i] = FlattenSeq(b[i].parts)
        /\ \A i \in 1..(Len(a) + Len(b)) : z[i] = FlattenSeq((a \o b)[i].parts)
    BY <1>1, <2>1
  <2> HIDE DEF x, y, z
  <2>3. /\ x \o y \in Heaps /\ Len(x \o y) = Len(a) + Len(b)
        /\ \A i \in 1..(Len(a) + Len(b)) :
             (x \o y)[i] = IF i <= Len(a) THEN x[i] ELSE y[i - Len(a)]
    <3>1. x \in Seq(Seq(Line)) /\ y \in Seq(Seq(Line))
      BY <2>2 DEF Heaps
    <3>2. /\ x \o y \in Seq(Seq(Line)) /\ Len(x \o y) = Len(x) + Len(y)
          /\ \A i \in 1..(Len(x) + Len(y)) :
               (x \o y)[i] = IF i <= Len(x) THEN x[i] ELSE y[i - Len(x)]
      BY <3>1, ConcatProperties
    <3> QED BY <2>2, <3>2 DEF Heaps
  <2>4. ASSUME NEW i \in 1..(Len(a) + Len(b)) PROVE z[i] = (x \o y)[i]
    <3>1. i \in 1..Len(a) \/ (~ (i <= Len(a)) /\ i - Len(a) \in 1..Len(b))
      BY <2>1
    <3>2. i \in 1..Len(a) => i <= Len(a)
      BY <2>1
    <3> QED BY <2>1, <2>2, <2>3, <3>1, <3>2
  <2>5. z = x \o y
    <3> HIDE DEF Heaps
    <3>1. x \o y \in Seq(Seq(Line)) /\ z \in Seq(Seq(Line))
      BY <2>2, <2>3 DEF Heaps
    <3> QED BY <2>2, <2>3, <2>4, <3>1, SeqEqual
  <2> QED BY <2>5 DEF x, y, z
<1>3. LinesOfJobs(<<>>) = <<>> /\ LinesOfJobs(<<j>>) = <<FlattenSeq(j.parts)>>
  BY DEF LinesOfJobs
<1> QED BY <1>1, <1>2, <1>3

\* The weight of jobs is that of the lines of their parts.
LEMMA JobWeightIs ==
  ASSUME NEW a \in Seq(Job), NEW T
  PROVE  /\ JobLines(a) \in Seq(Line) /\ JobWeight(a, T) = Weight(LinesOfJobs(a), T)
         /\ JobWeight(a, T) \in Nat
<1>1. JobLines(a) = FlattenSeq(LinesOfJobs(a))
  BY DEF JobLines, LinesOfJobs
<1>2. LinesOfJobs(a) \in Seq(Seq(Line))
  <2>1. Job # {}
    <3>1. [kind |-> "sort", parts |-> <<>>] \in Job
      BY EmptySeq DEF Job
    <3> QED BY <3>1
  <2>2. \A j \in Job : LinesOfJobs(a) \in Heaps
    BY LinesOfJobsFacts
  <2> QED BY <2>1, <2>2 DEF Heaps
<1> QED BY <1>1, <1>2, WeightType DEF JobWeight, Weight

\* The weights of two sequences of jobs add up.
LEMMA JobWeightConcat ==
  ASSUME NEW a \in Seq(Job), NEW b \in Seq(Job), NEW T
  PROVE  JobWeight(a \o b, T) = JobWeight(a, T) + JobWeight(b, T)
<1>1. a \o b \in Seq(Job)
  BY ConcatProperties
<1>2. PICK j : j \in Job
  <2>1. [kind |-> "sort", parts |-> <<>>] \in Job
    BY EmptySeq DEF Job
  <2> QED BY <2>1
<1>3. /\ LinesOfJobs(a) \in Seq(Seq(Line)) /\ LinesOfJobs(b) \in Seq(Seq(Line))
      /\ LinesOfJobs(a \o b) = LinesOfJobs(a) \o LinesOfJobs(b)
  BY <1>2, LinesOfJobsFacts DEF Heaps
<1>4. \A x \in Seq(Job) : JobWeight(x, T) = Weight(LinesOfJobs(x), T)
  BY JobWeightIs
<1>5. Weight(LinesOfJobs(a) \o LinesOfJobs(b), T) = Weight(LinesOfJobs(a), T) + Weight(LinesOfJobs(b), T)
  BY <1>3, WeightConcat
<1> QED BY <1>1, <1>3, <1>4, <1>5

\* The weight of no job, and of one.
LEMMA JobWeightFew ==
  ASSUME NEW j \in Job, NEW T
  PROVE  JobWeight(<<>>, T) = 0 /\ JobWeight(<<j>>, T) = Weight(j.parts, T)
<1>1. <<>> \in Seq(Job) /\ <<j>> \in Seq(Job)
  BY EmptySeq
<1>2. LinesOfJobs(<<>>) = <<>> /\ LinesOfJobs(<<j>>) = <<FlattenSeq(j.parts)>>
  BY <1>1, LinesOfJobsFacts
<1>3. FlattenSeq(j.parts) \in Seq(Line)
  BY WeightType DEF Job
<1>4. \A x \in Seq(Job) : JobWeight(x, T) = Weight(LinesOfJobs(x), T)
  BY JobWeightIs
<1>5. Weight(<<>>, T) = 0 /\ Weight(<<FlattenSeq(j.parts)>>, T) = Count(FlattenSeq(j.parts), T)
  BY <1>3, WeightFew
<1> QED BY <1>1, <1>2, <1>4, <1>5 DEF Weight

\* A job is put at the end of the queue, or taken from its front.
LEMMA JobWeightAppend ==
  ASSUME NEW a \in Seq(Job), NEW j \in Job, NEW T
  PROVE  JobWeight(Append(a, j), T) = JobWeight(a, T) + Weight(j.parts, T)
<1>1. Append(a, j) = a \o <<j>> /\ <<j>> \in Seq(Job)
  BY AppendIsConcat
<1>2. JobWeight(a \o <<j>>, T) = JobWeight(a, T) + JobWeight(<<j>>, T)
  BY <1>1, JobWeightConcat
<1> QED BY <1>1, <1>2, JobWeightFew

\* Taking the first job out takes its weight.
LEMMA JobWeightHead ==
  ASSUME NEW a \in Seq(Job), a # <<>>, NEW T
  PROVE  /\ Head(a) \in Job /\ Tail(a) \in Seq(Job)
         /\ JobWeight(a, T) = Weight(Head(a).parts, T) + JobWeight(Tail(a), T)
<1>1. Head(a) \in Job /\ Tail(a) \in Seq(Job) /\ <<Head(a)>> \in Seq(Job)
  BY HeadTailProperties
<1>2. a = <<Head(a)>> \o Tail(a)
  BY HeadTailProperties, <1>1
<1>3. JobWeight(<<Head(a)>> \o Tail(a), T) = JobWeight(<<Head(a)>>, T) + JobWeight(Tail(a), T)
  BY <1>1, JobWeightConcat
<1> QED BY <1>1, <1>2, <1>3, JobWeightFew

\* The same facts about the vector of chunks.
LEMMA ChunkWeightFacts ==
  ASSUME NEW a \in Seq(Chunk), NEW b \in Seq(Chunk), NEW c \in Chunk, NEW T
  PROVE  /\ ChunkWeight(a, T) \in Nat /\ Count(c.lines, T) \in Nat
         /\ ChunkWeight(a \o b, T) = ChunkWeight(a, T) + ChunkWeight(b, T)
         /\ ChunkWeight(<<>>, T) = 0 /\ ChunkWeight(<<c>>, T) = Count(c.lines, T)
         /\ ChunkWeight(Append(a, c), T) = ChunkWeight(a, T) + Count(c.lines, T)
<1>1. /\ a \o b \in Seq(Chunk) /\ <<c>> \in Seq(Chunk) /\ Append(a, c) = a \o <<c>>
      /\ c.lines \in Seq(Line)
  BY ConcatProperties, AppendIsConcat DEF Chunk
<1>2. \A x, y \in Seq(Chunk) : ChunkWeight(x \o y, T) = ChunkWeight(x, T) + ChunkWeight(y, T)
  <2> TAKE x, y \in Seq(Chunk)
  <2>1. /\ LinesOfEach(x) \in Seq(Seq(Line)) /\ LinesOfEach(y) \in Seq(Seq(Line))
        /\ LinesOfEach(x \o y) = LinesOfEach(x) \o LinesOfEach(y)
    BY LinesOfEachFacts DEF Heaps
  <2> QED BY <2>1, WeightConcat DEF ChunkWeight
<1>3. ChunkWeight(<<>>, T) = 0 /\ ChunkWeight(<<c>>, T) = Count(c.lines, T)
  <2>1. LinesOfEach(<<>>) = <<>> /\ LinesOfEach(<<c>>) = <<c.lines>>
    BY LinesOfEachFacts
  <2> QED BY <1>1, <2>1, WeightFew DEF ChunkWeight
<1>4. ChunkWeight(a, T) \in Nat /\ Count(c.lines, T) \in Nat
  BY <1>1, LinesOfEachFacts, WeightType, CountType DEF ChunkWeight, Heaps
<1> QED BY <1>1, <1>2, <1>3, <1>4

\* What Request puts back, and what it takes: together, all.
LEMMA ThoseFacts ==
  \A cs \in Seq(Chunk) :
    /\ Those(cs, TRUE) \in Seq(Chunk) /\ Those(cs, FALSE) \in Seq(Chunk)
    /\ \A T : ChunkWeight(Those(cs, TRUE), T) + ChunkWeight(Those(cs, FALSE), T)
                = ChunkWeight(cs, T)
<1> DEFINE S == Seq(Chunk)
           size == [cs \in S |-> Len(cs)]
           P == {cs \in S : /\ Those(cs, TRUE) \in S /\ Those(cs, FALSE) \in S
                            /\ \A T : ChunkWeight(Those(cs, TRUE), T)
                                        + ChunkWeight(Those(cs, FALSE), T)
                                      = ChunkWeight(cs, T)}
           Pick(c, d) == IF IsDone(c) = d THEN <<c>> ELSE <<>>
           Picks(cs, d) == [i \in 1..Len(cs) |-> Pick(cs[i], d)]
<1>1. size \in [S -> Nat]
  BY LenProperties
<1>2. \A cs, d : Those(cs, d) = FlattenSeq(Picks(cs, d))
  BY DEF Those
<1>3. \A c \in Chunk : \/ Pick(c, TRUE) = <<c>> /\ Pick(c, FALSE) = <<>>
                       \/ Pick(c, TRUE) = <<>> /\ Pick(c, FALSE) = <<c>>
  BY DEF IsDone, Chunk
<1>4. \A c \in Chunk : \A d : Pick(c, d) \in S
  BY EmptySeq
<1> HIDE DEF Pick
<1>5. ASSUME NEW cs \in S, NEW d PROVE Picks(cs, d) \in Seq(S) /\ Len(Picks(cs, d)) = Len(cs)
  <2>1. Len(cs) \in Nat /\ \A i \in 1..Len(cs) : cs[i] \in Chunk
    BY ElementOfSeq, LenProperties
  <2>2. \A i \in 1..Len(cs) : Pick(cs[i], d) \in S
    BY <1>4, <2>1
  <2> QED BY <2>1, <2>2
<1>6. ASSUME NEW u \in S, NEW c \in Chunk, NEW d
      PROVE  Picks(Append(u, c), d) = Append(Picks(u, d), Pick(c, d))
  <2>1. /\ Append(u, c) \in S /\ Len(Append(u, c)) = Len(u) + 1 /\ Len(u) \in Nat
        /\ Append(u, c)[Len(u) + 1] = c /\ \A i \in 1..Len(u) : Append(u, c)[i] = u[i]
    BY AppendProperties, LenProperties
  <2>2. /\ Picks(Append(u, c), d) \in Seq(S) /\ Len(Picks(Append(u, c), d)) = Len(u) + 1
        /\ Picks(u, d) \in Seq(S) /\ Len(Picks(u, d)) = Len(u)
    BY <1>5, <2>1
  <2>3. /\ \A i \in 1..Len(u) : Picks(Append(u, c), d)[i] = Pick(u[i], d)
        /\ Picks(Append(u, c), d)[Len(u) + 1] = Pick(c, d)
        /\ \A i \in 1..Len(u) : Picks(u, d)[i] = Pick(u[i], d)
    BY <2>1
  <2> DEFINE x == Picks(Append(u, c), d)
             y == Picks(u, d)
             n == Len(u)
  <2> HIDE DEF Picks, x, y, n, S
  <2>4. Pick(c, d) \in S
    BY <1>4
  <2>5. /\ x \in Seq(S) /\ Len(x) = n + 1 /\ y \in Seq(S) /\ Len(y) = n /\ n \in Nat
        /\ \A i \in 1..n : x[i] = y[i]
        /\ x[n + 1] = Pick(c, d)
    BY <2>1, <2>2, <2>3 DEF x, y, n
  <2>6. /\ Append(y, Pick(c, d)) \in Seq(S) /\ Len(Append(y, Pick(c, d))) = n + 1
        /\ Append(y, Pick(c, d))[n + 1] = Pick(c, d)
        /\ \A i \in 1..n : Append(y, Pick(c, d))[i] = y[i]
    BY <2>4, <2>5, AppendProperties
  <2>7. \A i \in 1..(n + 1) : i \in 1..n \/ i = n + 1
    BY <2>5
  <2>8. x = Append(y, Pick(c, d))
    BY <2>5, <2>6, <2>7, SeqEqual
  <2> QED BY <2>8 DEF x, y
<1> HIDE DEF Picks
<1>7. ASSUME NEW u \in S, NEW c \in Chunk, NEW d
      PROVE  Those(Append(u, c), d) = Those(u, d) \o Pick(c, d)
  <2>1. Picks(u, d) \in Seq(Seq(Chunk)) /\ Pick(c, d) \in Seq(Chunk)
    BY <1>4, <1>5
  <2> QED BY <1>2, <1>6, <2>1, FlattenAppend
<1>8. ASSUME NEW cs \in S, \A u \in S : size[u] < size[cs] => u \in P
      PROVE  cs \in P
  <2>1. CASE cs = <<>>
    <3>1. \A d : Picks(cs, d) = <<>>
      BY <2>1 DEF Picks
    <3>2. \A d : Those(cs, d) = <<>>
      BY <1>2, <3>1, FlattenEmpty
    <3>3. <<>> \in S
      BY EmptySeq
    <3>4. ASSUME NEW T PROVE ChunkWeight(<<>>, T) = 0
      <4>1. LinesOfEach(<<>>) = <<>> /\ <<>> \in Seq(Line)
        BY EmptySeq DEF LinesOfEach
      <4> QED BY <4>1, WeightFew DEF ChunkWeight
    <3>5. Those(cs, TRUE) = <<>> /\ Those(cs, FALSE) = <<>>
      BY <3>2
    <3>6. ASSUME NEW T PROVE ChunkWeight(<<>>, T) + ChunkWeight(<<>>, T) = ChunkWeight(<<>>, T)
      BY <3>4
    <3> QED BY <2>1, <3>3, <3>5, <3>6
  <2>2. CASE cs # <<>>
    <3>1. PICK u \in S, c \in Chunk : cs = Append(u, c) /\ Len(cs) = Len(u) + 1
      BY <2>2, FrontAndLast
    <3>2. u \in P
      <4>1. Len(u) \in Nat /\ Len(u) < Len(cs)
        BY <3>1, LenProperties
      <4> QED BY <1>8, <4>1
    <3> DEFINE yes == Those(u, TRUE)
               no == Those(u, FALSE)
    <3>3. yes \in S /\ no \in S
      BY <3>2
    <3>4. \A T : ChunkWeight(yes, T) + ChunkWeight(no, T) = ChunkWeight(u, T)
      BY <3>2
    <3>5. Those(cs, TRUE) = yes \o Pick(c, TRUE) /\ Those(cs, FALSE) = no \o Pick(c, FALSE)
      BY <1>7, <3>1
    <3>6. Pick(c, TRUE) \in S /\ Pick(c, FALSE) \in S
      BY <1>4
    <3> HIDE DEF yes, no
    <3>7. yes \o Pick(c, TRUE) \in S /\ no \o Pick(c, FALSE) \in S
      BY <3>3, <3>6, ConcatProperties
    <3>8. ASSUME NEW T
          PROVE  ChunkWeight(yes \o Pick(c, TRUE), T) + ChunkWeight(no \o Pick(c, FALSE), T)
                   = ChunkWeight(cs, T)
      <4>1. /\ ChunkWeight(yes \o Pick(c, TRUE), T) = ChunkWeight(yes, T) + ChunkWeight(Pick(c, TRUE), T)
            /\ ChunkWeight(no \o Pick(c, FALSE), T) = ChunkWeight(no, T) + ChunkWeight(Pick(c, FALSE), T)
        <5>1. \A x, y \in S : ChunkWeight(x \o y, T) = ChunkWeight(x, T) + ChunkWeight(y, T)
          <6> TAKE x, y \in S
          <6> HIDE DEF S
          <6>1. x \in Seq(Chunk) /\ y \in Seq(Chunk)
            BY DEF S
          <6> QED BY <6>1, ChunkWeightFacts, ZenonT(30)
        <5> QED BY <3>3, <3>6, <5>1
      <4>2. /\ ChunkWeight(cs, T) = ChunkWeight(u, T) + Count(c.lines, T)
            /\ ChunkWeight(<<c>>, T) = Count(c.lines, T) /\ ChunkWeight(<<>>, T) = 0
            /\ Count(c.lines, T) \in Nat /\ ChunkWeight(u, T) \in Nat
        BY <3>1, ChunkWeightFacts
      <4>3. ChunkWeight(yes, T) \in Nat /\ ChunkWeight(no, T) \in Nat
        BY <3>3, ChunkWeightFacts
      <4>4. \/ Pick(c, TRUE) = <<c>> /\ Pick(c, FALSE) = <<>>
            \/ Pick(c, TRUE) = <<>> /\ Pick(c, FALSE) = <<c>>
        BY <1>3
      <4>5. ChunkWeight(Pick(c, TRUE), T) + ChunkWeight(Pick(c, FALSE), T) = Count(c.lines, T)
            /\ ChunkWeight(Pick(c, TRUE), T) \in Nat /\ ChunkWeight(Pick(c, FALSE), T) \in Nat
        <5> DEFINE one == ChunkWeight(Pick(c, TRUE), T)
                   two == ChunkWeight(Pick(c, FALSE), T)
                   k == Count(c.lines, T)
        <5>1. (one = k /\ two = 0) \/ (one = 0 /\ two = k)
          BY <4>2, <4>4
        <5>2. k \in Nat
          BY <4>2
        <5> HIDE DEF one, two, k
        <5>3. one + two = k /\ one \in Nat /\ two \in Nat
          BY <5>1, <5>2
        <5> QED BY <5>3 DEF one, two, k
      <4>6. ChunkWeight(yes, T) + ChunkWeight(no, T) = ChunkWeight(u, T)
        BY <3>4
      <4> DEFINE a == ChunkWeight(yes, T)
                 b == ChunkWeight(no, T)
                 d == ChunkWeight(Pick(c, TRUE), T)
                 e == ChunkWeight(Pick(c, FALSE), T)
      <4>7. a \in Nat /\ b \in Nat /\ d \in Nat /\ e \in Nat
        BY <4>3, <4>5
      <4>8. (a + b) + (d + e) = ChunkWeight(cs, T)
        BY <4>2, <4>5, <4>6
      <4> HIDE DEF a, b, d, e
      <4>9. (a + d) + (b + e) = (a + b) + (d + e)
        BY <4>7
      <4> QED BY <4>1, <4>8, <4>9 DEF a, b, d, e
    <3> QED BY <3>5, <3>7, <3>8
  <2> QED BY <2>1, <2>2
<1>9. \A cs \in S : cs \in P
  <2> HIDE DEF P, size, S
  <2> QED BY <1>1, <1>8, InductionOnSize
<1> QED BY <1>9

-----------------------------------------------------------------------------
(* The chunks are dealt out to merge jobs.                                 *)

\* The equation that defines Dealt has a solution.
LEMMA DealtDefined ==
  /\ Dealt \in [Heaps -> Seq(Heaps)]
  /\ \A cs \in Heaps :
       Dealt[cs] = IF cs = <<>> THEN <<>>
                   ELSE IF Len(cs) <= NWayMerge THEN <<cs>>
                   ELSE <<SubSeq(cs, 1, NWayMerge)>> \o Dealt[SubSeq(cs, NWayMerge + 1, Len(cs))]
<1> DEFINE S == Heaps
           V == Seq(Heaps)
           Is(f) == f = [cs \in S |->
                           IF cs = <<>> THEN <<>>
                           ELSE IF Len(cs) <= NWayMerge THEN <<cs>>
                           ELSE <<SubSeq(cs, 1, NWayMerge)>> \o f[SubSeq(cs, NWayMerge + 1, Len(cs))]]
           size == [cs \in S |-> Len(cs)]
           Base == {cs \in S : Len(cs) <= NWayMerge}
           base == [cs \in Base |-> IF cs = <<>> THEN <<>> ELSE <<cs>>]
           First(cs) == SubSeq(cs, 1, NWayMerge)
           Others(cs) == SubSeq(cs, NWayMerge + 1, Len(cs))
           smaller == [cs \in S \ Base |-> Others(cs)]
           step == [cs \in S \ Base |-> [v \in V |-> <<First(cs)>> \o v]]
<1>1. Dealt = CHOOSE f : Is(f)
  BY DEF Dealt, Heaps
<1>2. size \in [S -> Nat] /\ NWayMerge \in Nat \ {0}
  BY LenProperties, NWayMergeAssumption DEF Heaps
<1>3. ASSUME NEW cs \in S \ Base
      PROVE  First(cs) \in S /\ Others(cs) \in S /\ size[Others(cs)] < size[cs]
  <2>1. Len(cs) \in Nat /\ NWayMerge \in 0..Len(cs)
    BY <1>2, LenProperties DEF Heaps
  <2>2. cs \in Seq(Seq(Line))
    BY DEF Heaps
  <2>3. /\ First(cs) \in Seq(Seq(Line)) /\ Others(cs) \in Seq(Seq(Line))
        /\ Len(Others(cs)) = Len(cs) - NWayMerge
    BY <2>1, <2>2, CutInTwo
  <2>4. First(cs) \in S /\ Others(cs) \in S
    BY <2>3 DEF Heaps
  <2> HIDE DEF S, Others
  <2>5. size[Others(cs)] = Len(cs) - NWayMerge /\ size[cs] = Len(cs)
    BY <2>3, <2>4
  <2> QED BY <1>2, <2>1, <2>4, <2>5
<1>4. \A cs \in S \ Base, v \in V : <<First(cs)>> \o v \in V
  <2> TAKE cs \in S \ Base, v \in V
  <2>1. First(cs) \in S
    BY <1>3
  <2> HIDE DEF Base, First
  <2>2. <<First(cs)>> \in V
    BY <2>1
  <2> HIDE DEF S
  <2> QED BY <2>2, ConcatProperties
<1>5. base \in [Base -> V]
  <2>1. \A cs \in Base : (IF cs = <<>> THEN <<>> ELSE <<cs>>) \in V
    BY EmptySeq
  <2> QED BY <2>1
<1>6. \A cs \in S : cs \in Base <=> Len(cs) <= NWayMerge
  OBVIOUS
<1>7. <<>> \in S => <<>> \in Base
  BY <1>2
<1>8. base = [cs \in Base |-> IF cs = <<>> THEN <<>> ELSE <<cs>>]
  OBVIOUS
<1> HIDE DEF S, V, size, Base, base, First, Others
<1>9. /\ smaller \in [S \ Base -> S] /\ step \in [S \ Base -> [V -> V]]
      /\ \A cs \in S \ Base : size[smaller[cs]] < size[cs]
  BY <1>3, <1>4
<1>10. Base \in SUBSET S
  BY DEF Base
<1>11. RecursionOn(S, V, size, Base, base, smaller, step)
  BY <1>2, <1>5, <1>9, <1>10 DEF RecursionOn
<1>12. PICK f \in [S -> V] : Recursive(f, S, Base, base, smaller, step)
  <2> HIDE DEF smaller, step
  <2> QED BY <1>11, RecursiveFunctionExists
<1> DEFINE Value(g, cs) == IF cs = <<>> THEN <<>>
                           ELSE IF Len(cs) <= NWayMerge THEN <<cs>>
                           ELSE <<First(cs)>> \o g[Others(cs)]
<1>13. ASSUME NEW cs \in S PROVE f[cs] = Value(f, cs)
  <2>1. f[cs] = IF cs \in Base THEN base[cs] ELSE step[cs][f[smaller[cs]]]
    <3> HIDE DEF smaller, step
    <3> QED BY <1>12 DEF Recursive
  <2>2. CASE cs \in Base
    BY <1>6, <1>8, <2>1, <2>2
  <2>3. CASE cs \notin Base
    <3>1. cs # <<>> /\ ~ (Len(cs) <= NWayMerge)
      BY <1>6, <1>7, <2>3
    <3>2. Others(cs) \in S /\ f[Others(cs)] \in V
      BY <1>3, <1>12, <2>3
    <3>3. step[cs][f[smaller[cs]]] = <<First(cs)>> \o f[Others(cs)]
      BY <2>3, <3>2
    <3> QED BY <2>1, <2>3, <3>1, <3>3
  <2> QED BY <2>2, <2>3
<1>14. Is(f)
  <2> DEFINE value == [cs \in S |-> Value(f, cs)]
  <2>1. f = value
    BY <1>12, <1>13
  <2> QED BY <2>1 DEF First, Others
<1>15. Is(Dealt)
  <2> HIDE DEF Is
  <2> QED BY <1>1, <1>14
<1>16. \A cs \in S : Dealt[cs] = Value(Dealt, cs)
  BY <1>15 DEF First, Others
<1>17. \A cs \in S : Dealt[cs] \in V
  <2> DEFINE P == {cs \in S : Dealt[cs] \in V}
  <2>1. ASSUME NEW cs \in S, \A u \in S : size[u] < size[cs] => u \in P
        PROVE  cs \in P
    <3>1. CASE cs \in Base
      <4>1. Value(Dealt, cs) = base[cs]
        BY <1>6, <1>8, <3>1
      <4>2. base[cs] \in V
        <5> HIDE DEF V, base, Base
        <5> QED BY <1>5, <3>1
      <4> HIDE DEF Value
      <4> QED BY <1>16, <4>1, <4>2
    <3>2. CASE cs \notin Base
      <4>1. Others(cs) \in P
        BY <1>3, <2>1, <3>2
      <4>2. <<First(cs)>> \o Dealt[Others(cs)] \in V
        BY <1>4, <3>2, <4>1
      <4>3. cs # <<>> /\ ~ (Len(cs) <= NWayMerge)
        BY <1>6, <1>7, <3>2
      <4> QED BY <1>16, <4>2, <4>3
    <3> QED BY <3>1, <3>2
  <2> HIDE DEF P
  <2>2. \A cs \in S : cs \in P
    BY <1>2, <2>1, InductionOnSize
  <2> QED BY <2>2 DEF P
<1>18. Dealt \in [S -> V]
  <2> HIDE DEF Value
  <2>1. Dealt = [cs \in S |-> Dealt[cs]]
    BY <1>15
  <2> QED BY <1>17, <2>1
<1> QED BY <1>16, <1>18 DEF S, V, First, Others

\* The merge jobs get all the chunks, in their order.
LEMMA DealtFacts ==
  \A cs \in Heaps : Dealt[cs] \in Seq(Heaps) /\ FlattenSeq(Dealt[cs]) = cs
<1> DEFINE S == Heaps
           size == [cs \in S |-> Len(cs)]
           P == {cs \in S : FlattenSeq(Dealt[cs]) = cs}
<1>1. size \in [S -> Nat] /\ NWayMerge \in Nat \ {0}
  BY LenProperties, NWayMergeAssumption DEF Heaps
<1>2. \A cs \in S : Dealt[cs] \in Seq(Heaps)
  BY DealtDefined
<1>3. ASSUME NEW cs \in S, \A u \in S : size[u] < size[cs] => u \in P
      PROVE  cs \in P
  <2>1. CASE cs = <<>>
    BY <2>1, DealtDefined, FlattenEmpty
  <2>2. CASE cs # <<>> /\ Len(cs) <= NWayMerge
    <3>1. Dealt[cs] = <<cs>>
      BY <2>2, DealtDefined
    <3>2. cs \in Seq(Seq(Line)) /\ <<>> \in Seq(Seq(Seq(Line))) /\ <<cs>> \o <<>> = <<cs>>
      BY EmptySeq DEF Heaps
    <3>3. FlattenSeq(<<cs>> \o <<>>) = cs \o FlattenSeq(<<>>)
      BY <3>2, FlattenCons
    <3>4. cs \o <<>> = cs
      BY <3>2, ConcatEmptySeq
    <3> QED BY <3>1, <3>2, <3>3, <3>4, FlattenEmpty
  <2>3. CASE cs # <<>> /\ ~ (Len(cs) <= NWayMerge)
    <3> DEFINE first == SubSeq(cs, 1, NWayMerge)
               others == SubSeq(cs, NWayMerge + 1, Len(cs))
    <3>1. cs \in Seq(Seq(Line)) /\ NWayMerge \in 0..Len(cs) /\ Len(cs) \in Nat
      BY <1>1, <2>3, LenProperties DEF Heaps
    <3>2. /\ first \in Seq(Seq(Line)) /\ others \in Seq(Seq(Line))
          /\ Len(others) = Len(cs) - NWayMerge /\ first \o others = cs
      BY <3>1, CutInTwo
    <3>3. Dealt[cs] = <<first>> \o Dealt[others]
      BY <2>3, DealtDefined
    <3> HIDE DEF first, others
    <3>4. others \in S /\ size[others] < size[cs]
      <4>1. others \in S
        BY <3>2 DEF Heaps
      <4>2. Len(others) < Len(cs)
        BY <1>1, <3>1, <3>2
      <4> QED BY <4>1, <4>2
    <3>5. others \in P
      BY <1>3, <3>4
    <3>6. Dealt[others] \in Seq(Seq(Seq(Line)))
      BY <1>2, <3>4 DEF Heaps
    <3>7. FlattenSeq(<<first>> \o Dealt[others]) = first \o FlattenSeq(Dealt[others])
      BY <3>2, <3>6, FlattenCons
    <3> QED BY <3>2, <3>3, <3>5, <3>7
  <2> QED BY <2>1, <2>2, <2>3
<1>4. \A cs \in S : cs \in P
  <2> HIDE DEF P, size, S
  <2> QED BY <1>1, <1>3, InductionOnSize
<1> QED BY <1>2, <1>4

\* The jobs of one merge.
MergeJobs(kind, group) == [i \in 1..Len(group) |-> [kind |-> kind, parts |-> group[i]]]

\* The merge jobs have all lines of the chunks that are dealt out.
LEMMA MergeJobsFacts ==
  ASSUME NEW kind \in {"merge", "merge_flush"}, NEW cs \in Heaps
  PROVE  LET jobs == MergeJobs(kind, Dealt[cs])
         IN  /\ jobs \in Seq(Job) /\ Len(jobs) = Len(Dealt[cs])
             /\ \A i \in 1..Len(jobs) : jobs[i].kind # "sort"
             /\ \A T : JobWeight(jobs, T) = Weight(cs, T)
<1> DEFINE g == Dealt[cs]
           jobs == MergeJobs(kind, g)
<1>1. g \in Seq(Seq(Seq(Line))) /\ FlattenSeq(g) = cs
  BY DealtFacts DEF Heaps
<1> HIDE DEF g
<1>2. Len(g) \in Nat /\ \A i \in 1..Len(g) : g[i] \in Seq(Seq(Line))
  BY <1>1, ElementOfSeq, LenProperties
<1>3. /\ jobs \in Seq(Job) /\ Len(jobs) = Len(g)
      /\ \A i \in 1..Len(g) : jobs[i].kind = kind /\ jobs[i].parts = g[i]
  <2>1. \A i \in 1..Len(g) : [kind |-> kind, parts |-> g[i]] \in Job
    BY <1>2 DEF Job
  <2> QED BY <1>2, <2>1 DEF MergeJobs
<1> HIDE DEF jobs
<1>4. LinesOfJobs(jobs) = [i \in 1..Len(g) |-> FlattenSeq(g[i])]
  BY <1>3 DEF LinesOfJobs
<1>5. FlattenSeq(LinesOfJobs(jobs)) = FlattenSeq(FlattenSeq(g))
  BY <1>1, <1>4, FlattenTwice
<1>6. \A T : JobWeight(jobs, T) = Weight(cs, T)
  BY <1>1, <1>3, <1>5, JobWeightIs DEF Weight
<1> QED BY <1>3, <1>6 DEF jobs, g

-----------------------------------------------------------------------------
(* The jobs that run.                                                      *)

RunsWeight(h, T) == JobWeight(FlattenSeq(h), T)
Ran(x) == IF x = NoJob THEN <<>> ELSE <<x>>
Runs(r) == [w \in Workers |-> Ran(r[w])]
RunWeight(x, T) == IF x = NoJob THEN 0 ELSE Weight(x.parts, T)

\* When one worker takes or ends a job, the weight of what runs changes by that job.
LEMMA RunsReplace ==
  ASSUME NEW h \in Seq(Seq(Job)), NEW i \in 1..Len(h), NEW c \in Seq(Job), NEW T
  PROVE  RunsWeight([h EXCEPT ![i] = c], T) + JobWeight(h[i], T)
           = RunsWeight(h, T) + JobWeight(c, T)
<1> DEFINE E == Seq(Job)
           front == SubSeq(h, 1, i - 1)
           back == SubSeq(h, i + 1, Len(h))
           g == [h EXCEPT ![i] = c]
<1>1. g \in Seq(E) /\ front \in Seq(E) /\ back \in Seq(E) /\ h[i] \in E
  <2>1. Len(h) \in Nat /\ i - 1 \in 0..Len(h) /\ i \in 0..Len(h)
    BY LenProperties
  <2> QED BY <2>1, ExceptSeq, CutInTwo, ElementOfSeq
<1>2. h = (front \o <<h[i]>>) \o back /\ g = (front \o <<c>>) \o back
  <2> HIDE DEF E
  <2>1. c \in E
    BY DEF E
  <2>2. h \in Seq(E)
    BY DEF E
  <2>3. h = (SubSeq(h, 1, i - 1) \o <<h[i]>>) \o SubSeq(h, i + 1, Len(h))
    BY <2>2, SplitAround
  <2>4. [h EXCEPT ![i] = c] = (SubSeq(h, 1, i - 1) \o <<c>>) \o SubSeq(h, i + 1, Len(h))
    BY <2>1, <2>2, ReplaceAround
  <2> QED BY <2>3, <2>4
<1> HIDE DEF front, back, g
<1>3. \A a \in Seq(E) : FlattenSeq(a) \in Seq(Job)
  BY FlattenType
<1>4. \A a, b \in Seq(E) : RunsWeight(a \o b, T) = RunsWeight(a, T) + RunsWeight(b, T)
  <2> TAKE a, b \in Seq(E)
  <2>1. FlattenSeq(a \o b) = FlattenSeq(a) \o FlattenSeq(b)
    BY FlattenConcat
  <2> QED BY <1>3, <2>1, JobWeightConcat DEF RunsWeight
<1>5. \A x \in E : RunsWeight((front \o <<x>>) \o back, T)
                    = RunsWeight(front, T) + JobWeight(x, T) + RunsWeight(back, T)
  <2> TAKE x \in E
  <2>1. <<x>> \in Seq(E) /\ front \o <<x>> \in Seq(E)
    BY <1>1, ConcatProperties
  <2>2. RunsWeight((front \o <<x>>) \o back, T) = RunsWeight(front \o <<x>>, T) + RunsWeight(back, T)
    BY <1>1, <1>4, <2>1
  <2>3. RunsWeight(front \o <<x>>, T) = RunsWeight(front, T) + RunsWeight(<<x>>, T)
    BY <1>1, <1>4, <2>1
  <2>4. FlattenSeq(<<x>>) = x
    <3>1. <<>> \in Seq(E) /\ Append(<<>>, x) = <<x>>
      BY EmptySeq
    <3>2. FlattenSeq(Append(<<>>, x)) = FlattenSeq(<<>>) \o x
      BY <3>1, FlattenAppend
    <3> QED BY <3>1, <3>2, FlattenEmpty, ConcatEmptySeq
  <2> QED BY <2>2, <2>3, <2>4 DEF RunsWeight
<1>6. /\ RunsWeight(front, T) \in Nat /\ RunsWeight(back, T) \in Nat
      /\ JobWeight(c, T) \in Nat /\ JobWeight(h[i], T) \in Nat
  BY <1>1, <1>3, JobWeightIs DEF RunsWeight
<1>7. /\ RunsWeight(h, T) = RunsWeight(front, T) + JobWeight(h[i], T) + RunsWeight(back, T)
      /\ RunsWeight(g, T) = RunsWeight(front, T) + JobWeight(c, T) + RunsWeight(back, T)
  BY <1>1, <1>2, <1>5
<1> QED BY <1>6, <1>7 DEF g

\* What the workers run, as sequences of at most one job each.
LEMMA RunsType ==
  ASSUME NEW r \in [Workers -> Job \cup {NoJob}]
  PROVE  /\ Runs(r) \in Seq(Seq(Job)) /\ Len(Runs(r)) = Size
         /\ \A w \in Workers : Runs(r)[w] = Ran(r[w]) /\ Ran(r[w]) \in Seq(Job)
<1>1. ASSUME NEW w \in Workers PROVE Ran(r[w]) \in Seq(Job)
  <2>1. r[w] \in Job \cup {NoJob}
    OBVIOUS
  <2>2. CASE r[w] = NoJob
    BY <2>2, EmptySeq DEF Ran
  <2>3. CASE r[w] # NoJob
    BY <2>1, <2>3 DEF Ran
  <2> QED BY <2>2, <2>3
<1>2. Size \in Nat
  BY ParallelAssumption
<1> HIDE DEF Ran
<1> QED BY <1>1, <1>2 DEF Runs, Workers

\* Worker w runs x instead of what it ran.
LEMMA RunChanges ==
  ASSUME NEW r \in [Workers -> Job \cup {NoJob}], NEW w \in Workers,
         NEW x \in Job \cup {NoJob}, NEW T
  PROVE  /\ RunsWeight(Runs([r EXCEPT ![w] = x]), T) + RunWeight(r[w], T)
              = RunsWeight(Runs(r), T) + RunWeight(x, T)
         /\ RunsWeight(Runs(r), T) \in Nat /\ RunsWeight(Runs([r EXCEPT ![w] = x]), T) \in Nat
         /\ RunWeight(r[w], T) \in Nat /\ RunWeight(x, T) \in Nat
<1> DEFINE h == Runs(r)
           q == [r EXCEPT ![w] = x]
<1>1. q \in [Workers -> Job \cup {NoJob}]
  OBVIOUS
<1>2. ASSUME NEW y \in Job \cup {NoJob}
      PROVE  /\ Ran(y) \in Seq(Job) /\ JobWeight(Ran(y), T) = RunWeight(y, T)
             /\ RunWeight(y, T) \in Nat
  <2>1. CASE y = NoJob
    <3>1. <<>> \in Seq(Job) /\ [kind |-> "sort", parts |-> <<>>] \in Job
      BY EmptySeq DEF Job
    <3>2. JobWeight(<<>>, T) = 0
      BY <3>1, JobWeightFew
    <3> QED BY <2>1, <3>1, <3>2 DEF Ran, RunWeight
  <2>2. CASE y \in Job /\ y # NoJob
    <3>1. <<y>> \in Seq(Job) /\ y \in Job
      BY <2>2
    <3>2. JobWeight(<<y>>, T) = Weight(y.parts, T) /\ JobWeight(<<y>>, T) \in Nat
      BY <3>1, JobWeightFew, JobWeightIs
    <3> QED BY <2>2, <3>1, <3>2 DEF Ran, RunWeight
  <2> QED BY <2>1, <2>2
<1>3. r[w] \in Job \cup {NoJob} /\ w \in 1..Size
  BY DEF Workers
<1>4. /\ h \in Seq(Seq(Job)) /\ w \in 1..Len(h) /\ h[w] = Ran(r[w])
      /\ Runs(q) \in Seq(Seq(Job))
  BY <1>1, <1>3, RunsType
<1>5. Runs(q) = [h EXCEPT ![w] = Ran(x)]
  BY DEF Runs
<1> HIDE DEF h
<1>6. RunsWeight([h EXCEPT ![w] = Ran(x)], T) + JobWeight(h[w], T)
        = RunsWeight(h, T) + JobWeight(Ran(x), T)
  BY <1>2, <1>4, RunsReplace, ZenonT(30)
<1>7. \A a \in Seq(Seq(Job)) : RunsWeight(a, T) \in Nat
  BY FlattenType, JobWeightIs DEF RunsWeight
<1> QED BY <1>2, <1>3, <1>4, <1>5, <1>6, <1>7 DEF h

\* What runs weighs nothing when nobody runs a job.
LEMMA NobodyRuns ==
  ASSUME NEW r \in [Workers -> Job \cup {NoJob}], \A w \in Workers : r[w] = NoJob, NEW T
  PROVE  RunsWeight(Runs(r), T) = 0
<1>1. Runs(r) \in Seq(Seq(Job)) /\ \A i \in 1..Len(Runs(r)) : Runs(r)[i] = <<>>
  BY RunsType DEF Ran, Workers
<1>2. FlattenSeq(Runs(r)) = <<>>
  BY <1>1, FlattenEmpties
<1>3. <<>> \in Seq(Job) /\ [kind |-> "sort", parts |-> <<>>] \in Job
  BY EmptySeq DEF Job
<1>4. JobWeight(<<>>, T) = 0
  BY <1>3, JobWeightFew
<1> QED BY <1>2, <1>4 DEF RunsWeight

\* A sort job has one batch.
GoodJob(job) == job.kind = "sort" => Len(job.parts) = 1

\* What a job makes of its lines.
LEMMA ResultFacts ==
  ASSUME NEW job \in Job, GoodJob(job)
  PROVE  /\ Result(job) \in Chunk
         /\ \A T : Count(Result(job).lines, T) = Weight(job.parts, T)
<1>1. job.parts \in Seq(Seq(Line))
  BY DEF Job
<1>2. CASE job.kind = "sort"
  <2>1. Len(job.parts) = 1 /\ job.parts[1] \in Seq(Line)
    BY <1>1, <1>2, ElementOfSeq DEF GoodJob
  <2>2. job.parts = <<job.parts[1]>>
    BY <1>1, <2>1
  <2>3. /\ Sorted(job.parts[1]) \in Seq(Line)
        /\ \A T : Count(Sorted(job.parts[1]), T) = Count(job.parts[1], T)
    BY <2>1, SortedFacts
  <2>4. \A T : Weight(<<job.parts[1]>>, T) = Count(job.parts[1], T)
    BY <2>1, WeightFew
  <2>5. Result(job) = [lines |-> Sorted(job.parts[1]), merged |-> FALSE, flushed |-> FALSE]
    BY <1>2 DEF Result
  <2>6. Result(job) \in Chunk /\ Result(job).lines = Sorted(job.parts[1])
    BY <2>3, <2>5 DEF Chunk
  <2>7. \A T : Weight(job.parts, T) = Count(job.parts[1], T)
    BY <2>2, <2>4
  <2> QED BY <2>3, <2>6, <2>7
<1>3. CASE job.kind # "sort"
  <2>1. MergeAll(job.parts) \in Seq(Line) /\ \A T : Count(MergeAll(job.parts), T) = Weight(job.parts, T)
    BY <1>1, MergeAllFacts DEF Heaps
  <2>2. Result(job) = [lines |-> MergeAll(job.parts), merged |-> TRUE,
                       flushed |-> job.kind = "merge_flush"]
    BY <1>3 DEF Result
  <2>3. Result(job) \in Chunk /\ Result(job).lines = MergeAll(job.parts)
    BY <2>1, <2>2 DEF Chunk
  <2> QED BY <2>1, <2>3
<1> QED BY <1>2, <1>3

\* One more element of a sequence.
LEMMA SubSeqGrows ==
  ASSUME NEW s \in Seq(Line), NEW k \in 0..(Len(s) - 1)
  PROVE  SubSeq(s, 1, k + 1) = Append(SubSeq(s, 1, k), s[k + 1])
<1> DEFINE t == SubSeq(s, 1, k)
           u == SubSeq(s, 1, k + 1)
<1>1. Len(s) \in Nat /\ k \in Nat /\ k \in 0..Len(s) /\ k + 1 \in 0..Len(s) /\ k + 1 \in 1..Len(s)
  BY LenProperties
<1>2. t \in Seq(Line) /\ Len(t) = k /\ \A i \in 1..k : t[i] = s[i]
  BY <1>1, CutInTwo
<1>3. u \in Seq(Line) /\ Len(u) = k + 1 /\ \A i \in 1..(k + 1) : u[i] = s[i]
  BY <1>1, CutInTwo
<1>4. s[k + 1] \in Line
  BY <1>1, ElementOfSeq
<1> HIDE DEF t, u
<1>5. /\ Append(t, s[k + 1]) \in Seq(Line) /\ Len(Append(t, s[k + 1])) = k + 1
      /\ \A i \in 1..(k + 1) : Append(t, s[k + 1])[i] = s[i]
  BY <1>1, <1>2, <1>4, AppendProperties
<1>6. u = Append(t, s[k + 1])
  BY <1>3, <1>5, SeqEqual
<1> QED BY <1>6 DEF t, u

\* A set of lines that has each line with a front in it.
UpClosed(T) == \A l \in Line : \A p \in Fronts[l] : p \in T => l \in T

\* A prefix has no line more often.
LEMMA PrefixCount ==
  ASSUME NEW s \in Seq(Line), NEW n \in 0..Len(s), NEW T
  PROVE  /\ SubSeq(s, 1, n) \in Seq(Line)
         /\ Count(SubSeq(s, 1, n), T) \in Nat /\ Count(s, T) \in Nat
         /\ Count(SubSeq(s, 1, n), T) <= Count(s, T)
<1> DEFINE t == SubSeq(s, 1, n)
           u == SubSeq(s, n + 1, Len(s))
<1>2. t \in Seq(Line) /\ u \in Seq(Line) /\ t \o u = s
  BY CutInTwo
<1> HIDE DEF t, u
<1>3. Count(t \o u, T) = Count(t, T) + Count(u, T)
  BY <1>2, CountConcat, ZenonT(30)
<1>4. Count(t, T) \in Nat /\ Count(u, T) \in Nat
  BY <1>2, CountType
<1>5. t \in Seq(Line) /\ Count(t, T) \in Nat /\ Count(s, T) \in Nat /\ Count(t, T) <= Count(s, T)
  BY <1>2, <1>3, <1>4
<1> QED BY <1>5 DEF t

\* What a BufWriter has written of its lines has no more of a set that has each line
\* with a front in it.
LEMMA CutOffFacts ==
  ASSUME NEW s \in Seq(Line), NEW t \in CutOff(s)
  PROVE  /\ t \in Seq(Line)
         /\ \A T : UpClosed(T) => Count(t, T) \in Nat /\ Count(t, T) <= Count(s, T)
<1>1. Len(s) \in Nat
  BY LenProperties
<1>2. PICK k \in 0..(Len(s) - 1) :
        t \in {SubSeq(s, 1, k)} \cup {Append(SubSeq(s, 1, k), p) : p \in Fronts[s[k + 1]]}
  BY DEF CutOff
<1>3. k \in 0..Len(s) /\ k + 1 \in 0..Len(s) /\ k + 1 \in 1..Len(s)
  BY <1>1
<1> DEFINE a == SubSeq(s, 1, k)
           x == s[k + 1]
           b == SubSeq(s, 1, k + 1)
<1>4. a \in Seq(Line) /\ x \in Line
  BY <1>3, PrefixCount, ElementOfSeq
<1>5. b = Append(a, x)
  BY <1>3, <1>1, SubSeqGrows
<1>6. CASE t = a
  <2>1. \A T : Count(a, T) \in Nat /\ Count(a, T) <= Count(s, T)
    BY <1>3, PrefixCount
  <2> QED BY <1>4, <1>6, <2>1
<1>7. ASSUME NEW p \in Fronts[x], t = Append(a, p)
      PROVE  /\ t \in Seq(Line)
             /\ \A T : UpClosed(T) => Count(t, T) \in Nat /\ Count(t, T) <= Count(s, T)
  <2>1. p \in Line
    BY <1>4, <1>7, PartsAssumption
  <2>2. \A T : Count(b, T) \in Nat /\ Count(s, T) \in Nat /\ Count(b, T) <= Count(s, T)
    BY <1>3, PrefixCount
  <2>3. t \in Seq(Line)
    BY <1>4, <1>7, <2>1, AppendProperties
  <2> HIDE DEF a, b, x
  <2>4. ASSUME NEW T, UpClosed(T)
        PROVE  Count(t, T) \in Nat /\ Count(t, T) <= Count(s, T)
    <3>1. /\ Count(t, T) = Count(a, T) + (IF p \in T THEN 1 ELSE 0)
          /\ Count(b, T) = Count(a, T) + (IF x \in T THEN 1 ELSE 0)
      BY <1>4, <1>5, <1>7, <2>1, CountAppend
    <3>2. p \in T => x \in T
      BY <1>4, <1>7, <2>4 DEF UpClosed
    <3>3. Count(a, T) \in Nat /\ Count(t, T) \in Nat
      BY <1>4, <2>3, CountType
    <3> QED BY <2>2, <3>1, <3>2, <3>3
  <2> QED BY <2>3, <2>4
<1> HIDE DEF a, b
<1> QED BY <1>2, <1>6, <1>7 DEF a

-----------------------------------------------------------------------------
(* The invariant.                                                          *)

TypeOK ==
  /\ PoolTypeOK
  /\ payload \in Payloads /\ main \in MainState /\ joined \in 0..Size
  /\ rest \in Seq(Line) /\ output \in Seq(Line)
  /\ pending \in Seq(Job) /\ chunks \in Seq(Chunk)
  /\ exhausted \in BOOLEAN /\ lost \in BOOLEAN /\ emptyChunk \in BOOLEAN

\* The mutex: who holds it is in recv() or runs a job, and it is poisoned once a
\* thread has died of a panic.
LockInv ==
  /\ \A w \in Workers : worker[w] \in {"recv", "run"} <=> holder = w
  /\ \A w \in Workers : running[w] # NoJob <=> worker[w] = "run"
  /\ poisoned <=> \E w \in Workers : worker[w] = "panicked"

\* The channel: when a thread has left its loop, or nobody is left to receive,
\* there is nothing in it.  The sender lives until finish() or a panic of main.
ChannelInv ==
  /\ \A w \in Workers : worker[w] = "exited" => queue = <<>> /\ ~sender
  /\ ~ReceiverAlive => queue = <<>>
  /\ main \in {"collect", "sort", "request", "announce", "merges", "finish"} => sender
  /\ main \in {"joining", "print", "success"} => ~sender

\* The main thread: what it has in its hands at each place.
MainInv ==
  /\ main = "sort" => Len(pending) = 1
  /\ main \in {"announce", "merges"} => pending # <<>>
  /\ main \notin {"sort", "announce", "merges", "panicked", "failure"} => pending = <<>>
  /\ exhausted \/ main \in {"finish", "joining", "print", "success"} => rest = <<>>
  /\ main = "success" => chunks = <<>>
  /\ main \notin {"print", "success", "panicked", "failure"} => joined < Size
  /\ main \in {"print", "success"} => joined = Size
  /\ \A w \in 1..joined : worker[w] = "exited"
  /\ output # <<>> => joined = Size
  /\ main \notin {"success", "panicked", "failure"} => output = <<>>

GoodJobs ==
  /\ \A i \in 1..Len(pending) : GoodJob(pending[i])
  /\ \A i \in 1..Len(queue) : GoodJob(queue[i])
  /\ \A w \in Workers : running[w] # NoJob => GoodJob(running[w])

ControlInv == TypeOK /\ LockInv /\ ChannelInv /\ MainInv /\ GoodJobs

\* The lines of T there are, wherever they are.
Everywhere(T) ==
  Count(rest, T) + JobWeight(pending, T) + JobWeight(queue, T)
    + RunsWeight(Runs(running), T) + ChunkWeight(chunks, T) + Count(output, T)

\* The sets of lines that are counted: once a BufWriter has cut a line off, those
\* that have each line with a front in it.
Counted(T, cut) == T \in SUBSET Line /\ (cut => UpClosed(T))

\* They are never more than the reads delivered, and all of them unless a job or a
\* write failed.
LinesInv ==
  \A T : Counted(T, lost) =>
    /\ Count(output, T) <= Count(payload.read, T)
    /\ main \notin {"panicked", "failure"} =>
         /\ Everywhere(T) <= Count(payload.read, T)
         /\ ~poisoned /\ ~lost => Everywhere(T) = Count(payload.read, T)

-----------------------------------------------------------------------------
(* What the steps of the main thread do.                                   *)

\* Reading a batch: some of the rest, and all of it when the input is exhausted.
LEMMA CollectFacts ==
  ASSUME TypeOK, Collect
  PROVE  \E n \in 0..Len(rest) :
           /\ rest' = SubSeq(rest, n + 1, Len(rest))
           /\ pending' = <<[kind |-> "sort", parts |-> <<SubSeq(rest, 1, n)>>]>>
           /\ exhausted' \in BOOLEAN /\ (exhausted' => n = Len(rest))
           /\ emptyChunk' \in BOOLEAN
<1> DEFINE full(k) == k >= payload.batch_size \/ BytesAfter(k) >= payload.buffer_size
           stops == {k \in 0..Len(rest) : full(k) \/ k = Len(rest)}
           n == Min(stops)
<1>1. /\ rest' = SubSeq(rest, n + 1, Len(rest))
      /\ pending' = <<[kind |-> "sort", parts |-> <<SubSeq(rest, 1, n)>>]>>
      /\ exhausted' = ~ full(n)
      /\ emptyChunk' = (emptyChunk \/ n = 0)
  BY DEF Collect
<1>2. Len(rest) \in Nat
  BY LenProperties DEF TypeOK
<1>3. stops \subseteq Nat /\ stops # {}
  <2> HIDE DEF full
  <2> QED BY <1>2
<1>4. n \in stops
  <2> HIDE DEF stops
  <2> QED BY <1>3, MinIsLeast
<1>5. n \in 0..Len(rest) /\ (~ full(n) => n = Len(rest))
  <2> HIDE DEF full, n
  <2> QED BY <1>4
<1>6. (~ full(n)) \in BOOLEAN /\ (emptyChunk \/ n = 0) \in BOOLEAN
  OBVIOUS
<1> HIDE DEF full, n
<1> QED BY <1>1, <1>5, <1>6

\* Taking chunks: those that are put back and the jobs have all that there was.
LEMMA RequestFacts ==
  ASSUME TypeOK, Request
  PROVE  /\ chunks' \in Seq(Chunk) /\ pending' \in Seq(Job)
         /\ \A i \in 1..Len(pending') : GoodJob(pending'[i])
         /\ main' = IF pending' = <<>> THEN "collect" ELSE "announce"
         /\ \A T : ChunkWeight(chunks', T) + JobWeight(pending', T) = ChunkWeight(chunks, T)
<1> DEFINE kind == IF bytes > payload.buffer_size THEN "merge_flush" ELSE "merge"
           done == Those(chunks, TRUE)
           new == Those(chunks, FALSE)
           cs == LinesOfEach(new)
           group == Dealt[cs]
<1>1. /\ chunks' = done /\ pending' = MergeJobs(kind, group)
      /\ main' = IF group = <<>> THEN "collect" ELSE "announce"
  BY DEF Request, MergeJobs
<1>2. /\ done \in Seq(Chunk) /\ new \in Seq(Chunk)
      /\ \A T : ChunkWeight(done, T) + ChunkWeight(new, T) = ChunkWeight(chunks, T)
  BY ThoseFacts DEF TypeOK
<1>3. kind \in {"merge", "merge_flush"}
  OBVIOUS
<1> HIDE DEF kind, done, new
<1>4. cs \in Heaps
  <2>1. [lines |-> <<>>, merged |-> TRUE, flushed |-> TRUE] \in Chunk
    BY EmptySeq DEF Chunk
  <2> QED BY <1>2, <2>1, LinesOfEachFacts
<1> HIDE DEF cs
<1>5. /\ MergeJobs(kind, group) \in Seq(Job) /\ Len(MergeJobs(kind, group)) = Len(group)
      /\ \A i \in 1..Len(MergeJobs(kind, group)) : MergeJobs(kind, group)[i].kind # "sort"
      /\ \A T : JobWeight(MergeJobs(kind, group), T) = Weight(cs, T)
  BY <1>3, <1>4, MergeJobsFacts
<1>6. group \in Seq(Heaps)
  BY <1>4, DealtFacts
<1> HIDE DEF group
<1>7. group = <<>> <=> MergeJobs(kind, group) = <<>>
  BY <1>5, <1>6, EmptySeq
<1>8. \A T : JobWeight(pending', T) = ChunkWeight(new, T)
  BY <1>1, <1>5 DEF ChunkWeight, cs
<1> QED BY <1>1, <1>2, <1>5, <1>7, <1>8 DEF GoodJob

-----------------------------------------------------------------------------
(* The invariant of control is inductive.                                  *)

\* It holds at the start.
LEMMA ControlInit ==
  ASSUME Init
  PROVE  ControlInv
<1> USE DEF Init, New
<1>1. Size \in Nat \ {0}
  BY ParallelAssumption
<1>2. TypeOK
  <2>1. PoolTypeOK
    <3>1. queue \in Seq(Job)
      BY EmptySeq
    <3>2. worker \in [Workers -> WorkerState] /\ running \in [Workers -> Job \cup {NoJob}]
      BY DEF WorkerState
    <3> QED BY <3>1, <3>2 DEF PoolTypeOK
  <2>2. payload.read \in Seq(Line)
    BY PayloadsAssumption
  <2>3. rest \in Seq(Line) /\ output \in Seq(Line) /\ pending \in Seq(Job) /\ chunks \in Seq(Chunk)
    BY <2>2, EmptySeq
  <2>4. joined \in 0..Size /\ main \in MainState
    BY <1>1 DEF MainState
  <2> QED BY <2>1, <2>3, <2>4 DEF TypeOK
<1>3. LockInv
  BY DEF LockInv, Workers, NoWorker
<1>4. ChannelInv
  BY DEF ChannelInv
<1>5. MainInv
  BY <1>1 DEF MainInv
<1>6. GoodJobs
  BY DEF GoodJobs
<1> QED BY <1>2, <1>3, <1>4, <1>5, <1>6 DEF ControlInv

\* Each step of the main thread; the channel changes with Send and the sender only.
LEMMA MainKeepsControl ==
  ASSUME ControlInv, Main
  PROVE  ControlInv'
<1> USE DEF ControlInv, pool, setting, locals, history
<1>1. CASE Collect
  <2>1. PICK n \in 0..Len(rest) :
           /\ rest' = SubSeq(rest, n + 1, Len(rest))
           /\ pending' = <<[kind |-> "sort", parts |-> <<SubSeq(rest, 1, n)>>]>>
           /\ exhausted' \in BOOLEAN /\ (exhausted' => n = Len(rest))
           /\ emptyChunk' \in BOOLEAN
    BY <1>1, CollectFacts
  <2>2. rest \in Seq(Line) /\ Len(rest) \in Nat
    BY LenProperties DEF TypeOK
  <2>3. SubSeq(rest, 1, n) \in Seq(Line) /\ rest' \in Seq(Line) /\ Len(rest') = Len(rest) - n
    BY <2>1, <2>2, CutInTwo
  <2> DEFINE job == [kind |-> "sort", parts |-> <<SubSeq(rest, 1, n)>>]
  <2>4. job \in Job /\ GoodJob(job)
    BY <2>3 DEF Job, GoodJob
  <2> HIDE DEF job
  <2>5. /\ pending' \in Seq(Job) /\ Len(pending') = 1
        /\ \A i \in 1..Len(pending') : GoodJob(pending'[i])
    BY <2>1, <2>4 DEF job
  <2>6. exhausted' => rest' = <<>>
    BY <2>1, <2>2, <2>3, EmptySeq
  <2>7. /\ main = "collect" /\ main' = "sort"
        /\ UNCHANGED <<queue, sender, holder, poisoned, worker, running, payload, profile,
                       batches, chunks, joined, output, lost>>
    BY <1>1 DEF Collect
  <2>8. TypeOK'
    BY <2>1, <2>3, <2>5, <2>7 DEF TypeOK, PoolTypeOK, MainState
  <2>9. LockInv' /\ ChannelInv'
    BY <2>7 DEF LockInv, ChannelInv, ReceiverAlive
  <2>10. MainInv'
    BY <2>5, <2>6, <2>7 DEF MainInv
  <2>11. GoodJobs'
    BY <2>5, <2>7 DEF GoodJobs
  <2> QED BY <2>8, <2>9, <2>10, <2>11
<1>2. ASSUME SubmitSort \/ SubmitMerge PROVE ControlInv'
  <2>1. /\ main \in {"sort", "merges"} /\ Send(Head(pending))
        /\ pending' = Tail(pending)
        /\ main' \in {"request", "collect", "finish", "announce"}
        /\ (main' = "announce" <=> Len(pending) # 1)
        /\ (main' = "finish" => exhausted)
        /\ UNCHANGED <<payload, profile, rest, exhausted, chunks, joined, output, emptyChunk, lost>>
    <3>1. CASE SubmitSort
      <4>1. Len(pending) = 1 /\ pending \in Seq(Job)
        BY <3>1 DEF SubmitSort, MainInv, TypeOK
      <4>2. Tail(pending) = <<>>
        <5>1. pending # <<>>
          BY <4>1
        <5>2. Tail(pending) \in Seq(Job) /\ Len(Tail(pending)) = 0
          BY <4>1, <5>1, HeadTailProperties
        <5> QED BY <5>2, EmptySeq
      <4> QED BY <3>1, <4>1, <4>2 DEF SubmitSort
    <3>2. CASE SubmitMerge
      BY <3>2 DEF SubmitMerge
    <3> QED BY <1>2, <3>1, <3>2
  <2>2. pending # <<>> /\ pending \in Seq(Job) /\ queue \in Seq(Job)
    <3>1. main = "sort" => Len(pending) = 1
      BY DEF MainInv
    <3> QED BY <2>1, <3>1 DEF MainInv, TypeOK, PoolTypeOK
  <2>3. /\ Head(pending) \in Job /\ Tail(pending) \in Seq(Job)
        /\ Len(Tail(pending)) = Len(pending) - 1
        /\ \A i \in 1..Len(Tail(pending)) : Tail(pending)[i] = pending[i + 1]
        /\ Head(pending) = pending[1] /\ Len(pending) \in Nat \ {0}
    <3>1. Len(pending) \in Nat \ {0}
      BY <2>2, EmptySeq, LenProperties
    <3> QED BY <2>2, <3>1, HeadTailProperties
  <2>4. GoodJob(Head(pending)) /\ \A i \in 1..Len(Tail(pending)) : GoodJob(Tail(pending)[i])
    <3>1. 1 \in 1..Len(pending) /\ \A i \in 1..Len(Tail(pending)) : i + 1 \in 1..Len(pending)
      BY <2>3
    <3> QED BY <2>3, <3>1 DEF GoodJobs
  <2>5. /\ sender /\ ReceiverAlive /\ queue' = Append(queue, Head(pending))
        /\ UNCHANGED <<sender, holder, poisoned, worker, running>>
    BY <2>1 DEF Send
  <2>6. queue' \in Seq(Job) /\ \A i \in 1..Len(queue') : GoodJob(queue'[i])
    <3>1. /\ queue' \in Seq(Job) /\ Len(queue') = Len(queue) + 1 /\ Len(queue) \in Nat
          /\ queue'[Len(queue) + 1] = Head(pending) /\ \A i \in 1..Len(queue) : queue'[i] = queue[i]
      BY <2>2, <2>3, <2>5, AppendProperties, LenProperties
    <3>2. \A i \in 1..(Len(queue) + 1) : i \in 1..Len(queue) \/ i = Len(queue) + 1
      BY <3>1
    <3> QED BY <2>4, <3>1, <3>2 DEF GoodJobs
  <2>7. pending' = <<>> <=> main' # "announce"
    <3>1. pending' = <<>> <=> Len(pending') = 0
      BY <2>1, <2>3, EmptySeq
    <3> QED BY <2>1, <2>3, <3>1
  <2>8. TypeOK'
    BY <2>1, <2>3, <2>5, <2>6 DEF TypeOK, PoolTypeOK, MainState
  <2>9. LockInv' /\ ChannelInv'
    BY <2>1, <2>5 DEF LockInv, ChannelInv, ReceiverAlive, Over
  <2>10. MainInv'
    BY <2>1, <2>5, <2>7 DEF MainInv
  <2>11. GoodJobs'
    BY <2>1, <2>4, <2>5, <2>6 DEF GoodJobs
  <2> QED BY <2>8, <2>9, <2>10, <2>11
<1>3. CASE Request
  <2>1. /\ chunks' \in Seq(Chunk) /\ pending' \in Seq(Job)
        /\ \A i \in 1..Len(pending') : GoodJob(pending'[i])
        /\ main' = IF pending' = <<>> THEN "collect" ELSE "announce"
    BY <1>3, RequestFacts
  <2>2. /\ main = "request"
        /\ UNCHANGED <<queue, sender, holder, poisoned, worker, running, payload, profile,
                       rest, exhausted, batches, joined, output, emptyChunk, lost>>
    BY <1>3 DEF Request
  <2>3. TypeOK'
    BY <2>1, <2>2 DEF TypeOK, PoolTypeOK, MainState
  <2>4. LockInv' /\ ChannelInv' /\ MainInv' /\ GoodJobs'
    BY <2>1, <2>2 DEF LockInv, ChannelInv, ReceiverAlive, MainInv, GoodJobs
  <2> QED BY <2>3, <2>4
<1>4. ASSUME SubmitPanics \/ MessagePanics PROVE ControlInv'
  <2>1. /\ main \in {"collect", "announce", "finish", "sort", "merges"}
        /\ sender' = FALSE /\ main' \in {"panicked", "failure"}
        /\ UNCHANGED <<queue, holder, poisoned, worker, running, payload, profile, rest,
                       exhausted, bytes, batches, pending, chunks, joined, output,
                       emptyChunk, lost>>
    BY <1>4 DEF SubmitPanics, MessagePanics, DropSender, AfterPanic
  <2>2. main' \in MainState /\ sender' \in BOOLEAN
    BY <2>1 DEF MainState
  <2>3. TypeOK'
    BY <2>1, <2>2 DEF TypeOK, PoolTypeOK
  <2>4. LockInv' /\ GoodJobs'
    BY <2>1 DEF LockInv, GoodJobs
  <2>5. ChannelInv' /\ MainInv'
    BY <2>1 DEF ChannelInv, ReceiverAlive, MainInv
  <2> QED BY <2>3, <2>4, <2>5
<1>9. CASE Announce
  BY <1>9 DEF Announce, TypeOK, PoolTypeOK, MainState, LockInv,
              ChannelInv, ReceiverAlive, MainInv, GoodJobs
<1>5. CASE Finish
  BY <1>5, ZenonT(30) DEF Finish, DropSender, TypeOK, PoolTypeOK, MainState, LockInv,
              ChannelInv, ReceiverAlive, MainInv, GoodJobs
<1>6. CASE Join
  <2>1. /\ main = "joining" /\ joined < Size /\ joined \in Nat /\ Size \in Nat
        /\ UNCHANGED <<queue, sender, holder, poisoned, worker, running, payload, profile,
                       rest, exhausted, bytes, batches, pending, chunks, output, emptyChunk, lost>>
    BY <1>6, ParallelAssumption DEF Join, MainInv, TypeOK
  <2>2. \/ /\ worker[joined + 1] = "exited" /\ joined' = joined + 1
           /\ main' = IF joined + 1 = Size THEN "print" ELSE "joining"
        \/ joined' = joined /\ main' \in {"panicked", "failure"}
    BY <1>6 DEF Join, AfterPanic
  <2>3. joined' \in 0..Size /\ main' \in {"print", "joining", "panicked", "failure"}
    BY <2>1, <2>2
  <2>4. TypeOK'
    BY <2>1, <2>3 DEF TypeOK, PoolTypeOK, MainState
  <2>5. LockInv' /\ ChannelInv' /\ GoodJobs'
    BY <2>1, <2>3 DEF LockInv, ChannelInv, ReceiverAlive, GoodJobs
  <2>6. \A w \in 1..joined' : worker[w] = "exited"
    <3>1. \A w \in 1..(joined + 1) : w \in 1..joined \/ w = joined + 1
      BY <2>1
    <3> QED BY <2>2, <3>1 DEF MainInv
  <2>7. /\ main' \notin {"print", "success", "panicked", "failure"} => joined' < Size
        /\ main' \in {"print", "success"} => joined' = Size
    BY <2>1, <2>2
  <2>8. output = <<>>
    BY <2>1 DEF MainInv
  <2>9. MainInv'
    BY <2>1, <2>3, <2>6, <2>7, <2>8 DEF MainInv
  <2> QED BY <2>4, <2>5, <2>9
<1>7. ASSUME PrintAll \/ PrintLosesTail \/ PrintPanics PROVE ControlInv'
  <2> DEFINE all == MergeAll(LinesOfEach(chunks))
  <2>1. /\ main = "print" /\ output' \in {all} \cup CutOff(all)
        /\ \/ main' = "success" /\ chunks' = <<>>
           \/ main' \in {"panicked", "failure"} /\ chunks' = chunks
        /\ lost' \in {lost, TRUE}
        /\ UNCHANGED <<queue, sender, holder, poisoned, worker, running, payload, profile,
                       rest, exhausted, bytes, batches, pending, joined, emptyChunk>>
    <3> HIDE DEF all
    <3>1. CASE PrintAll
      BY <3>1 DEF PrintAll, all
    <3>2. CASE PrintLosesTail
      <4>1. output' \in CutOff(all)
        BY <3>2 DEF PrintLosesTail, all
      <4> QED BY <3>2, <4>1 DEF PrintLosesTail
    <3>3. CASE PrintPanics
      <4>1. output' \in {all} \cup CutOff(all)
        BY <3>3 DEF PrintPanics, all
      <4>2. main' \in {"panicked", "failure"}
        BY <3>3 DEF PrintPanics, AfterPanic
      <4> QED BY <3>3, <4>1, <4>2 DEF PrintPanics
    <3> QED BY <1>7, <3>1, <3>2, <3>3
  <2>2. all \in Seq(Line)
    <3>1. [lines |-> <<>>, merged |-> TRUE, flushed |-> TRUE] \in Chunk
      BY EmptySeq DEF Chunk
    <3>2. chunks \in Seq(Chunk)
      BY DEF TypeOK
    <3>3. LinesOfEach(chunks) \in Heaps
      BY <3>1, <3>2, LinesOfEachFacts
    <3> QED BY <3>3, MergeAllFacts
  <2>3. output' \in Seq(Line)
    <3>1. \A t \in CutOff(all) : t \in Seq(Line)
      <4> HIDE DEF all
      <4> QED BY <2>2, CutOffFacts
    <3> HIDE DEF all
    <3> QED BY <2>1, <2>2, <3>1
  <2>4. chunks' \in Seq(Chunk) /\ lost' \in BOOLEAN /\ main' \in MainState
    BY <2>1, EmptySeq DEF TypeOK, MainState
  <2> HIDE DEF all
  <2>5. TypeOK'
    BY <2>1, <2>3, <2>4 DEF TypeOK, PoolTypeOK
  <2>6. LockInv' /\ ChannelInv' /\ MainInv' /\ GoodJobs'
    BY <2>1 DEF LockInv, ChannelInv, ReceiverAlive, MainInv, GoodJobs
  <2> QED BY <2>5, <2>6
<1>8. CASE Exit
  BY <1>8 DEF Exit, TypeOK, PoolTypeOK, MainState, LockInv,
              ChannelInv, ReceiverAlive, MainInv, GoodJobs
<1> QED BY <1>1, <1>2, <1>3, <1>4, <1>5, <1>6, <1>7, <1>8, <1>9 DEF Main

\* When thread w ends, what is in the channel stays there, or is dropped with the
\* receiver.
LEMMA EndFacts ==
  ASSUME ControlInv, NEW w \in Workers, NEW how \in Over, worker[w] \notin Over, End(w, how)
  PROVE  /\ queue' \in Seq(Job) /\ (queue' = queue \/ queue' = <<>>)
         /\ worker' = [worker EXCEPT ![w] = how]
         /\ (~ReceiverAlive)' => queue' = <<>>
         /\ \A v \in Workers : worker'[v] = IF v = w THEN how ELSE worker[v]
<1>1. queue \in Seq(Job) /\ worker \in [Workers -> WorkerState]
  BY DEF ControlInv, TypeOK, PoolTypeOK
<1>2. /\ worker' = [worker EXCEPT ![w] = how]
      /\ queue' = IF \A v \in Workers \ {w} : worker[v] \in Over THEN <<>> ELSE queue
  BY DEF End
<1>3. \A v \in Workers : worker'[v] = IF v = w THEN how ELSE worker[v]
  BY <1>1, <1>2
<1>4. (~ReceiverAlive)' => \A v \in Workers \ {w} : worker[v] \in Over
  BY <1>3 DEF ReceiverAlive
<1> QED BY <1>1, <1>2, <1>3, <1>4, EmptySeq

\* The steps of the workers.
LEMMA WorkerKeepsControl ==
  ASSUME ControlInv, NEW w \in Workers, WorkerStep(w)
  PROVE  ControlInv'
<1> USE DEF pool, setting, locals, history
<1>0. /\ worker \in [Workers -> WorkerState] /\ running \in [Workers -> Job \cup {NoJob}]
      /\ queue \in Seq(Job) /\ w \in 1..Size /\ w # NoWorker /\ Size \in Nat
      /\ holder \in Workers \cup {NoWorker} /\ NoWorker \notin Workers
  BY ParallelAssumption DEF ControlInv, TypeOK, PoolTypeOK, Workers, NoWorker
<1>1. ASSUME Acquire(w) \/ AcquirePoisoned(w) \/ Recv(w) \/ Disconnected(w),
             UNCHANGED <<setting, locals, chunks, main, joined, output, history>>
      PROVE  ControlInv'
  <2>1. CASE Acquire(w)
    <3>1. /\ worker[w] = "lock" /\ holder = NoWorker /\ holder' = w
          /\ \A v \in Workers : worker'[v] = IF v = w THEN "recv" ELSE worker[v]
          /\ worker' \in [Workers -> WorkerState]
          /\ UNCHANGED <<queue, sender, poisoned, running>>
      BY <1>0, <2>1 DEF Acquire, WorkerState
    <3>2. TypeOK'
      BY <1>0, <1>1, <3>1 DEF ControlInv, TypeOK, PoolTypeOK
    <3>3. LockInv'
      BY <1>0, <3>1 DEF ControlInv, LockInv
    <3>4. ChannelInv'
      BY <1>1, <3>1 DEF ControlInv, ChannelInv, ReceiverAlive, Over
    <3>5. MainInv' /\ GoodJobs'
      BY <1>0, <1>1, <3>1 DEF ControlInv, TypeOK, MainInv, GoodJobs, Workers
    <3> QED BY <3>2, <3>3, <3>4, <3>5 DEF ControlInv
  <2>2. CASE AcquirePoisoned(w)
    <3>1. /\ worker[w] = "lock" /\ holder = NoWorker /\ poisoned /\ End(w, "panicked")
          /\ UNCHANGED <<sender, holder, poisoned, running>>
      BY <2>2 DEF AcquirePoisoned
    <3>2. /\ queue' \in Seq(Job) /\ (queue' = queue \/ queue' = <<>>)
          /\ (~ReceiverAlive)' => queue' = <<>>
          /\ \A v \in Workers : worker'[v] = IF v = w THEN "panicked" ELSE worker[v]
          /\ worker' \in [Workers -> WorkerState]
      BY <1>0, <3>1, EndFacts DEF Over, WorkerState
    <3>3. TypeOK'
      BY <1>1, <3>1, <3>2 DEF ControlInv, TypeOK, PoolTypeOK
    <3>4. LockInv'
      BY <1>0, <3>1, <3>2 DEF ControlInv, LockInv
    <3>5. ChannelInv'
      BY <1>1, <3>1, <3>2 DEF ControlInv, ChannelInv
    <3>6. MainInv'
      BY <1>0, <1>1, <3>1, <3>2 DEF ControlInv, TypeOK, MainInv, Workers
    <3>7. GoodJobs'
      BY <1>1, <3>1, <3>2 DEF ControlInv, GoodJobs
    <3> QED BY <3>3, <3>4, <3>5, <3>6, <3>7 DEF ControlInv
  <2>3. CASE Recv(w)
    <3>1. /\ worker[w] = "recv" /\ queue # <<>> /\ queue' = Tail(queue)
          /\ \A v \in Workers : worker'[v] = IF v = w THEN "run" ELSE worker[v]
          /\ \A v \in Workers : running'[v] = IF v = w THEN Head(queue) ELSE running[v]
          /\ worker' \in [Workers -> WorkerState]
          /\ running' = [running EXCEPT ![w] = Head(queue)]
          /\ UNCHANGED <<sender, holder, poisoned>>
      BY <1>0, <2>3 DEF Recv, WorkerState
    <3>2. /\ Head(queue) \in Job /\ queue' \in Seq(Job) /\ Len(queue') = Len(queue) - 1
          /\ \A i \in 1..Len(queue') : queue'[i] = queue[i + 1]
          /\ Head(queue) = queue[1] /\ Len(queue) \in Nat \ {0}
      <4>1. Len(queue) \in Nat \ {0}
        BY <1>0, <3>1, EmptySeq, LenProperties
      <4> QED BY <1>0, <3>1, <4>1, HeadTailProperties
    <3>3. GoodJob(Head(queue)) /\ \A i \in 1..Len(queue') : GoodJob(queue'[i])
      <4>1. 1 \in 1..Len(queue) /\ \A i \in 1..Len(queue') : i + 1 \in 1..Len(queue)
        BY <3>2
      <4> QED BY <3>2, <4>1 DEF ControlInv, GoodJobs
    <3>4. running' \in [Workers -> Job \cup {NoJob}] /\ Head(queue) # NoJob
      BY <1>0, <3>1, <3>2, NoJobIsNone
    <3>5. TypeOK'
      BY <1>1, <3>1, <3>2, <3>4 DEF ControlInv, TypeOK, PoolTypeOK
    <3>6. LockInv'
      BY <1>0, <3>1, <3>4 DEF ControlInv, LockInv
    <3>7. ChannelInv'
      <4>1. \A v \in Workers : worker[v] # "exited"
        BY <3>1 DEF ControlInv, ChannelInv
      <4>2. ReceiverAlive'
        BY <3>1 DEF ReceiverAlive, Over
      <4> QED BY <1>1, <3>1, <4>1, <4>2 DEF ControlInv, ChannelInv
    <3>8. MainInv'
      BY <1>0, <1>1, <3>1 DEF ControlInv, TypeOK, MainInv, Workers
    <3>9. GoodJobs'
      BY <1>1, <3>1, <3>3 DEF ControlInv, GoodJobs
    <3> QED BY <3>5, <3>6, <3>7, <3>8, <3>9 DEF ControlInv
  <2>4. CASE Disconnected(w)
    <3>1. /\ worker[w] = "recv" /\ queue = <<>> /\ ~sender /\ End(w, "exited")
          /\ holder' = NoWorker
          /\ UNCHANGED <<sender, poisoned, running>>
      BY <2>4 DEF Disconnected
    <3>2. /\ queue' = <<>> /\ queue' \in Seq(Job)
          /\ \A v \in Workers : worker'[v] = IF v = w THEN "exited" ELSE worker[v]
          /\ worker' \in [Workers -> WorkerState]
      BY <1>0, <3>1, EndFacts DEF Over, WorkerState
    <3>3. TypeOK'
      BY <1>1, <3>1, <3>2 DEF ControlInv, TypeOK, PoolTypeOK
    <3>4. LockInv'
      BY <1>0, <3>1, <3>2 DEF ControlInv, LockInv
    <3>5. ChannelInv'
      BY <1>1, <3>1, <3>2 DEF ControlInv, ChannelInv
    <3>6. MainInv'
      BY <1>0, <1>1, <3>1, <3>2 DEF ControlInv, TypeOK, MainInv, Workers
    <3>7. GoodJobs'
      BY <1>1, <3>1, <3>2 DEF ControlInv, GoodJobs
    <3> QED BY <3>3, <3>4, <3>5, <3>6, <3>7 DEF ControlInv
  <2> QED BY <1>1, <2>1, <2>2, <2>3, <2>4
<1>2. ASSUME Return(w), chunks' \in Seq(Chunk), lost' \in BOOLEAN, emptyChunk' \in BOOLEAN,
             UNCHANGED <<setting, locals, main, joined, output>>
      PROVE  ControlInv'
  <2>1. /\ worker[w] = "run" /\ holder' = NoWorker
        /\ \A v \in Workers : worker'[v] = IF v = w THEN "lock" ELSE worker[v]
        /\ \A v \in Workers : running'[v] = IF v = w THEN NoJob ELSE running[v]
        /\ worker' \in [Workers -> WorkerState] /\ running' \in [Workers -> Job \cup {NoJob}]
        /\ UNCHANGED <<queue, sender, poisoned>>
    BY <1>0, <1>2 DEF Return, WorkerState
  <2>2. TypeOK'
    BY <1>2, <2>1 DEF ControlInv, TypeOK, PoolTypeOK
  <2>3. LockInv'
    BY <1>0, <2>1 DEF ControlInv, LockInv
  <2>4. ChannelInv'
    BY <1>2, <2>1 DEF ControlInv, ChannelInv, ReceiverAlive, Over
  <2>5. main # "success"
    BY <1>0, <2>1 DEF ControlInv, MainInv, Workers
  <2>6. MainInv'
    BY <1>0, <1>2, <2>1, <2>5 DEF ControlInv, TypeOK, MainInv, Workers
  <2>7. GoodJobs'
    BY <1>2, <2>1 DEF ControlInv, GoodJobs
  <2> QED BY <2>2, <2>3, <2>4, <2>6, <2>7 DEF ControlInv
<1>3. ASSUME worker[w] = "run"
      PROVE  Result(running[w]) \in Chunk /\ running[w] \in Job /\ running[w] # NoJob
             /\ GoodJob(running[w])
  <2>1. running[w] # NoJob /\ running[w] \in Job
    BY <1>0, <1>3 DEF ControlInv, LockInv
  <2>2. GoodJob(running[w])
    BY <2>1 DEF ControlInv, GoodJobs
  <2> QED BY <2>1, <2>2, ResultFacts
<1>4. ASSUME worker[w] = "run", Push(w) \/ PushCutOff(w)
      PROVE  chunks' \in Seq(Chunk) /\ lost' \in BOOLEAN /\ emptyChunk' \in BOOLEAN
  <2> DEFINE whole == Result(running[w])
  <2>1. whole \in Chunk /\ whole.lines \in Seq(Line)
    BY <1>3, <1>4 DEF Chunk
  <2>2. CASE Push(w)
    <3>1. chunks' = Append(chunks, whole) /\ lost' = lost /\ emptyChunk' = emptyChunk
      BY <2>2 DEF Push
    <3> HIDE DEF whole
    <3>2. chunks' \in Seq(Chunk)
      BY <2>1, <3>1, AppendProperties DEF ControlInv, TypeOK
    <3>3. lost' \in BOOLEAN /\ emptyChunk' \in BOOLEAN
      BY <3>1 DEF ControlInv, TypeOK
    <3> QED BY <3>2, <3>3
  <2>3. CASE PushCutOff(w)
    <3>1. PICK kept \in CutOff(whole.lines) : chunks' = Append(chunks, [whole EXCEPT !.lines = kept])
      BY <2>3 DEF PushCutOff
    <3>2. lost' = TRUE /\ emptyChunk' = emptyChunk
      BY <2>3 DEF PushCutOff
    <3> HIDE DEF whole
    <3>3. kept \in Seq(Line)
      BY <2>1, CutOffFacts
    <3>4. [whole EXCEPT !.lines = kept] \in Chunk
      BY <2>1, <3>3 DEF Chunk
    <3>5. chunks' \in Seq(Chunk)
      BY <3>1, <3>4, AppendProperties DEF ControlInv, TypeOK
    <3>6. emptyChunk' \in BOOLEAN
      BY <3>2 DEF ControlInv, TypeOK
    <3> QED BY <3>2, <3>5, <3>6
  <2> QED BY <1>4, <2>2, <2>3
<1>5. CASE JobDone(w) \/ JobLosesTail(w)
  <2>1. Return(w) /\ worker[w] = "run" /\ (Push(w) \/ PushCutOff(w))
        /\ UNCHANGED <<setting, locals, main, joined, output>>
    BY <1>5 DEF JobDone, JobLosesTail, Return
  <2>2. chunks' \in Seq(Chunk) /\ lost' \in BOOLEAN /\ emptyChunk' \in BOOLEAN
    BY <1>4, <2>1
  <2> QED BY <1>2, <2>1, <2>2
<1>6. CASE JobFails(w)
  <2>1. /\ worker[w] = "run"
        /\ UNCHANGED <<setting, locals, joined, output>>
        /\ \/ JobPanics(w) /\ UNCHANGED main
           \/ main' = "failure" /\ UNCHANGED pool
    BY <1>6 DEF JobFails
  <2>2. chunks' \in Seq(Chunk) /\ lost' \in BOOLEAN /\ emptyChunk' \in BOOLEAN
        /\ (main' = "success" => chunks' = chunks)
    <3>1. UNCHANGED <<chunks, history>> \/ Push(w) \/ PushCutOff(w)
      BY <1>6 DEF JobFails
    <3>2. CASE UNCHANGED <<chunks, history>>
      BY <3>2 DEF ControlInv, TypeOK
    <3>3. CASE Push(w) \/ PushCutOff(w)
      <4>1. main # "success"
        BY <1>0, <2>1 DEF ControlInv, MainInv, Workers
      <4>2. main' # "success"
        BY <2>1, <4>1
      <4> QED BY <1>4, <2>1, <3>3, <4>2
    <3> QED BY <3>1, <3>2, <3>3
  <2>3. CASE main' = "failure" /\ UNCHANGED pool
    BY <2>1, <2>3, <2>2 DEF ControlInv, TypeOK, PoolTypeOK, MainState, LockInv, ChannelInv,
                      ReceiverAlive, MainInv, GoodJobs
  <2>4. CASE JobPanics(w) /\ UNCHANGED main
    <3>1. /\ End(w, "panicked") /\ holder' = NoWorker /\ poisoned' = TRUE
          /\ running' = [running EXCEPT ![w] = NoJob] /\ UNCHANGED sender
      BY <2>4 DEF JobPanics
    <3>2. /\ queue' \in Seq(Job) /\ (queue' = queue \/ queue' = <<>>)
          /\ (~ReceiverAlive)' => queue' = <<>>
          /\ \A v \in Workers : worker'[v] = IF v = w THEN "panicked" ELSE worker[v]
          /\ worker' \in [Workers -> WorkerState]
          /\ running' \in [Workers -> Job \cup {NoJob}]
          /\ \A v \in Workers : running'[v] = IF v = w THEN NoJob ELSE running[v]
      BY <1>0, <2>1, <3>1, EndFacts DEF Over, WorkerState
    <3>3. TypeOK'
      BY <2>1, <2>4, <2>2, <3>1, <3>2 DEF ControlInv, TypeOK, PoolTypeOK
    <3>4. LockInv'
      BY <1>0, <2>1, <3>1, <3>2 DEF ControlInv, LockInv
    <3>5. ChannelInv'
      BY <2>1, <2>4, <3>1, <3>2 DEF ControlInv, ChannelInv
    <3>6. MainInv'
      <4>1. main # "success" /\ main' = main
        BY <1>0, <2>1, <2>4 DEF ControlInv, MainInv, Workers
      <4>2. \A v \in 1..joined : worker'[v] = "exited"
        <5>0. joined \in 0..Size
          BY DEF ControlInv, TypeOK
        <5>1. \A v \in 1..joined : v \in Workers /\ worker[v] = "exited"
          BY <5>0, ParallelAssumption DEF ControlInv, MainInv, Workers
        <5>2. worker[w] # "exited"
          BY <1>0, <2>1
        <5> QED BY <3>2, <5>1, <5>2
      <4> QED BY <2>1, <4>1, <4>2 DEF ControlInv, MainInv
    <3>7. GoodJobs'
      BY <2>1, <3>1, <3>2 DEF ControlInv, GoodJobs
    <3> QED BY <3>3, <3>4, <3>5, <3>6, <3>7 DEF ControlInv
  <2> QED BY <2>1, <2>3, <2>4
<1> QED BY <1>1, <1>5, <1>6 DEF WorkerStep, WorkerLoop

\* The control depends on the variables alone.
LEMMA StutterKeepsControl ==
  ASSUME ControlInv, UNCHANGED vars
  PROVE  ControlInv'
BY DEF vars, ControlInv, TypeOK, PoolTypeOK, LockInv, ChannelInv, ReceiverAlive, MainInv, GoodJobs

\* The control of sort, in every state: who holds the mutex, when the channel is
\* empty, what the main thread has in its hands.
THEOREM ControlHolds == Spec => []ControlInv
<1>1. Init => ControlInv
  BY ControlInit
<1>2. ControlInv /\ [Next]_vars => ControlInv'
  BY MainKeepsControl, WorkerKeepsControl, StutterKeepsControl DEF Next, Ended
<1> QED BY <1>1, <1>2, PTL DEF Spec

\* sort is never blocked for ever: while submit() waits for room in the channel, or
\* finish() for a thread to end, some worker can go on (Sort.NobodyWaitsForEver).
THEOREM NobodyIsStuck == Spec => []NobodyWaitsForEver
<1>1. ASSUME ControlInv PROVE NobodyWaitsForEver
  <2>1. /\ Size \in Nat \ {0} /\ queue \in Seq(Job) /\ holder \in Workers \cup {NoWorker}
        /\ worker \in [Workers -> WorkerState] /\ joined \in 0..Size
    BY <1>1, ParallelAssumption DEF ControlInv, TypeOK, PoolTypeOK
  <2>2. ASSUME queue # <<>> \/ ~sender, NEW v \in Workers, worker[v] \notin Over
        PROVE  \E w \in Workers : CanMove(w)
    <3>1. CASE holder = NoWorker
      <4>1. worker[v] \notin {"recv", "run"}
        BY <1>1, <3>1 DEF ControlInv, LockInv, Workers, NoWorker
      <4>2. worker[v] = "lock"
        BY <2>1, <2>2, <4>1 DEF WorkerState
      <4> QED BY <3>1, <4>2 DEF CanMove
    <3>2. CASE holder \in Workers
      <4>1. worker[holder] \in {"recv", "run"}
        BY <1>1, <3>2 DEF ControlInv, LockInv
      <4> QED BY <2>2, <3>2, <4>1 DEF CanMove
    <3> QED BY <2>1, <3>1, <3>2
  <2>3. ASSUME main \in {"sort", "merges"}, Len(queue) = Size
        PROVE  ~ReceiverAlive \/ \E w \in Workers : CanMove(w)
    <3>1. queue # <<>>
      BY <2>1, <2>3
    <3> QED BY <2>2, <3>1 DEF ReceiverAlive
  <2>4. ASSUME main = "joining"
        PROVE  worker[joined + 1] \in Over \/ \E w \in Workers : CanMove(w)
    <3>1. ~sender /\ joined < Size
      BY <1>1, <2>4 DEF ControlInv, ChannelInv, MainInv
    <3>2. joined + 1 \in Workers
      BY <2>1, <3>1 DEF Workers
    <3> QED BY <2>2, <3>1, <3>2
  <2> QED BY <2>3, <2>4 DEF NobodyWaitsForEver
<1> QED BY <1>1, ControlHolds, PTL

-----------------------------------------------------------------------------
(* The invariant of the lines is inductive.                                *)

\* What each place holds is a number.
LEMMA Sizes ==
  ASSUME NEW T
  PROVE  /\ \A s \in Seq(Line) : Count(s, T) \in Nat
         /\ \A jobs \in Seq(Job) : JobWeight(jobs, T) \in Nat
         /\ \A r \in [Workers -> Job \cup {NoJob}] : RunsWeight(Runs(r), T) \in Nat
         /\ \A cs \in Seq(Chunk) : ChunkWeight(cs, T) \in Nat
<1>1. \A r \in [Workers -> Job \cup {NoJob}] : RunsWeight(Runs(r), T) \in Nat
  <2> TAKE r \in [Workers -> Job \cup {NoJob}]
  <2>1. Runs(r) \in Seq(Seq(Job))
    BY RunsType
  <2>2. FlattenSeq(Runs(r)) \in Seq(Job)
    BY <2>1, FlattenType
  <2> QED BY <2>2, JobWeightIs DEF RunsWeight
<1>2. \A cs \in Seq(Chunk) : ChunkWeight(cs, T) \in Nat
  <2>1. [lines |-> <<>>, merged |-> TRUE, flushed |-> TRUE] \in Chunk
    BY EmptySeq DEF Chunk
  <2> QED BY <2>1, ChunkWeightFacts
<1> QED BY <1>1, <1>2, CountType, JobWeightIs

\* Nothing weighs nothing.
LEMMA Nothing ==
  ASSUME NEW T
  PROVE  Count(<<>>, T) = 0 /\ JobWeight(<<>>, T) = 0 /\ ChunkWeight(<<>>, T) = 0
<1>1. [lines |-> <<>>, merged |-> TRUE, flushed |-> TRUE] \in Chunk /\ <<>> \in Seq(Chunk)
      /\ [kind |-> "sort", parts |-> <<>>] \in Job
  BY EmptySeq DEF Chunk, Job
<1> QED BY <1>1, CountEmpty, JobWeightFew, ChunkWeightFacts

\* A step that moves lines, or drops some when a job or a write fails.
Moves(T) ==
  /\ Everywhere(T)' <= Everywhere(T)
  /\ ~poisoned' /\ ~lost' => ~poisoned /\ ~lost /\ Everywhere(T)' = Everywhere(T)

\* How many lines there are is a number, and the output has no more.
LEMMA EverywhereType ==
  ASSUME ControlInv, NEW T
  PROVE  Everywhere(T) \in Nat /\ Count(output, T) <= Everywhere(T)
<1>1. /\ Count(rest, T) \in Nat /\ JobWeight(pending, T) \in Nat /\ JobWeight(queue, T) \in Nat
      /\ RunsWeight(Runs(running), T) \in Nat /\ ChunkWeight(chunks, T) \in Nat
      /\ Count(output, T) \in Nat
  BY Sizes DEF ControlInv, TypeOK, PoolTypeOK
<1> QED BY <1>1 DEF Everywhere

\* Steps that only move lines keep the invariant.
LEMMA MovesKeep ==
  ASSUME LinesInv, ControlInv, ControlInv', payload' = payload, lost => lost',
         main' \in {"panicked", "failure"} => output' = output,
         main' \notin {"panicked", "failure"} =>
           main \notin {"panicked", "failure"} /\ \A T : Counted(T, lost') => Moves(T)
  PROVE  LinesInv'
<1>1. ASSUME NEW T, Counted(T, lost')
      PROVE  /\ Count(output', T) <= Count(payload.read, T)
             /\ main' \notin {"panicked", "failure"} =>
                  /\ Everywhere(T)' <= Count(payload.read, T)
                  /\ ~poisoned' /\ ~lost' => Everywhere(T)' = Count(payload.read, T)
  <2>0. Counted(T, lost)
    BY <1>1 DEF Counted
  <2>1. CASE main' \in {"panicked", "failure"}
    BY <2>0, <2>1 DEF LinesInv
  <2>2. CASE main' \notin {"panicked", "failure"}
    <3>1. Moves(T) /\ main \notin {"panicked", "failure"}
      BY <1>1, <2>2
    <3>2. Everywhere(T) \in Nat
      BY EverywhereType
    <3>3. Everywhere(T)' \in Nat /\ Count(output', T) <= Everywhere(T)'
      <4>1. /\ Count(rest', T) \in Nat /\ JobWeight(pending', T) \in Nat
            /\ JobWeight(queue', T) \in Nat /\ RunsWeight(Runs(running'), T) \in Nat
            /\ ChunkWeight(chunks', T) \in Nat /\ Count(output', T) \in Nat
        BY Sizes DEF ControlInv, TypeOK, PoolTypeOK
      <4> QED BY <4>1 DEF Everywhere
    <3>4. Count(payload.read, T) \in Nat /\ Count(output', T) \in Nat
      BY PayloadsAssumption, Sizes DEF ControlInv, TypeOK
    <3>5. /\ Everywhere(T) <= Count(payload.read, T)
          /\ ~poisoned /\ ~lost => Everywhere(T) = Count(payload.read, T)
      BY <2>0, <3>1 DEF LinesInv
    <3>6. /\ Everywhere(T)' <= Everywhere(T)
          /\ ~poisoned' /\ ~lost' => ~poisoned /\ ~lost /\ Everywhere(T)' = Everywhere(T)
      BY <3>1 DEF Moves
    <3> DEFINE before == Everywhere(T)
               after == Everywhere(T)'
               all == Count(payload.read, T)
               out == Count(output', T)
    <3>7. /\ before \in Nat /\ after \in Nat /\ all \in Nat /\ out \in Nat
          /\ out <= after /\ after <= before /\ before <= all
      BY <3>2, <3>3, <3>4, <3>5, <3>6
    <3>8. ~poisoned' /\ ~lost' => after = all
      BY <3>5, <3>6
    <3> HIDE DEF before, after, all, out
    <3>9. out <= all /\ after <= all
      BY <3>7
    <3> QED BY <3>8, <3>9 DEF after, all, out
  <2> QED BY <2>1, <2>2
<1> QED BY <1>1 DEF LinesInv

\* At first every line is in the input.
LEMMA LinesInit ==
  ASSUME Init
  PROVE  LinesInv
<1>1. ControlInv
  BY ControlInit
<1>2. ASSUME NEW T
      PROVE  Everywhere(T) = Count(payload.read, T)
  <2>1. /\ JobWeight(pending, T) = 0 /\ JobWeight(queue, T) = 0 /\ ChunkWeight(chunks, T) = 0
        /\ Count(output, T) = 0 /\ rest = payload.read
    BY Nothing DEF Init, New
  <2>2. RunsWeight(Runs(running), T) = 0
    <3>1. running \in [Workers -> Job \cup {NoJob}] /\ \A w \in Workers : running[w] = NoJob
      BY DEF Init, New
    <3> QED BY <3>1, NobodyRuns
  <2>3. Count(rest, T) \in Nat
    BY <1>1, Sizes DEF ControlInv, TypeOK
  <2> QED BY <2>1, <2>2, <2>3 DEF Everywhere
<1>3. \A T : Everywhere(T) \in Nat /\ Count(output, T) <= Everywhere(T)
  BY <1>1, EverywhereType
<1> QED BY <1>2, <1>3 DEF LinesInv

\* Steps of the main thread.
LEMMA MainKeepsLines ==
  ASSUME ControlInv, ControlInv', LinesInv, Main
  PROVE  LinesInv'
<1> USE DEF pool, setting, locals, history
<1>1. ASSUME NEW T
      PROVE  /\ Count(rest, T) \in Nat /\ JobWeight(pending, T) \in Nat
             /\ JobWeight(queue, T) \in Nat /\ RunsWeight(Runs(running), T) \in Nat
             /\ ChunkWeight(chunks, T) \in Nat /\ Count(output, T) \in Nat
             /\ Count(rest', T) \in Nat /\ JobWeight(pending', T) \in Nat
             /\ JobWeight(queue', T) \in Nat /\ ChunkWeight(chunks', T) \in Nat
             /\ Count(output', T) \in Nat
  BY Sizes DEF ControlInv, TypeOK, PoolTypeOK
<1>2. CASE Collect
  <2>1. PICK n \in 0..Len(rest) :
           /\ rest' = SubSeq(rest, n + 1, Len(rest))
           /\ pending' = <<[kind |-> "sort", parts |-> <<SubSeq(rest, 1, n)>>]>>
    BY <1>2, CollectFacts DEF ControlInv
  <2> DEFINE batch == SubSeq(rest, 1, n)
             job == [kind |-> "sort", parts |-> <<batch>>]
  <2>2. batch \in Seq(Line) /\ rest' \in Seq(Line) /\ batch \o rest' = rest
    BY <2>1, CutInTwo DEF ControlInv, TypeOK
  <2>3. /\ main = "collect" /\ main' = "sort" /\ pending' = <<job>>
        /\ UNCHANGED <<queue, poisoned, running, payload, chunks, output, lost>>
    BY <1>2, <2>1 DEF Collect
  <2> HIDE DEF batch
  <2>4. job \in Job /\ job.parts = <<batch>>
    BY <2>2 DEF Job
  <2> HIDE DEF job
  <2>5. ASSUME NEW T PROVE Moves(T)
    <3>1. Count(batch \o rest', T) = Count(batch, T) + Count(rest', T)
      BY <2>2, CountConcat
    <3>2. JobWeight(pending', T) = Count(batch, T) /\ Count(batch, T) \in Nat
      <4>1. JobWeight(<<job>>, T) = Weight(job.parts, T)
        BY <2>4, JobWeightFew
      <4>2. Weight(<<batch>>, T) = Count(batch, T) /\ Count(batch, T) \in Nat
        BY <2>2, WeightFew, CountType
      <4> QED BY <2>3, <2>4, <4>1, <4>2
    <3>3. JobWeight(pending, T) = 0
      BY <2>3, Nothing DEF ControlInv, MainInv
    <3>4. Everywhere(T)' = Everywhere(T)
      BY <1>1, <2>2, <2>3, <3>1, <3>2, <3>3 DEF Everywhere
    <3>5. Everywhere(T) \in Nat
      BY EverywhereType
    <3> QED BY <2>3, <3>4, <3>5 DEF Moves
  <2> QED BY <2>3, <2>5, MovesKeep
<1>3. CASE SubmitSort \/ SubmitMerge
  <2>1. /\ main \in {"sort", "merges"} /\ main' \notin {"panicked", "failure"}
        /\ queue' = Append(queue, Head(pending))
        /\ UNCHANGED <<rest, poisoned, running, payload, chunks, output, lost>>
    <3>1. CASE SubmitSort
      BY <3>1 DEF SubmitSort, Send
    <3>2. CASE SubmitMerge
      BY <3>2 DEF SubmitMerge, Send
    <3> QED BY <1>3, <3>1, <3>2
  <2>2. pending # <<>> /\ pending \in Seq(Job) /\ queue \in Seq(Job)
    BY <2>1 DEF ControlInv, TypeOK, PoolTypeOK, MainInv
  <2>3. pending' = Tail(pending)
    <3>1. CASE SubmitSort
      <4>1. Len(pending) = 1
        BY <3>1 DEF SubmitSort, ControlInv, MainInv
      <4>2. Tail(pending) \in Seq(Job) /\ Len(Tail(pending)) = 0
        BY <2>2, <4>1, HeadTailProperties
      <4> QED BY <3>1, <4>2, EmptySeq DEF SubmitSort
    <3>2. CASE SubmitMerge
      BY <3>2 DEF SubmitMerge
    <3> QED BY <1>3, <3>1, <3>2
  <2>4. ASSUME NEW T PROVE Moves(T)
    <3>1. /\ Head(pending) \in Job
          /\ JobWeight(pending, T) = Weight(Head(pending).parts, T) + JobWeight(Tail(pending), T)
      BY <2>2, JobWeightHead
    <3>2. JobWeight(queue', T) = JobWeight(queue, T) + Weight(Head(pending).parts, T)
      BY <2>1, <2>2, <3>1, JobWeightAppend
    <3>3. Weight(Head(pending).parts, T) \in Nat
      BY <3>1, WeightType DEF Job
    <3>4. Everywhere(T)' = Everywhere(T)
      BY <1>1, <2>1, <2>3, <3>1, <3>2, <3>3 DEF Everywhere
    <3>5. Everywhere(T) \in Nat
      BY EverywhereType
    <3> QED BY <2>1, <3>4, <3>5 DEF Moves
  <2> QED BY <2>1, <2>4, MovesKeep
<1>4. CASE Request
  <2>1. /\ main = "request" /\ main' \notin {"panicked", "failure"}
        /\ \A T : ChunkWeight(chunks', T) + JobWeight(pending', T) = ChunkWeight(chunks, T)
    <3>1. TypeOK /\ main = "request"
      BY <1>4 DEF ControlInv, Request
    <3>2. /\ main' = IF pending' = <<>> THEN "collect" ELSE "announce"
          /\ \A T : ChunkWeight(chunks', T) + JobWeight(pending', T) = ChunkWeight(chunks, T)
      BY <1>4, <3>1, RequestFacts
    <3> QED BY <3>1, <3>2
  <2>2. UNCHANGED <<rest, queue, poisoned, running, payload, output, lost>>
    BY <1>4 DEF Request
  <2>3. ASSUME NEW T PROVE Moves(T)
    <3>1. JobWeight(pending, T) = 0
      BY <2>1, Nothing DEF ControlInv, MainInv
    <3>2. Everywhere(T)' = Everywhere(T)
      BY <1>1, <2>1, <2>2, <3>1 DEF Everywhere
    <3>3. Everywhere(T) \in Nat
      BY EverywhereType
    <3> QED BY <2>2, <3>2, <3>3 DEF Moves
  <2> QED BY <2>1, <2>2, <2>3, MovesKeep
<1>5. CASE Announce \/ SubmitPanics \/ MessagePanics \/ Finish \/ Join \/ Exit
  <2>1. UNCHANGED <<rest, pending, queue, running, chunks, poisoned, payload, output, lost>>
    BY <1>5 DEF Announce, SubmitPanics, MessagePanics, Finish, Join, Exit, DropSender
  <2>2. main' \notin {"panicked", "failure"} => main \notin {"panicked", "failure"}
    BY <1>5 DEF Announce, SubmitPanics, MessagePanics, Finish, Join, Exit, AfterPanic
  <2>3. ASSUME NEW T PROVE Moves(T)
    <3>1. Everywhere(T)' = Everywhere(T)
      BY <2>1 DEF Everywhere
    <3>2. Everywhere(T) \in Nat
      BY EverywhereType
    <3> QED BY <2>1, <3>1, <3>2 DEF Moves
  <2> QED BY <2>1, <2>2, <2>3, MovesKeep
<1>6. ASSUME PrintAll \/ PrintLosesTail \/ PrintPanics PROVE LinesInv'
  <2> DEFINE all == MergeAll(LinesOfEach(chunks))
  <2>1. all \in Seq(Line) /\ \A T : Count(all, T) = ChunkWeight(chunks, T)
    <3>1. [lines |-> <<>>, merged |-> TRUE, flushed |-> TRUE] \in Chunk
      BY EmptySeq DEF Chunk
    <3>2. chunks \in Seq(Chunk)
      BY DEF ControlInv, TypeOK
    <3>3. LinesOfEach(chunks) \in Heaps
      BY <3>1, <3>2, LinesOfEachFacts
    <3> QED BY <3>3, MergeAllFacts DEF ChunkWeight
  <2>2. main = "print" /\ output = <<>> /\ payload' = payload
    BY <1>6 DEF PrintAll, PrintLosesTail, PrintPanics, ControlInv, MainInv
  <2> HIDE DEF all
  <2>3. ASSUME NEW T, UpClosed(T), output' \in {all} \cup CutOff(all)
        PROVE  Count(output', T) <= ChunkWeight(chunks, T)
    <3>1. CASE output' = all
      BY <1>1, <2>1, <3>1
    <3>2. CASE output' \in CutOff(all)
      <4>1. Count(output', T) <= Count(all, T)
        BY <2>1, <2>3, <3>2, CutOffFacts
      <4> QED BY <2>1, <4>1
    <3> QED BY <2>3, <3>1, <3>2
  <2>4. CASE PrintPanics
    <3>1. output' \in {all} \cup CutOff(all) /\ main' \in {"panicked", "failure"} /\ lost'
      BY <2>4 DEF PrintPanics, AfterPanic, all
    <3>2. ASSUME NEW T, Counted(T, lost')
          PROVE  Count(output', T) <= Count(payload.read, T)
      <4>0. UpClosed(T) /\ Counted(T, lost)
        BY <3>1, <3>2 DEF Counted
      <4>1. Everywhere(T) <= Count(payload.read, T)
        BY <2>2, <4>0 DEF LinesInv
      <4>2. ChunkWeight(chunks, T) <= Everywhere(T) /\ Everywhere(T) \in Nat
        BY <1>1 DEF Everywhere
      <4>3. Count(output', T) <= ChunkWeight(chunks, T)
        BY <2>3, <3>1, <4>0
      <4>4. Count(payload.read, T) \in Nat
        BY PayloadsAssumption, Sizes DEF ControlInv, TypeOK
      <4>5. Count(output', T) \in Nat /\ ChunkWeight(chunks, T) \in Nat
        BY <1>1
      <4> QED BY <4>1, <4>2, <4>3, <4>4, <4>5
    <3> QED BY <2>2, <3>1, <3>2 DEF LinesInv
  <2>5. CASE PrintAll \/ PrintLosesTail
    <3>1. /\ chunks' = <<>> /\ main' = "success"
          /\ UNCHANGED <<rest, pending, queue, running, poisoned, payload>>
          /\ \/ output' = all /\ lost' = lost
             \/ output' \in CutOff(all) /\ lost' = TRUE
      <4>1. CASE PrintAll
        BY <4>1 DEF PrintAll, all
      <4>2. CASE PrintLosesTail
        <5>1. output' \in CutOff(all)
          BY <4>2 DEF PrintLosesTail, all
        <5> QED BY <4>2, <5>1 DEF PrintLosesTail
      <4> QED BY <2>5, <4>1, <4>2
    <3>2. ASSUME NEW T, Counted(T, lost') PROVE Moves(T)
      <4>1. Count(output, T) = 0 /\ ChunkWeight(chunks', T) = 0
        BY <2>2, <3>1, Nothing
      <4>2. Everywhere(T)' = Count(rest, T) + JobWeight(pending, T) + JobWeight(queue, T)
                               + RunsWeight(Runs(running), T) + 0 + Count(output', T)
        BY <3>1, <4>1 DEF Everywhere
      <4>3. Everywhere(T) = Count(rest, T) + JobWeight(pending, T) + JobWeight(queue, T)
                               + RunsWeight(Runs(running), T) + ChunkWeight(chunks, T) + 0
        BY <4>1 DEF Everywhere
      <4>4. CASE output' = all /\ lost' = lost
        <5>1. Count(output', T) = ChunkWeight(chunks, T)
          BY <2>1, <4>4
        <5>2. Everywhere(T)' = Everywhere(T) /\ Everywhere(T) \in Nat
          BY <1>1, <4>2, <4>3, <5>1
        <5> QED BY <3>1, <4>4, <5>2 DEF Moves
      <4>5. CASE output' \in CutOff(all) /\ lost' = TRUE
        <5>0. UpClosed(T)
          BY <3>2, <4>5 DEF Counted
        <5>1. Count(output', T) <= ChunkWeight(chunks, T)
          BY <2>3, <4>5, <5>0
        <5>2. Everywhere(T)' <= Everywhere(T)
          BY <1>1, <4>2, <4>3, <5>1
        <5> QED BY <4>5, <5>2 DEF Moves
      <4> QED BY <3>1, <4>4, <4>5
    <3> QED BY <2>2, <3>1, <3>2, MovesKeep
  <2> QED BY <1>6, <2>4, <2>5
<1> QED BY <1>2, <1>3, <1>4, <1>5, <1>6 DEF Main

\* Steps of the workers.
LEMMA WorkerKeepsLines ==
  ASSUME ControlInv, ControlInv', LinesInv, NEW w \in Workers, WorkerStep(w)
  PROVE  LinesInv'
<1> USE DEF pool, setting, locals, history
<1>1. ASSUME NEW T
      PROVE  /\ Count(rest, T) \in Nat /\ JobWeight(pending, T) \in Nat
             /\ JobWeight(queue, T) \in Nat /\ RunsWeight(Runs(running), T) \in Nat
             /\ ChunkWeight(chunks, T) \in Nat /\ Count(output, T) \in Nat
             /\ JobWeight(queue', T) \in Nat /\ RunsWeight(Runs(running'), T) \in Nat
             /\ ChunkWeight(chunks', T) \in Nat
  BY Sizes DEF ControlInv, TypeOK, PoolTypeOK
<1>2. /\ running \in [Workers -> Job \cup {NoJob}] /\ queue \in Seq(Job)
      /\ chunks \in Seq(Chunk) /\ running[w] \in Job \cup {NoJob}
  BY DEF ControlInv, TypeOK, PoolTypeOK
<1>3. /\ running[w] # NoJob <=> worker[w] = "run"
      /\ running[w] # NoJob => GoodJob(running[w])
  BY DEF ControlInv, LockInv, GoodJobs
<1>4. ASSUME NEW x \in Job \cup {NoJob}, running' = [running EXCEPT ![w] = x], NEW T
      PROVE  /\ RunsWeight(Runs(running'), T) + RunWeight(running[w], T)
                  = RunsWeight(Runs(running), T) + RunWeight(x, T)
             /\ RunWeight(running[w], T) \in Nat /\ RunWeight(x, T) \in Nat
  BY <1>2, <1>4, RunChanges
\* The queue or a part of it is dropped, and so is the job that ran.
<1>5. ASSUME queue' = queue \/ queue' = <<>>, poisoned', main' = main,
             running' = running \/ running' = [running EXCEPT ![w] = NoJob],
             UNCHANGED <<setting, locals, chunks, output, lost>>
      PROVE  LinesInv'
  <2>1. ASSUME NEW T PROVE Moves(T)
    <3>1. JobWeight(queue', T) <= JobWeight(queue, T)
      <4>1. JobWeight(<<>>, T) = 0
        BY Nothing
      <4>2. CASE queue' = queue
        BY <1>1, <4>2
      <4>3. CASE queue' = <<>>
        BY <1>1, <4>1, <4>3
      <4> QED BY <1>5, <4>2, <4>3
    <3>2. RunsWeight(Runs(running'), T) <= RunsWeight(Runs(running), T)
      <4>1. CASE running' = running
        BY <1>1, <4>1
      <4>2. CASE running' = [running EXCEPT ![w] = NoJob]
        <5>1. RunWeight(NoJob, T) = 0
          BY DEF RunWeight
        <5>2. /\ RunsWeight(Runs(running'), T) + RunWeight(running[w], T)
                   = RunsWeight(Runs(running), T) + RunWeight(NoJob, T)
              /\ RunWeight(running[w], T) \in Nat
          BY <1>4, <4>2
        <5> QED BY <1>1, <5>1, <5>2
      <4> QED BY <1>5, <4>1, <4>2
    <3>3. Everywhere(T)' = Count(rest, T) + JobWeight(pending, T) + JobWeight(queue', T)
                             + RunsWeight(Runs(running'), T) + ChunkWeight(chunks, T)
                             + Count(output, T)
      BY <1>5 DEF Everywhere
    <3>4. Everywhere(T)' <= Everywhere(T)
      BY <1>1, <3>1, <3>2, <3>3 DEF Everywhere
    <3> QED BY <1>5, <3>4 DEF Moves
  <2> QED BY <1>5, <2>1, MovesKeep
<1>6. CASE WorkerLoop(w)
  <2>1. UNCHANGED <<setting, locals, chunks, main, joined, output, history>>
    BY <1>6 DEF WorkerLoop
  <2>2. CASE Acquire(w) \/ Disconnected(w)
    <3>1. queue' = queue /\ UNCHANGED <<poisoned, running>>
      BY <2>2 DEF Acquire, Disconnected, End
    <3>2. ASSUME NEW T PROVE Moves(T)
      <4>1. Everywhere(T)' = Everywhere(T)
        BY <2>1, <3>1 DEF Everywhere
      <4>2. Everywhere(T) \in Nat
        BY EverywhereType
      <4> QED BY <2>1, <3>1, <4>1, <4>2 DEF Moves
    <3> QED BY <2>1, <3>2, MovesKeep
  <2>3. CASE AcquirePoisoned(w)
    <3>1. (queue' = queue \/ queue' = <<>>) /\ poisoned' /\ running' = running
      BY <2>3 DEF AcquirePoisoned, End
    <3> QED BY <1>5, <2>1, <3>1
  <2>4. CASE Recv(w)
    <3>1. /\ queue # <<>> /\ queue' = Tail(queue)
          /\ running' = [running EXCEPT ![w] = Head(queue)]
          /\ running[w] = NoJob /\ UNCHANGED poisoned
      BY <1>3, <2>4 DEF Recv
    <3>2. ASSUME NEW T PROVE Moves(T)
      <4>1. /\ Head(queue) \in Job
            /\ JobWeight(queue, T) = Weight(Head(queue).parts, T) + JobWeight(queue', T)
        BY <1>2, <3>1, JobWeightHead
      <4>2. /\ RunsWeight(Runs(running'), T) + RunWeight(running[w], T)
                 = RunsWeight(Runs(running), T) + RunWeight(Head(queue), T)
            /\ RunWeight(Head(queue), T) \in Nat
        BY <1>4, <3>1, <4>1
      <4>3. /\ RunWeight(running[w], T) = 0
            /\ RunWeight(Head(queue), T) = Weight(Head(queue).parts, T)
        BY <3>1, <4>1, NoJobIsNone DEF RunWeight
      <4>4. Everywhere(T)' = Count(rest, T) + JobWeight(pending, T) + JobWeight(queue', T)
                               + RunsWeight(Runs(running'), T) + ChunkWeight(chunks, T)
                               + Count(output, T)
        BY <2>1 DEF Everywhere
      <4>5. Everywhere(T)' = Everywhere(T)
        BY <1>1, <4>1, <4>2, <4>3, <4>4 DEF Everywhere
      <4>6. Everywhere(T) \in Nat
        BY EverywhereType
      <4> QED BY <2>1, <3>1, <4>5, <4>6 DEF Moves
    <3> QED BY <2>1, <3>2, MovesKeep
  <2> QED BY <1>6, <2>2, <2>3, <2>4 DEF WorkerLoop
\* The job has run, and what it pushes has some or all of its lines.
<1>7. ASSUME NEW c \in Chunk, Return(w), chunks' = Append(chunks, c),
             \A T : Counted(T, lost') => Count(c.lines, T) <= Weight(running[w].parts, T),
             \/ lost'
             \/ lost' = lost /\ \A T : Count(c.lines, T) = Weight(running[w].parts, T),
             UNCHANGED <<setting, locals, main, joined, output>>
      PROVE  LinesInv'
  <2>1. /\ worker[w] = "run" /\ running' = [running EXCEPT ![w] = NoJob]
        /\ UNCHANGED <<queue, poisoned>>
    BY <1>7 DEF Return
  <2>2. ASSUME NEW T, Counted(T, lost') PROVE Moves(T)
    <3>1. RunWeight(NoJob, T) = 0 /\ RunWeight(running[w], T) = Weight(running[w].parts, T)
      BY <1>3, <2>1 DEF RunWeight
    <3>2. /\ RunsWeight(Runs(running'), T) + RunWeight(running[w], T)
               = RunsWeight(Runs(running), T) + RunWeight(NoJob, T)
          /\ RunWeight(running[w], T) \in Nat
      BY <1>4, <2>1
    <3>3. /\ ChunkWeight(chunks', T) = ChunkWeight(chunks, T) + Count(c.lines, T)
          /\ Count(c.lines, T) \in Nat
      BY <1>2, <1>7, ChunkWeightFacts
    <3>4. Everywhere(T)' = Count(rest, T) + JobWeight(pending, T) + JobWeight(queue, T)
                             + RunsWeight(Runs(running'), T) + ChunkWeight(chunks', T)
                             + Count(output, T)
      BY <1>7, <2>1 DEF Everywhere
    <3>5. Count(c.lines, T) <= Weight(running[w].parts, T)
      BY <1>7, <2>2
    <3>6. Everywhere(T)' <= Everywhere(T)
      BY <1>1, <3>1, <3>2, <3>3, <3>4, <3>5 DEF Everywhere
    <3>7. CASE lost' = lost /\ \A S : Count(c.lines, S) = Weight(running[w].parts, S)
      <4>1. Count(c.lines, T) = Weight(running[w].parts, T)
        BY <3>7
      <4>2. Everywhere(T)' = Everywhere(T)
        BY <1>1, <3>1, <3>2, <3>3, <3>4, <4>1 DEF Everywhere
      <4> QED BY <2>1, <3>6, <3>7, <4>2 DEF Moves
    <3>8. CASE lost'
      BY <3>6, <3>8 DEF Moves
    <3> QED BY <1>7, <3>7, <3>8
  <2> QED BY <1>7, <2>2, MovesKeep
<1>8. ASSUME worker[w] = "run"
      PROVE  /\ running[w] \in Job /\ Result(running[w]) \in Chunk
             /\ \A T : Count(Result(running[w]).lines, T) = Weight(running[w].parts, T)
  BY <1>2, <1>3, <1>8, ResultFacts
\* So it is with what a job pushes: all of its lines, or those written before a cut.
<1>9. ASSUME worker[w] = "run", Push(w) \/ PushCutOff(w)
      PROVE  \E c \in Chunk :
               /\ chunks' = Append(chunks, c)
               /\ \A T : Counted(T, lost') => Count(c.lines, T) <= Weight(running[w].parts, T)
               /\ \/ lost'
                  \/ lost' = lost /\ \A T : Count(c.lines, T) = Weight(running[w].parts, T)
  <2> DEFINE whole == Result(running[w])
  <2>1. /\ whole \in Chunk /\ whole.lines \in Seq(Line)
        /\ \A T : Count(whole.lines, T) = Weight(running[w].parts, T)
    BY <1>8, <1>9 DEF Chunk
  <2>2. \A T : Weight(running[w].parts, T) \in Nat
    BY <1>8, <1>9, WeightType DEF Job
  <2>3. CASE Push(w)
    <3>1. chunks' = Append(chunks, whole) /\ lost' = lost
      BY <2>3 DEF Push
    <3> HIDE DEF whole
    <3>2. \A T : Count(whole.lines, T) <= Weight(running[w].parts, T)
      BY <2>1, <2>2
    <3> QED BY <2>1, <3>1, <3>2
  <2>4. CASE PushCutOff(w)
    <3>1. PICK kept \in CutOff(whole.lines) : chunks' = Append(chunks, [whole EXCEPT !.lines = kept])
      BY <2>4 DEF PushCutOff
    <3>2. lost' = TRUE
      BY <2>4 DEF PushCutOff
    <3> DEFINE c == [whole EXCEPT !.lines = kept]
    <3> HIDE DEF whole
    <3>3. kept \in Seq(Line)
      BY <2>1, CutOffFacts
    <3>4. c \in Chunk /\ c.lines = kept
      BY <2>1, <3>3 DEF Chunk
    <3>5. ASSUME NEW T, Counted(T, lost')
          PROVE  Count(c.lines, T) <= Weight(running[w].parts, T)
      <4>1. UpClosed(T)
        BY <3>2, <3>5 DEF Counted
      <4>2. Count(kept, T) <= Count(whole.lines, T)
        BY <2>1, <4>1, CutOffFacts
      <4> QED BY <2>1, <3>4, <4>2
    <3>6. chunks' = Append(chunks, c)
      BY <3>1
    <3> HIDE DEF c
    <3> QED BY <3>2, <3>4, <3>5, <3>6
  <2> QED BY <1>9, <2>3, <2>4
<1>10. CASE JobDone(w) \/ JobLosesTail(w)
  <2>1. /\ Return(w) /\ worker[w] = "run" /\ (Push(w) \/ PushCutOff(w))
        /\ UNCHANGED <<setting, locals, main, joined, output>>
    BY <1>10 DEF JobDone, JobLosesTail, Return
  <2> QED BY <1>7, <1>9, <2>1
<1>11. CASE JobFails(w)
  <2>1. /\ worker[w] = "run"
        /\ UNCHANGED <<setting, locals, joined, output>>
        /\ UNCHANGED <<chunks, history>> \/ Push(w) \/ PushCutOff(w)
        /\ \/ JobPanics(w) /\ UNCHANGED main
           \/ main' = "failure" /\ UNCHANGED pool
    BY <1>11 DEF JobFails
  <2>2. lost => lost'
    BY <2>1 DEF Push, PushCutOff
  <2>3. CASE main' = "failure"
    BY <2>1, <2>2, <2>3, MovesKeep
  <2>4. CASE JobPanics(w) /\ UNCHANGED main
    <3>1. /\ queue' = queue \/ queue' = <<>>
          /\ poisoned' /\ running' = [running EXCEPT ![w] = NoJob]
      BY <2>4 DEF JobPanics, End
    <3>2. CASE UNCHANGED <<chunks, history>>
      BY <1>5, <2>1, <2>4, <3>1, <3>2
    <3>3. CASE Push(w) \/ PushCutOff(w)
      <4>1. PICK c \in Chunk :
               /\ chunks' = Append(chunks, c)
               /\ \A T : Counted(T, lost') => Count(c.lines, T) <= Weight(running[w].parts, T)
        BY <1>9, <2>1, <3>3
      <4>2. ASSUME NEW T, Counted(T, lost') PROVE Moves(T)
        <5>1. JobWeight(queue', T) <= JobWeight(queue, T)
          <6>1. JobWeight(<<>>, T) = 0
            BY Nothing
          <6>2. CASE queue' = queue
            BY <1>1, <6>2
          <6>3. CASE queue' = <<>>
            BY <1>1, <6>1, <6>3
          <6> QED BY <3>1, <6>2, <6>3
        <5>2. RunWeight(NoJob, T) = 0 /\ RunWeight(running[w], T) = Weight(running[w].parts, T)
          BY <1>3, <2>1 DEF RunWeight
        <5>3. /\ RunsWeight(Runs(running'), T) + RunWeight(running[w], T)
                   = RunsWeight(Runs(running), T) + RunWeight(NoJob, T)
              /\ RunWeight(running[w], T) \in Nat
          BY <1>4, <3>1
        <5>4. /\ ChunkWeight(chunks', T) = ChunkWeight(chunks, T) + Count(c.lines, T)
              /\ Count(c.lines, T) \in Nat
          BY <1>2, <4>1, ChunkWeightFacts
        <5>5. Count(c.lines, T) <= Weight(running[w].parts, T)
          BY <4>1, <4>2
        <5>6. Everywhere(T)' = Count(rest, T) + JobWeight(pending, T) + JobWeight(queue', T)
                                 + RunsWeight(Runs(running'), T) + ChunkWeight(chunks', T)
                                 + Count(output, T)
          BY <2>1 DEF Everywhere
        <5>7. Everywhere(T)' <= Everywhere(T)
          BY <1>1, <5>1, <5>2, <5>3, <5>4, <5>5, <5>6 DEF Everywhere
        <5> QED BY <3>1, <5>7 DEF Moves
      <4>3. main' \notin {"panicked", "failure"} => main \notin {"panicked", "failure"}
        BY <2>4
      <4> QED BY <2>1, <2>2, <4>2, <4>3, MovesKeep
    <3> QED BY <2>1, <3>2, <3>3
  <2> QED BY <2>1, <2>3, <2>4
<1> QED BY <1>6, <1>10, <1>11 DEF WorkerStep

\* So do steps that change nothing.
LEMMA StutterKeepsLines ==
  ASSUME LinesInv, UNCHANGED vars
  PROVE  LinesInv'
<1>1. \A T : Everywhere(T)' = Everywhere(T)
  BY DEF vars, Everywhere
<1> QED BY <1>1 DEF vars, LinesInv

\* The lines of the input are never more than once anywhere, and all there until
\* something fails.
THEOREM LinesHold == Spec => [](ControlInv /\ LinesInv)
<1>1. Init => ControlInv /\ LinesInv
  BY ControlInit, LinesInit
<1>2. (ControlInv /\ LinesInv) /\ [Next]_vars => (ControlInv /\ LinesInv)'
  <2> SUFFICES ASSUME ControlInv, LinesInv, [Next]_vars PROVE ControlInv' /\ LinesInv'
    OBVIOUS
  <2>1. CASE Main
    BY <2>1, MainKeepsControl, MainKeepsLines
  <2>2. CASE \E w \in Workers : WorkerStep(w)
    BY <2>2, WorkerKeepsControl, WorkerKeepsLines
  <2>3. CASE UNCHANGED vars
    BY <2>3, StutterKeepsControl, StutterKeepsLines
  <2> QED BY <2>1, <2>2, <2>3 DEF Next, Ended
<1> QED BY <1>1, <1>2, PTL DEF Spec

\* Every line of the input is in exactly one place as long as nothing has failed:
\* the batches, the merges and the vector that workers push to while main takes from
\* it lose and double none (Sort.LinesConserved).
THEOREM NoLineIsLost == Spec => []LinesConserved
<1>1. ASSUME ControlInv, LinesInv PROVE LinesConserved
  <2> SUFFICES ASSUME ~poisoned, ~lost, main \notin {"panicked", "failure"}, NEW l \in Line
               PROVE  Copies(l, payload.read) =
                        Copies(l, rest \o JobLines(pending \o queue \o RunningJobs)
                                   \o FlattenSeq(LinesOfEach(chunks)) \o output)
    BY DEF LinesConserved
  <2> DEFINE T == {l}
             jobs == pending \o queue \o RunningJobs
             there == FlattenSeq(LinesOfEach(chunks))
  <2>1. /\ rest \in Seq(Line) /\ output \in Seq(Line) /\ payload.read \in Seq(Line)
        /\ pending \in Seq(Job) /\ queue \in Seq(Job) /\ chunks \in Seq(Chunk)
        /\ running \in [Workers -> Job \cup {NoJob}]
    BY <1>1, PayloadsAssumption DEF ControlInv, TypeOK, PoolTypeOK
  <2>2. RunningJobs = FlattenSeq(Runs(running)) /\ RunningJobs \in Seq(Job)
    <3>1. RunningJobs = FlattenSeq(Runs(running))
      BY DEF RunningJobs, Runs, Ran
    <3>2. Runs(running) \in Seq(Seq(Job))
      BY <2>1, RunsType
    <3> QED BY <3>1, <3>2, FlattenType
  <2> HIDE DEF T
  <2>3. /\ jobs \in Seq(Job)
        /\ JobWeight(jobs, T) = JobWeight(pending, T) + JobWeight(queue, T)
                                  + RunsWeight(Runs(running), T)
    <3>1. pending \o queue \in Seq(Job) /\ jobs \in Seq(Job)
      BY <2>1, <2>2, ConcatProperties
    <3>2. JobWeight(pending \o queue, T) = JobWeight(pending, T) + JobWeight(queue, T)
      BY <2>1, JobWeightConcat
    <3>3. JobWeight(jobs, T) = JobWeight(pending \o queue, T) + JobWeight(RunningJobs, T)
      BY <2>2, <3>1, JobWeightConcat, ZenonT(30)
    <3> QED BY <2>2, <3>1, <3>2, <3>3 DEF RunsWeight
  <2> HIDE DEF jobs
  <2>4. JobLines(jobs) \in Seq(Line) /\ Count(JobLines(jobs), T) = JobWeight(jobs, T)
    BY <2>3, JobWeightIs DEF JobWeight
  <2>5. there \in Seq(Line) /\ Count(there, T) = ChunkWeight(chunks, T)
    <3>1. [lines |-> <<>>, merged |-> TRUE, flushed |-> TRUE] \in Chunk
      BY EmptySeq DEF Chunk
    <3>2. LinesOfEach(chunks) \in Seq(Seq(Line))
      BY <2>1, <3>1, LinesOfEachFacts DEF Heaps
    <3> QED BY <3>2, WeightType DEF ChunkWeight, Weight
  <2> HIDE DEF there
  <2>6. /\ rest \o JobLines(jobs) \in Seq(Line)
        /\ rest \o JobLines(jobs) \o there \in Seq(Line)
        /\ rest \o JobLines(jobs) \o there \o output \in Seq(Line)
    BY <2>1, <2>4, <2>5, ConcatProperties
  <2>7. Count(rest \o JobLines(jobs) \o there \o output, T)
          = Count(rest, T) + Count(JobLines(jobs), T) + Count(there, T) + Count(output, T)
    <3>1. Count(rest \o JobLines(jobs), T) = Count(rest, T) + Count(JobLines(jobs), T)
      BY <2>1, <2>4, CountConcat
    <3>2. Count(rest \o JobLines(jobs) \o there, T)
            = Count(rest \o JobLines(jobs), T) + Count(there, T)
      BY <2>5, <2>6, CountConcat, ZenonT(30)
    <3>3. Count(rest \o JobLines(jobs) \o there \o output, T)
            = Count(rest \o JobLines(jobs) \o there, T) + Count(output, T)
      <4>1. \A a, b \in Seq(Line) : Count(a \o b, T) = Count(a, T) + Count(b, T)
        BY CountConcat
      <4> QED BY <2>1, <2>6, <4>1
    <3> QED BY <3>1, <3>2, <3>3
  <2>8. Everywhere(T) = Count(payload.read, T)
    <3>1. Counted(T, lost)
      BY DEF Counted, T
    <3> QED BY <1>1, <3>1 DEF LinesInv
  <2>9. /\ Count(rest, T) \in Nat /\ JobWeight(pending, T) \in Nat /\ JobWeight(queue, T) \in Nat
        /\ RunsWeight(Runs(running), T) \in Nat /\ ChunkWeight(chunks, T) \in Nat
        /\ Count(output, T) \in Nat
    BY <2>1, Sizes
  <2>10. Count(rest \o JobLines(jobs) \o there \o output, T) = Count(payload.read, T)
    BY <2>3, <2>4, <2>5, <2>7, <2>8, <2>9 DEF Everywhere
  <2>11. \A s \in Seq(Line) : Copies(l, s) = Count(s, T)
    BY CountOne DEF T
  <2> QED BY <2>1, <2>6, <2>10, <2>11 DEF jobs, there
<1> QED BY <1>1, LinesHold, PTL

\* sort exits with success only when it has printed as many lines as the reads of its
\* inputs delivered, unless a BufWriter has not written all; nothing is printed after
\* a job has failed, and never more lines, nor one that was not read and is not the
\* front of one that was (Sort.PrintsEverything).
THEOREM AllIsPrinted == Spec => []PrintsEverything
<1>1. ASSUME ControlInv, LinesInv PROVE PrintsEverything
  <2>1. /\ rest \in Seq(Line) /\ output \in Seq(Line) /\ payload.read \in Seq(Line)
        /\ running \in [Workers -> Job \cup {NoJob}] /\ Size \in Nat \ {0}
    BY <1>1, PayloadsAssumption, ParallelAssumption DEF ControlInv, TypeOK, PoolTypeOK
  <2>2. ASSUME joined = Size
        PROVE  \A w \in Workers : worker[w] = "exited"
    BY <1>1, <2>2 DEF ControlInv, MainInv, Workers
  <2>3. ASSUME main = "success", ~lost PROVE Len(output) = Len(payload.read)
    <3>1. joined = Size /\ rest = <<>> /\ pending = <<>> /\ chunks = <<>>
      BY <1>1, <2>3 DEF ControlInv, MainInv
    <3>2. \A w \in Workers : worker[w] = "exited"
      BY <2>2, <3>1
    <3>3. ~poisoned /\ \A w \in Workers : running[w] = NoJob
      BY <1>1, <3>2 DEF ControlInv, LockInv
    <3>4. queue = <<>>
      <4>1. 1 \in Workers
        BY <2>1 DEF Workers
      <4> QED BY <1>1, <3>2, <4>1 DEF ControlInv, ChannelInv
    <3>5. /\ Count(rest, Line) = 0 /\ JobWeight(pending, Line) = 0
          /\ JobWeight(queue, Line) = 0 /\ ChunkWeight(chunks, Line) = 0
      BY <3>1, <3>4, Nothing
    <3>6. RunsWeight(Runs(running), Line) = 0
      BY <2>1, <3>3, NobodyRuns
    <3>7. Count(output, Line) \in Nat
      BY <2>1, Sizes
    <3>8. Everywhere(Line) = Count(output, Line)
      BY <3>5, <3>6, <3>7 DEF Everywhere
    <3>9. Everywhere(Line) = Count(payload.read, Line)
      <4>1. Counted(Line, lost)
        BY <2>3 DEF Counted
      <4> QED BY <1>1, <2>3, <3>3, <3>1, <4>1 DEF LinesInv
    <3> QED BY <2>1, <3>8, <3>9, CountAll
  <2>4. ASSUME poisoned PROVE output = <<>>
    <3>1. joined # Size
      BY <1>1, <2>2, <2>4 DEF ControlInv, LockInv
    <3> QED BY <1>1, <3>1 DEF ControlInv, MainInv
  <2>5. ASSUME ~lost, NEW l \in Line PROVE Copies(l, output) <= Copies(l, payload.read)
    <3>1. Counted({l}, lost)
      BY <2>5 DEF Counted
    <3>2. Count(output, {l}) <= Count(payload.read, {l})
      BY <1>1, <3>1 DEF LinesInv
    <3> QED BY <2>1, <3>2, CountOne
  <2>6. Len(output) <= Len(payload.read)
    <3>1. UpClosed(Line)
      BY DEF UpClosed
    <3>2. Counted(Line, lost)
      BY <3>1 DEF Counted
    <3>3. Count(output, Line) <= Count(payload.read, Line)
      BY <1>1, <3>2 DEF LinesInv
    <3> QED BY <2>1, <3>3, CountAll
  <2>7. ASSUME NEW i \in 1..Len(output)
        PROVE  \E j \in 1..Len(payload.read) :
                 output[i] \in {payload.read[j]} \cup Fronts[payload.read[j]]
    <3> DEFINE x == output[i]
               T == {l \in Line : x \in {l} \cup Fronts[l]}
    <3>1. x \in Line /\ x \in T
      BY <2>1, <2>7, ElementOfSeq
    <3>2. ASSUME NEW l \in Line, NEW p \in Fronts[l], p \in T PROVE l \in T
      <4>1. x = p \/ x \in Fronts[p]
        BY <3>2
      <4> HIDE DEF x
      <4>2. x \in Fronts[l]
        BY <3>2, <4>1, PartsAssumption
      <4> QED BY <4>2
    <3>3. Counted(T, lost)
      <4>1. T \in SUBSET Line
        OBVIOUS
      <4> HIDE DEF T
      <4> QED BY <3>2, <4>1 DEF Counted, UpClosed
    <3> HIDE DEF x
    <3>4. /\ \A j : j \in Places(output, T) <=> j \in 1..Len(output) /\ output[j] \in T
          /\ \A j : j \in Places(payload.read, T) <=>
                     j \in 1..Len(payload.read) /\ payload.read[j] \in T
      <4> HIDE DEF T
      <4> QED BY DEF Places
    <3>5. Count(output, T) # 0
      <4>1. i \in Places(output, T)
        BY <2>7, <3>1, <3>4 DEF x
      <4>2. IsFiniteSet(Places(output, T))
        BY <2>1, CountType
      <4> HIDE DEF T
      <4> QED BY <4>1, <4>2, FS_EmptySet DEF Count
    <3>6. Count(payload.read, T) # 0
      <4> HIDE DEF T
      <4>1. Count(output, T) <= Count(payload.read, T)
        BY <1>1, <3>3 DEF LinesInv
      <4>2. Count(output, T) \in Nat /\ Count(payload.read, T) \in Nat
        BY <2>1, CountType
      <4> QED BY <3>5, <4>1, <4>2
    <3>7. PICK j : j \in Places(payload.read, T)
      <4> HIDE DEF T
      <4>1. Places(payload.read, T) # {}
        BY <3>6, FS_EmptySet DEF Count
      <4> QED BY <4>1
    <3>8. j \in 1..Len(payload.read) /\ payload.read[j] \in T
      BY <3>4, <3>7
    <3> QED BY <3>8 DEF x
  <2> QED BY <2>3, <2>4, <2>5, <2>6, <2>7 DEF PrintsEverything
<1> QED BY <1>1, LinesHold, PTL

-----------------------------------------------------------------------------
(* The order of the heap, as long as no chunk in it is empty: then the     *)
(* chunks compare by their heads, and the heap algorithm keeps the chunk   *)
(* with the least head at the root.                                        *)

Up(i) == i \div 2
Least(h, i) == Head(h[i])
Filled(h) == h \in Heaps /\ \A c \in Elements(h) : c # <<>>

\* Position i is in order with its parent; all are; those from position q on are.
Below(h, i) == Least(h, Up(i)) <= Least(h, i)
InOrder(h) == \A i \in 2..Len(h) : Below(h, i)
OrderedFrom(h, q) == \A i \in 2..Len(h) : Up(i) >= q => Below(h, i)

\* All are but position p, from where a chunk rises or sinks.
Bridged(h, p) == \A i \in 2..Len(h) : Up(i) = p => Least(h, Up(p)) <= Least(h, i)
Rises(h, p) ==
  /\ \A i \in 2..Len(h) : i # p => Below(h, i)
  /\ p >= 2 => Bridged(h, p)
Sinks(h, q, p) ==
  /\ \A i \in 2..Len(h) : Up(i) >= q /\ Up(i) # p => Below(h, i)
  /\ p >= 2 /\ Up(p) >= q => Bridged(h, p)
Falls(h, p) ==
  /\ \A i \in 2..Len(h) : i # p /\ Up(i) # p => Below(h, i)
  /\ p >= 2 => Bridged(h, p)

\* The parent is above.
LEMMA UpFacts ==
  \A i \in Nat : i >= 2 => /\ Up(i) \in Nat /\ Up(i) >= 1 /\ Up(i) < i
                           /\ (i = 2 * Up(i) \/ i = 2 * Up(i) + 1)
BY DEF Up

\* Among chunks that have lines, the heap compares their heads.
LEMMA LeastFacts ==
  ASSUME NEW h, Filled(h)
  PROVE  /\ Len(h) \in Nat
         /\ \A i \in 1..Len(h) : h[i] \in Seq(Line) /\ h[i] # <<>> /\ Least(h, i) \in Nat
         /\ \A i, j \in 1..Len(h) : ChunkLeq(h[i], h[j]) <=> Least(h, j) <= Least(h, i)
<1>1. Len(h) \in Nat /\ \A i \in 1..Len(h) : h[i] \in Seq(Line) /\ h[i] # <<>>
  BY LenProperties, ElementOfSeq DEF Filled, Heaps, Elements
<1>2. \A c \in Seq(Line) : c # <<>> => Head(c) \in Line
  BY HeadTailProperties
<1>3. \A i \in 1..Len(h) : Least(h, i) \in Nat
  BY <1>1, <1>2, LineAssumption DEF Least
<1> QED BY <1>1, <1>3 DEF ChunkLeq, Least

\* A heap of the same chunks has no empty one either.
LEMMA FilledAlike ==
  ASSUME NEW g, NEW h, Alike(g, h), Filled(h)
  PROVE  Filled(g) /\ Len(g) = Len(h)
BY DEF Alike, Filled

\* A swap exchanges two heads.
LEMMA SwapLeast ==
  ASSUME NEW h, Filled(h), NEW i \in 1..Len(h), NEW j \in 1..Len(h)
  PROVE  LET g == Heap!Swap(h, i, j)
         IN  /\ Filled(g) /\ Len(g) = Len(h)
             /\ \A k \in 1..Len(h) :
                  Least(g, k) = IF k = j THEN Least(h, i)
                                ELSE IF k = i THEN Least(h, j) ELSE Least(h, k)
<1> DEFINE g == Heap!Swap(h, i, j)
<1>1. /\ Alike(g, h)
      /\ \A k \in 1..Len(h) : g[k] = IF k = j THEN h[i] ELSE IF k = i THEN h[j] ELSE h[k]
  BY SwapFacts DEF Filled
<1> HIDE DEF g
<1>2. Filled(g) /\ Len(g) = Len(h)
  BY <1>1, FilledAlike
<1> QED BY <1>1, <1>2 DEF g, Least

\* A chunk rises.
LEMMA RisesStep ==
  ASSUME NEW h, Filled(h), NEW p \in 2..Len(h), Rises(h, p), ~ (Least(h, Up(p)) <= Least(h, p))
  PROVE  Rises(Heap!Swap(h, p, Up(p)), Up(p))
<1> DEFINE g == Heap!Swap(h, p, Up(p))
           u == Up(p)
           n == Len(h)
<1>1. n \in Nat /\ \A i \in 1..n : Least(h, i) \in Nat
  BY LeastFacts
<1>2. /\ u \in 1..n /\ u < p /\ p \in 1..n
      /\ \A i \in 2..n : Up(i) \in 1..n /\ Up(i) < i
  BY <1>1, UpFacts
<1>3. /\ Len(g) = n
      /\ \A k \in 1..n : Least(g, k) = IF k = u THEN Least(h, p)
                                       ELSE IF k = p THEN Least(h, u) ELSE Least(h, k)
  BY <1>2, SwapLeast, ZenonT(30)
<1>4. /\ Least(h, p) < Least(h, u)
  BY <1>1, <1>2
<1> HIDE DEF g, n
<1>5. ASSUME NEW i \in 2..n, i # u PROVE Below(g, i)
  <2>1. /\ i \in 1..n /\ Up(i) \in 1..n /\ Up(i) < i /\ i \in Nat /\ Up(i) \in Nat
    BY <1>1, <1>2
  <2>2. CASE i = p
    <3>1. Least(g, u) = Least(h, p) /\ Least(g, p) = Least(h, u)
      BY <1>2, <1>3
    <3> QED BY <1>1, <1>2, <1>4, <2>2, <3>1 DEF Below
  <2>3. CASE i # p
    <3>1. Least(g, i) = Least(h, i)
      BY <1>3, <1>5, <2>1, <2>3
    <3>2. Least(h, Up(i)) <= Least(h, i)
      BY <2>3 DEF Rises, Below, n
    <3>3. CASE Up(i) = p
      <4>1. Least(g, Up(i)) = Least(h, u)
        BY <1>2, <1>3, <3>3
      <4>2. Least(h, u) <= Least(h, i)
        BY <3>3 DEF Rises, Bridged, n
      <4> QED BY <3>1, <4>1, <4>2 DEF Below
    <3>4. CASE Up(i) = u
      <4>1. Least(g, Up(i)) = Least(h, p)
        BY <1>2, <1>3, <3>4
      <4>2. Least(h, p) \in Nat /\ Least(h, u) \in Nat /\ Least(h, i) \in Nat
        BY <1>1, <1>2, <2>1
      <4>3. Least(h, p) <= Least(h, i)
        BY <1>4, <3>2, <3>4, <4>2
      <4> QED BY <3>1, <4>1, <4>3 DEF Below
    <3>5. CASE Up(i) # p /\ Up(i) # u
      BY <1>3, <2>1, <3>1, <3>2, <3>5 DEF Below
    <3> QED BY <3>3, <3>4, <3>5
  <2> QED BY <2>2, <2>3
<1>6. ASSUME u >= 2, NEW i \in 2..n, Up(i) = u PROVE Least(g, Up(u)) <= Least(g, i)
  <2>1. /\ u \in 2..n /\ Up(u) \in 1..n /\ Up(u) < u /\ Up(u) \in Nat /\ u \in Nat /\ p \in Nat
        /\ i \in 1..n /\ u < i /\ i \in Nat
    BY <1>1, <1>2, <1>6, SMTT(30)
  <2>2. Least(g, Up(u)) = Least(h, Up(u))
    <3>1. Up(u) # u /\ Up(u) # p
      BY <1>2, <2>1
    <3> QED BY <1>3, <2>1, <3>1
  <2>3. Least(h, Up(u)) <= Least(h, u)
    <3>1. u # p
      BY <1>2, <2>1
    <3> QED BY <2>1, <3>1 DEF Rises, Below, n
  <2>4. CASE i = p
    <3>1. Least(g, i) = Least(h, u)
      BY <1>2, <1>3, <2>1, <2>4
    <3> QED BY <2>2, <2>3, <3>1
  <2>5. CASE i # p
    <3>1. Least(g, i) = Least(h, i)
      BY <1>3, <2>1, <2>5
    <3>2. Least(h, u) <= Least(h, i)
      BY <1>6, <2>5 DEF Rises, Below, n
    <3>3. Least(h, Up(u)) \in Nat /\ Least(h, u) \in Nat /\ Least(h, i) \in Nat
      BY <1>1, <1>2, <2>1
    <3>4. Least(h, Up(u)) <= Least(h, i)
      BY <2>3, <3>2, <3>3
    <3> QED BY <2>2, <3>1, <3>4
  <2> QED BY <2>4, <2>5
<1> QED BY <1>3, <1>5, <1>6 DEF Rises, Bridged, g

\* sift_up() orders a heap in which one position may be out of order with its parent.
LEMMA SiftUpOrders ==
  \A s \in Heap!Spot :
    Filled(s.heap) /\ Rises(s.heap, s.at) => InOrder(Heap!SiftUp[s])
<1> DEFINE S == Heap!Spot
           Ready(s) == Filled(s.heap) /\ Rises(s.heap, s.at)
           size == [s \in S |-> s.at]
           P == {s \in S : Ready(s) => InOrder(Heap!SiftUp[s])}
<1>1. size \in [S -> Nat]
  BY DEF Heap!Spot
<1>2. ASSUME NEW s \in S, \A u \in S : size[u] < size[s] => u \in P
      PROVE  s \in P
  <2> SUFFICES ASSUME Ready(s) PROVE InOrder(Heap!SiftUp[s])
    OBVIOUS
  <2> DEFINE h == s.heap
             p == s.at
             u == Heap!MovedTo(s, Heap!Parent(s))
  <2>1. p \in Nat \ {0} /\ Filled(h) /\ Rises(h, p) /\ Len(h) \in Nat
    BY LeastFacts DEF Heap!Spot
  <2>2. CASE p \notin 2..Len(h)
    <3>1. Heap!SiftUp[s] = h
      BY <2>2, SiftUpDefined
    <3>2. InOrder(h)
      BY <2>1, <2>2 DEF InOrder, Rises
    <3> QED BY <3>1, <3>2
  <2>3. CASE p \in 2..Len(h)
    <3>1. /\ Heap!Parent(s) = Up(p) /\ u \in S /\ u.at = Up(p) /\ Up(p) < p
          /\ Up(p) \in 1..Len(h) /\ p \in 1..Len(h)
      BY <2>1, <2>3, ParentOf DEF Up
    <3>2. ChunkLeq(h[p], h[Up(p)]) <=> Least(h, Up(p)) <= Least(h, p)
      BY <2>1, <3>1, LeastFacts
    <3>3. CASE ChunkLeq(h[p], h[Up(p)])
      <4>1. Heap!SiftUp[s] = h
        BY <3>1, <3>3, SiftUpDefined
      <4>2. Below(h, p)
        BY <3>2, <3>3 DEF Below
      <4> QED BY <2>1, <4>1, <4>2 DEF InOrder, Rises
    <3>4. CASE ~ ChunkLeq(h[p], h[Up(p)])
      <4>1. Heap!SiftUp[s] = Heap!SiftUp[u]
        BY <2>3, <3>1, <3>4, SiftUpDefined
      <4>2. u.heap = Heap!Swap(h, p, Up(p))
        BY <3>1 DEF Heap!MovedTo
      <4>3. Filled(u.heap) /\ Rises(u.heap, u.at)
        BY <2>1, <2>3, <3>1, <3>2, <3>4, <4>2, SwapLeast, RisesStep
      <4>4. u \in P
        <5>1. size[u] < size[s]
          BY <3>1
        <5> HIDE DEF P, size, u
        <5> QED BY <1>2, <3>1, <5>1
      <4> QED BY <4>1, <4>3, <4>4
    <3> QED BY <3>3, <3>4
  <2> QED BY <2>2, <2>3
<1>3. \A s \in S : s \in P
  <2> HIDE DEF P, size, S
  <2> QED BY <1>1, <1>2, InductionOnSize
<1> QED BY <1>3

\* The greater child has the lesser head, of the one or two children.
LEMMA ChildIsLeast ==
  ASSUME NEW s \in Heap!Spot, Filled(s.heap), ~ (2 * s.at > Len(s.heap))
  PROVE  /\ Heap!Child(s) \in 2..Len(s.heap) /\ Up(Heap!Child(s)) = s.at /\ s.at < Heap!Child(s)
         /\ \A i \in 2..Len(s.heap) : Up(i) = s.at => Least(s.heap, Heap!Child(s)) <= Least(s.heap, i)
<1> DEFINE h == s.heap
           p == s.at
           c == Heap!Child(s)
           n == Len(h)
<1>1. /\ c \in 1..n /\ p < c /\ Up(c) = p /\ p \in 1..n /\ n \in Nat
  BY ChildOf, LeastFacts DEF Up
<1>2. c = IF 2 * p < n /\ ChunkLeq(h[2 * p], h[2 * p + 1]) THEN 2 * p + 1 ELSE 2 * p
  BY DEF Heap!Child, Heap!GreaterChild
<1>3. ~ (2 * p > n)
  OBVIOUS
<1>4. /\ \A i \in 1..n : Least(h, i) \in Nat
      /\ \A i, j \in 1..n : ChunkLeq(h[i], h[j]) <=> Least(h, j) <= Least(h, i)
  BY LeastFacts
<1> HIDE DEF c, h, n, p
<1>5. ASSUME NEW i \in 2..n, Up(i) = p PROVE Least(h, c) <= Least(h, i)
  <2>1. (i = 2 * p \/ i = 2 * p + 1) /\ i \in 1..n /\ i \in Nat
    <3>1. i \in Nat /\ i >= 2 /\ i \in 1..n
      BY <1>1
    <3> QED BY <1>5, <3>1, UpFacts
  <2>2. CASE c = i
    BY <1>4, <2>1, <2>2
  <2>3. CASE i = 2 * p /\ c # i
    <3>1. c = 2 * p + 1 /\ ChunkLeq(h[2 * p], h[2 * p + 1])
      BY <1>2, <2>3
    <3>2. ChunkLeq(h[i], h[c])
      BY <2>3, <3>1
    <3> QED BY <1>1, <1>4, <2>1, <3>2
  <2>4. CASE i = 2 * p + 1 /\ c # i
    <3>1. 2 * p < n
      BY <1>1, <2>1, <2>4
    <3>2. c = 2 * p /\ ~ ChunkLeq(h[2 * p], h[2 * p + 1])
      BY <1>2, <2>4, <3>1
    <3>3. ~ ChunkLeq(h[c], h[i])
      BY <2>4, <3>2
    <3>4. Least(h, c) \in Nat /\ Least(h, i) \in Nat /\ ~ (Least(h, i) <= Least(h, c))
      BY <1>1, <1>4, <2>1, <3>3
    <3> QED BY <3>4
  <2> QED BY <2>1, <2>2, <2>3, <2>4
<1>6. c \in 2..n
  BY <1>1
<1> QED BY <1>1, <1>5, <1>6 DEF c, h, n, p

\* A chunk sinks past a child with a lesser head.
LEMMA SinksStep ==
  ASSUME NEW h, Filled(h), NEW q \in Nat \ {0}, NEW p \in 1..Len(h), p >= q, Sinks(h, q, p),
         NEW c \in 2..Len(h), Up(c) = p, p < c, ~ (Least(h, p) <= Least(h, c)),
         \A i \in 2..Len(h) : Up(i) = p => Least(h, c) <= Least(h, i)
  PROVE  Sinks(Heap!Swap(h, p, c), q, c)
<1> DEFINE g == Heap!Swap(h, p, c)
           n == Len(h)
<1>1. n \in Nat /\ \A i \in 1..n : Least(h, i) \in Nat
  BY LeastFacts
<1>2. c \in 1..n /\ p \in Nat /\ c \in Nat
      /\ \A i \in 2..n : i \in 1..n /\ Up(i) \in 1..n /\ Up(i) < i /\ Up(i) \in Nat /\ i \in Nat
  BY <1>1, UpFacts
<1>3. /\ Len(g) = n
      /\ \A k \in 1..n : Least(g, k) = IF k = c THEN Least(h, p)
                                       ELSE IF k = p THEN Least(h, c) ELSE Least(h, k)
  BY <1>2, SwapLeast
<1>4. Least(h, c) < Least(h, p)
  BY <1>1, <1>2
<1> HIDE DEF g, n
<1>5. ASSUME NEW i \in 2..n, Up(i) >= q, Up(i) # c PROVE Below(g, i)
  <2>1. i \in 1..n /\ Up(i) \in 1..n /\ Up(i) < i /\ i \in Nat /\ Up(i) \in Nat
    BY <1>2
  <2>2. CASE Up(i) = p
    <3>1. Least(g, p) = Least(h, c)
      BY <1>2, <1>3
    <3>2. CASE i = c
      <4>1. Least(g, i) = Least(h, p)
        BY <1>2, <1>3, <3>2
      <4> QED BY <1>1, <1>2, <1>4, <2>2, <3>1, <4>1 DEF Below
    <3>3. CASE i # c
      <4>1. Least(g, i) = Least(h, i)
        <5>1. i # p
          BY <2>1, <2>2
        <5> QED BY <1>3, <2>1, <3>3, <5>1
      <4>2. Least(h, c) <= Least(h, i)
        BY <2>2 DEF n
      <4> QED BY <2>2, <3>1, <4>1, <4>2 DEF Below
    <3> QED BY <3>2, <3>3
  <2>3. CASE Up(i) # p
    <3>1. i # c
      BY <2>3
    <3>2. Least(g, Up(i)) = Least(h, Up(i))
      BY <1>3, <1>5, <2>1, <2>3
    <3>3. CASE i = p
      <4>1. Least(g, i) = Least(h, c)
        BY <1>2, <1>3, <3>3
      <4>2. Least(h, Up(p)) <= Least(h, c)
        BY <1>2, <1>5, <2>1, <3>3 DEF Sinks, Bridged, n
      <4> QED BY <3>2, <3>3, <4>1, <4>2 DEF Below
    <3>4. CASE i # p
      <4>1. Least(g, i) = Least(h, i)
        BY <1>3, <2>1, <3>1, <3>4
      <4>2. Least(h, Up(i)) <= Least(h, i)
        BY <1>5, <2>3 DEF Sinks, Below, n
      <4> QED BY <3>2, <4>1, <4>2 DEF Below
    <3> QED BY <3>3, <3>4
  <2> QED BY <2>2, <2>3
<1>6. ASSUME NEW i \in 2..n, Up(i) = c PROVE Least(g, Up(c)) <= Least(g, i)
  <2>1. Least(g, p) = Least(h, c)
    BY <1>2, <1>3
  <2>2. i # c /\ i # p /\ i \in 1..n
    BY <1>2, <1>6
  <2>3. Least(g, i) = Least(h, i)
    BY <1>3, <2>2
  <2>4. Least(h, c) <= Least(h, i)
    <3>1. Up(i) >= q /\ Up(i) # p
      BY <1>2, <1>6
    <3> QED BY <1>6, <3>1 DEF Sinks, Below, n
  <2> QED BY <2>1, <2>3, <2>4
<1> QED BY <1>3, <1>5, <1>6 DEF Sinks, Bridged, g

\* sift_down() orders a heap in which one position may be out of order with its
\* children.
LEMMA SiftDownOrders ==
  ASSUME NEW q \in Nat \ {0}
  PROVE  \A s \in Heap!Spot :
           Filled(s.heap) /\ s.at >= q /\ Sinks(s.heap, q, s.at) => OrderedFrom(Heap!SiftDown[s], q)
<1> DEFINE S == Heap!Spot
           Ready(s) == Filled(s.heap) /\ s.at >= q /\ Sinks(s.heap, q, s.at)
           size == [s \in S |-> IF s.at <= Len(s.heap) THEN Len(s.heap) - s.at ELSE 0]
           P == {s \in S : Ready(s) => OrderedFrom(Heap!SiftDown[s], q)}
<1>1. size \in [S -> Nat]
  BY LenProperties DEF Heap!Spot
<1>2. ASSUME NEW s \in S, \A u \in S : size[u] < size[s] => u \in P
      PROVE  s \in P
  <2> SUFFICES ASSUME Ready(s) PROVE OrderedFrom(Heap!SiftDown[s], q)
    OBVIOUS
  <2> DEFINE h == s.heap
             p == s.at
             c == Heap!Child(s)
             u == Heap!MovedTo(s, Heap!Child(s))
  <2>1. p \in Nat \ {0} /\ Filled(h) /\ Sinks(h, q, p) /\ Len(h) \in Nat /\ p >= q
    BY LeastFacts DEF Heap!Spot
  <2>2. CASE 2 * p > Len(h)
    <3>1. Heap!SiftDown[s] = h
      BY <2>2, SiftDownDefined
    <3>2. \A i \in 2..Len(h) : Up(i) # p
      <4> TAKE i \in 2..Len(h)
      <4>1. i \in Nat /\ i >= 2 /\ i <= Len(h)
        BY <2>1
      <4>2. i = 2 * Up(i) \/ i = 2 * Up(i) + 1
        BY <4>1, UpFacts
      <4> QED BY <2>1, <2>2, <4>1, <4>2
    <3> QED BY <2>1, <3>1, <3>2 DEF OrderedFrom, Sinks
  <2>3. CASE ~ (2 * p > Len(h))
    <3>1. /\ c \in 2..Len(h) /\ Up(c) = p /\ p < c
          /\ \A i \in 2..Len(h) : Up(i) = p => Least(h, c) <= Least(h, i)
      BY <2>1, <2>3, ChildIsLeast
    <3>2. p \in 1..Len(h) /\ c \in 1..Len(h)
      BY <2>1, <3>1
    <3>3. ChunkLeq(h[c], h[p]) <=> Least(h, p) <= Least(h, c)
      BY <2>1, <3>2, LeastFacts
    <3>4. CASE ChunkLeq(h[c], h[p])
      <4>1. Heap!SiftDown[s] = h
        BY <3>4, SiftDownDefined
      <4>2. ASSUME NEW i \in 2..Len(h), Up(i) = p PROVE Below(h, i)
        <5>1. Least(h, p) <= Least(h, c) /\ Least(h, c) <= Least(h, i)
          BY <3>1, <3>3, <3>4, <4>2
        <5>2. Least(h, p) \in Nat /\ Least(h, c) \in Nat /\ Least(h, i) \in Nat
          <6>1. i \in 1..Len(h)
            BY <2>1
          <6> QED BY <2>1, <3>2, <6>1, LeastFacts
        <5>3. Least(h, p) <= Least(h, i)
          BY <5>1, <5>2
        <5> QED BY <4>2, <5>3 DEF Below
      <4> QED BY <2>1, <4>1, <4>2 DEF OrderedFrom, Sinks
    <3>5. CASE ~ ChunkLeq(h[c], h[p])
      <4>1. Heap!SiftDown[s] = Heap!SiftDown[u]
        BY <2>3, <3>5, SiftDownDefined
      <4>2. u.heap = Heap!Swap(h, p, c) /\ u.at = c
        BY DEF Heap!MovedTo
      <4>3. Filled(u.heap)
        BY <2>1, <3>2, <4>2, SwapLeast
      <4>4. Sinks(u.heap, q, u.at)
        BY <2>1, <3>1, <3>2, <3>3, <3>5, <4>2, SinksStep
      <4>5. u \in S /\ size[u] < size[s]
        BY <2>3, ChildSize
      <4>6. u.at >= q
        BY <2>1, <3>1, <4>2
      <4>7. u \in P
        <5> HIDE DEF P, size, u
        <5> QED BY <1>2, <4>5
      <4> QED BY <4>1, <4>3, <4>4, <4>6, <4>7
    <3> QED BY <3>4, <3>5
  <2> QED BY <2>2, <2>3
<1>3. \A s \in S : s \in P
  <2> HIDE DEF P, size, S
  <2> QED BY <1>1, <1>2, InductionOnSize
<1> QED BY <1>3

\* A chunk sinks below its lesser child, whatever their heads.
LEMMA FallsStep ==
  ASSUME NEW h, Filled(h), NEW p \in 1..Len(h), Falls(h, p),
         NEW c \in 2..Len(h), Up(c) = p, p < c,
         \A i \in 2..Len(h) : Up(i) = p => Least(h, c) <= Least(h, i)
  PROVE  Falls(Heap!Swap(h, p, c), c)
<1> DEFINE g == Heap!Swap(h, p, c)
           n == Len(h)
<1>1. n \in Nat /\ \A i \in 1..n : Least(h, i) \in Nat
  BY LeastFacts
<1>2. c \in 1..n /\ p \in Nat /\ c \in Nat
      /\ \A i \in 2..n : i \in 1..n /\ Up(i) \in 1..n /\ Up(i) < i /\ Up(i) \in Nat /\ i \in Nat
  BY <1>1, UpFacts
<1>3. /\ Len(g) = n
      /\ \A k \in 1..n : Least(g, k) = IF k = c THEN Least(h, p)
                                       ELSE IF k = p THEN Least(h, c) ELSE Least(h, k)
  BY <1>2, SwapLeast
<1> HIDE DEF g, n
<1>5. ASSUME NEW i \in 2..n, i # c, Up(i) # c PROVE Below(g, i)
  <2>1. i \in 1..n /\ Up(i) \in 1..n /\ Up(i) < i /\ i \in Nat /\ Up(i) \in Nat
    BY <1>2
  <2>2. CASE Up(i) = p
    <3>1. Least(g, p) = Least(h, c)
      BY <1>2, <1>3
    <3>2. Least(g, i) = Least(h, i)
      <4>1. i # p
        BY <2>1, <2>2
      <4> QED BY <1>3, <1>5, <2>1, <4>1
    <3>3. Least(h, c) <= Least(h, i)
      BY <2>2 DEF n
    <3> QED BY <2>2, <3>1, <3>2, <3>3 DEF Below
  <2>3. CASE Up(i) # p
    <3>1. Least(g, Up(i)) = Least(h, Up(i))
      BY <1>3, <1>5, <2>1, <2>3
    <3>2. CASE i = p
      <4>1. Least(g, i) = Least(h, c)
        BY <1>2, <1>3, <3>2
      <4>2. Least(h, Up(p)) <= Least(h, c)
        BY <3>2 DEF Falls, Bridged, n
      <4> QED BY <3>1, <3>2, <4>1, <4>2 DEF Below
    <3>3. CASE i # p
      <4>1. Least(g, i) = Least(h, i)
        BY <1>3, <1>5, <2>1, <3>3
      <4>2. Least(h, Up(i)) <= Least(h, i)
        BY <2>3, <3>3 DEF Falls, Below, n
      <4> QED BY <3>1, <4>1, <4>2 DEF Below
    <3> QED BY <3>2, <3>3
  <2> QED BY <2>2, <2>3
<1>6. ASSUME NEW i \in 2..n, Up(i) = c PROVE Least(g, Up(c)) <= Least(g, i)
  <2>1. Least(g, p) = Least(h, c)
    BY <1>2, <1>3
  <2>2. i # c /\ i # p /\ i \in 1..n
    BY <1>2, <1>6
  <2>3. Least(g, i) = Least(h, i)
    BY <1>3, <2>2
  <2>4. Least(h, c) <= Least(h, i)
    <3>1. Up(i) # p
      BY <1>2, <1>6
    <3> QED BY <1>6, <2>2, <3>1 DEF Falls, Below, n
  <2> QED BY <2>1, <2>3, <2>4
<1> QED BY <1>3, <1>5, <1>6 DEF Falls, Bridged, g

\* sift_down_to_bottom() fills the hole that pop() makes.
LEMMA SiftDownToBottomOrders ==
  \A s \in Heap!Spot :
    Filled(s.heap) /\ s.at <= Len(s.heap) /\ Falls(s.heap, s.at) => InOrder(Heap!SiftDownToBottom[s])
<1> DEFINE S == Heap!Spot
           Ready(s) == Filled(s.heap) /\ s.at <= Len(s.heap) /\ Falls(s.heap, s.at)
           size == [s \in S |-> IF s.at <= Len(s.heap) THEN Len(s.heap) - s.at ELSE 0]
           P == {s \in S : Ready(s) => InOrder(Heap!SiftDownToBottom[s])}
<1>1. size \in [S -> Nat]
  BY LenProperties DEF Heap!Spot
<1>2. ASSUME NEW s \in S, \A u \in S : size[u] < size[s] => u \in P
      PROVE  s \in P
  <2> SUFFICES ASSUME Ready(s) PROVE InOrder(Heap!SiftDownToBottom[s])
    OBVIOUS
  <2> DEFINE h == s.heap
             p == s.at
             c == Heap!Child(s)
             u == Heap!MovedTo(s, Heap!Child(s))
  <2>1. p \in Nat \ {0} /\ Filled(h) /\ Falls(h, p) /\ Len(h) \in Nat /\ p \in 1..Len(h)
    BY LeastFacts DEF Heap!Spot
  <2>2. CASE 2 * p > Len(h)
    <3>1. Heap!SiftDownToBottom[s] = Heap!SiftUp[s]
      BY <2>2, SiftDownToBottomDefined
    <3>2. \A i \in 2..Len(h) : Up(i) # p
      <4> TAKE i \in 2..Len(h)
      <4>1. i \in Nat /\ i >= 2 /\ i <= Len(h)
        BY <2>1
      <4>2. i = 2 * Up(i) \/ i = 2 * Up(i) + 1
        BY <4>1, UpFacts
      <4> QED BY <2>1, <2>2, <4>1, <4>2
    <3>3. Rises(h, p)
      BY <2>1, <3>2 DEF Rises, Falls, Bridged
    <3> QED BY <2>1, <3>1, <3>3, SiftUpOrders
  <2>3. CASE ~ (2 * p > Len(h))
    <3>1. /\ c \in 2..Len(h) /\ Up(c) = p /\ p < c
          /\ \A i \in 2..Len(h) : Up(i) = p => Least(h, c) <= Least(h, i)
      BY <2>1, <2>3, ChildIsLeast
    <3>2. c \in 1..Len(h) /\ c <= Len(h)
      BY <2>1, <3>1
    <3>3. Heap!SiftDownToBottom[s] = Heap!SiftDownToBottom[u]
      BY <2>3, SiftDownToBottomDefined
    <3>4. u.heap = Heap!Swap(h, p, c) /\ u.at = c
      BY DEF Heap!MovedTo
    <3>5. Filled(u.heap) /\ Len(u.heap) = Len(h)
      BY <2>1, <3>2, <3>4, SwapLeast
    <3>6. Falls(u.heap, u.at)
      BY <2>1, <3>1, <3>4, FallsStep
    <3>7. u \in S /\ size[u] < size[s]
      BY <2>3, ChildSize
    <3>8. u.at <= Len(u.heap)
      BY <3>2, <3>4, <3>5
    <3>9. u \in P
      <4> HIDE DEF P, size, u
      <4> QED BY <1>2, <3>7
    <3> QED BY <3>3, <3>5, <3>6, <3>8, <3>9
  <2> QED BY <2>2, <2>3
<1>3. \A s \in S : s \in P
  <2> HIDE DEF P, size, S
  <2> QED BY <1>1, <1>2, InductionOnSize
<1> QED BY <1>3

\* rebuild() orders the heap from its end to the root.
LEMMA RebuildOrders ==
  \A s \in Heap!Spot :
    Filled(s.heap) /\ OrderedFrom(s.heap, s.at + 1) => OrderedFrom(Heap!Rebuild[s], 1)
<1> DEFINE S == Heap!Spot
           Ready(s) == Filled(s.heap) /\ OrderedFrom(s.heap, s.at + 1)
           size == [s \in S |-> s.at]
           P == {s \in S : Ready(s) => OrderedFrom(Heap!Rebuild[s], 1)}
<1>1. size \in [S -> Nat]
  BY LenProperties DEF Heap!Spot
<1>2. ASSUME NEW s \in S, \A u \in S : size[u] < size[s] => u \in P
      PROVE  s \in P
  <2> SUFFICES ASSUME Ready(s) PROVE OrderedFrom(Heap!Rebuild[s], 1)
    OBVIOUS
  <2> DEFINE h == s.heap
             p == s.at
             g == Heap!SiftDown[s]
             u == [heap |-> Heap!SiftDown[s], at |-> s.at - 1]
  <2>1. p \in Nat \ {0} /\ Filled(h) /\ OrderedFrom(h, p + 1) /\ Len(h) \in Nat
    BY LeastFacts DEF Heap!Spot
  <2>2. Sinks(h, p, p)
    <3>1. ~ (p >= 2 /\ Up(p) >= p)
      BY <2>1, UpFacts
    <3>2. \A i \in 2..Len(h) : Up(i) >= p /\ Up(i) # p => Below(h, i)
      <4> TAKE i \in 2..Len(h)
      <4>1. Up(i) \in Nat
        BY <2>1, UpFacts
      <4>2. Up(i) >= p /\ Up(i) # p => Up(i) >= p + 1
        BY <2>1, <4>1
      <4> QED BY <2>1, <4>2 DEF OrderedFrom
    <3> QED BY <3>1, <3>2 DEF Sinks
  <2>3. OrderedFrom(g, p)
    <3>1. p >= p
      BY <2>1
    <3> QED BY <2>1, <2>2, <3>1, SiftDownOrders
  <2>4. CASE p = 1
    <3>1. Heap!Rebuild[s] = g
      BY <2>4, RebuildDefined
    <3> QED BY <2>3, <2>4, <3>1
  <2>5. CASE p # 1
    <3>1. Heap!Rebuild[s] = Heap!Rebuild[u]
      BY <2>5, RebuildDefined
    <3>2. p - 1 \in Nat \ {0} /\ (p - 1) + 1 = p /\ p - 1 < p
      BY <2>1, <2>5
    <3>3. Filled(g) /\ g \in Seq(Seq(Line))
      BY <2>1, SiftDownAlike, FilledAlike DEF Filled, Heaps
    <3>4. u \in S /\ size[u] < size[s] /\ u.heap = g /\ u.at + 1 = p
      BY <3>2, <3>3 DEF Heap!Spot
    <3>5. Ready(u)
      BY <2>3, <3>3, <3>4
    <3>6. u \in P
      <4> HIDE DEF P, size, u
      <4> QED BY <1>2, <3>4
    <3> QED BY <3>1, <3>5, <3>6
  <2> QED BY <2>4, <2>5
<1>3. \A s \in S : s \in P
  <2> HIDE DEF P, size, S
  <2> QED BY <1>1, <1>2, InductionOnSize
<1> QED BY <1>3

\* Collecting chunks makes a heap of them.
LEMMA FromVecOrders ==
  ASSUME NEW v, Filled(v)
  PROVE  Filled(Heap!FromVec(v)) /\ InOrder(Heap!FromVec(v))
<1>1. Len(v) \in Nat /\ v \in Heaps
  BY LeastFacts DEF Filled
<1>2. Filled(Heap!FromVec(v))
  BY <1>1, FromVecFacts, FilledAlike
<1>3. CASE Len(v) < 2
  BY <1>1, <1>2, <1>3 DEF Heap!FromVec, InOrder
<1>4. CASE ~ (Len(v) < 2)
  <2> DEFINE s == [heap |-> v, at |-> Len(v) \div 2]
  <2>1. s \in Heap!Spot /\ s.heap = v /\ s.at = Len(v) \div 2
    BY <1>1, <1>4 DEF Heap!Spot, Heaps
  <2>2. Heap!FromVec(v) = Heap!Rebuild[s]
    BY <1>4 DEF Heap!FromVec
  <2>3. OrderedFrom(v, s.at + 1)
    <3>1. ASSUME NEW i \in 2..Len(v) PROVE ~ (Up(i) >= s.at + 1)
      BY <1>1, <2>1 DEF Up
    <3> QED BY <3>1 DEF OrderedFrom
  <2> HIDE DEF s
  <2>4. OrderedFrom(Heap!FromVec(v), 1)
    BY <2>1, <2>2, <2>3, RebuildOrders
  <2>5. \A i \in 2..Len(Heap!FromVec(v)) : Up(i) >= 1
    BY <1>2, LeastFacts, UpFacts
  <2> QED BY <1>2, <2>4, <2>5 DEF InOrder, OrderedFrom
<1> QED BY <1>3, <1>4

\* push() keeps the order.
LEMMA PushOrders ==
  ASSUME NEW h, Filled(h), InOrder(h), NEW c \in Seq(Line), c # <<>>
  PROVE  Filled(Heap!PushOnto(h, c)) /\ InOrder(Heap!PushOnto(h, c))
<1> DEFINE n == Len(h)
           g == Append(h, c)
           s == [heap |-> g, at |-> Len(h) + 1]
<1>1. n \in Nat /\ h \in Heaps
  BY LeastFacts DEF Filled
<1>2. g \in Heaps /\ Len(g) = n + 1 /\ \A i \in 1..n : g[i] = h[i]
  BY <1>1, AppendProperties DEF Heaps
<1>3. Filled(Heap!PushOnto(h, c))
  BY <1>1, PushFacts DEF Filled
<1>4. Filled(g)
  <2>1. g[n + 1] = c
    BY <1>1, AppendProperties DEF Heaps
  <2>2. \A i \in 1..(n + 1) : g[i] # <<>>
    <3> HIDE DEF g
    <3>1. \A i \in 1..n : g[i] # <<>>
      BY <1>2 DEF Filled, Elements
    <3> QED BY <1>1, <2>1, <3>1
  <2> QED BY <1>2, <2>2 DEF Filled, Elements
<1> HIDE DEF g
<1>5. Rises(g, n + 1)
  <2>1. ASSUME NEW i \in 2..(n + 1), i # n + 1 PROVE Below(g, i)
    <3>1. i \in 2..n /\ i \in 1..n /\ Up(i) \in 1..n
      BY <1>1, <2>1, UpFacts
    <3>2. g[i] = h[i] /\ g[Up(i)] = h[Up(i)]
      BY <1>2, <3>1
    <3> QED BY <3>1, <3>2 DEF InOrder, Below, Least
  <2>2. \A i \in 2..(n + 1) : Up(i) # n + 1
    <3> TAKE i \in 2..(n + 1)
    <3>1. i \in Nat /\ i >= 2 /\ i <= n + 1
      BY <1>1
    <3>2. Up(i) \in Nat /\ Up(i) < i
      BY <3>1, UpFacts
    <3> QED BY <1>1, <3>1, <3>2
  <2> QED BY <1>2, <2>1, <2>2 DEF Rises, Bridged
<1>6. s \in Heap!Spot /\ s.heap = g /\ s.at = n + 1
  BY <1>1, <1>2 DEF Heap!Spot, Heaps
<1>7. Heap!PushOnto(h, c) = Heap!SiftUp[s]
  BY DEF Heap!PushOnto, g
<1> HIDE DEF s
<1> QED BY <1>3, <1>4, <1>5, <1>6, <1>7, SiftUpOrders

\* The root has the least head.
LEMMA RootIsLeast ==
  ASSUME NEW h, Filled(h), InOrder(h)
  PROVE  \A i \in 1..Len(h) : Least(h, 1) <= Least(h, i)
<1> DEFINE n == Len(h)
           D == 1..n
           size == [i \in D |-> i]
           P == {i \in D : Least(h, 1) <= Least(h, i)}
<1>1. n \in Nat /\ \A i \in D : Least(h, i) \in Nat
  BY LeastFacts
<1>2. size \in [D -> Nat]
  BY <1>1
<1>3. ASSUME NEW i \in D, \A j \in D : size[j] < size[i] => j \in P
      PROVE  i \in P
  <2>1. CASE i = 1
    BY <1>1, <2>1
  <2>2. CASE i # 1
    <3>1. i \in 2..n /\ i \in Nat /\ i >= 2
      BY <1>1, <2>2
    <3>2. Up(i) \in D /\ Up(i) < i
      BY <1>1, <3>1, UpFacts
    <3>3. Least(h, Up(i)) <= Least(h, i)
      BY <3>1 DEF InOrder, Below
    <3>4. Up(i) \in P
      BY <1>3, <3>2
    <3>5. Least(h, 1) \in Nat /\ Least(h, i) \in Nat /\ Least(h, Up(i)) \in Nat
      <4>1. 1 \in D
        BY <1>1, <3>1
      <4> QED BY <1>1, <3>2, <4>1
    <3>6. Least(h, 1) <= Least(h, Up(i))
      BY <3>4
    <3> QED BY <3>3, <3>5, <3>6
  <2> QED BY <2>1, <2>2
<1>4. \A i \in D : i \in P
  <2> HIDE DEF P, size, D
  <2> QED BY <1>2, <1>3, InductionOnSize
<1> QED BY <1>4

\* pop() keeps the order, and takes a chunk with the least head.
LEMMA PopOrders ==
  ASSUME NEW h, Filled(h), InOrder(h), h # <<>>
  PROVE  /\ Filled(Heap!Popped(h)) /\ InOrder(Heap!Popped(h)) /\ Heap!Peek(h) # <<>>
         /\ \A c \in Elements(h) : Head(Heap!Peek(h)) <= Head(c)
<1> DEFINE n == Len(h)
           C == Seq(Line)
           front == SubSeq(h, 1, n - 1)
           g == [front EXCEPT ![1] = h[n]]
           s == [heap |-> g, at |-> 1]
           p == Heap!Popped(h)
<1>1. /\ h \in Seq(C) /\ h \in Heaps /\ n \in Nat \ {0} /\ h[1] \in C /\ h[n] \in C
      /\ \A i \in 1..n : h[i] # <<>>
  BY EmptySeq, ElementOfSeq, LenProperties DEF Filled, Heaps, Elements
<1>2. Heap!Peek(h) # <<>> /\ \A c \in Elements(h) : Head(Heap!Peek(h)) <= Head(c)
  BY <1>1, RootIsLeast DEF Heap!Peek, Least, Elements
<1>3. Filled(p)
  <2>1. p \in Heaps /\ Elements(h) = Elements(p) \cup {Heap!Peek(h)}
    BY <1>1, PopFacts
  <2> HIDE DEF p
  <2> QED BY <2>1 DEF Filled
<1>4. InOrder(p)
  <2>1. CASE n = 1
    <3>1. p = <<>> /\ Len(<<>>) = 0
      BY <2>1, EmptySeq DEF Heap!Popped
    <3>2. 2..0 = {}
      OBVIOUS
    <3> QED BY <3>1, <3>2 DEF InOrder
  <2>2. CASE n # 1
    <3>1. /\ front \in Seq(C) /\ Len(front) = n - 1 /\ \A i \in 1..(n - 1) : front[i] = h[i]
      BY <1>1, FrontOf
    <3>2. 1 \in 1..Len(front) /\ 1 \in 1..(n - 1)
      BY <1>1, <2>2, <3>1
    <3>3. p = Heap!SiftDownToBottom[s]
      BY <2>2 DEF Heap!Popped
    <3> HIDE DEF front, n
    <3>4. /\ g \in Seq(C) /\ Len(g) = n - 1
          /\ \A i \in 1..(n - 1) : g[i] = IF i = 1 THEN h[n] ELSE h[i]
      BY <1>1, <3>1, <3>2, ExceptSeq
    <3> HIDE DEF g, p
    <3>5. Filled(g)
      <4>1. \A i \in 1..(n - 1) : g[i] # <<>>
        <5>1. n \in 1..n /\ \A i \in 1..(n - 1) : i \in 1..n
          BY <1>1
        <5> QED BY <1>1, <3>4, <5>1 DEF n
      <4> QED BY <3>4, <4>1 DEF Filled, Elements, Heaps
    <3>6. Falls(g, 1)
      <4>1. ASSUME NEW i \in 2..(n - 1), i # 1, Up(i) # 1 PROVE Below(g, i)
        <5>1. i \in Nat /\ i >= 2
          BY <1>1
        <5>2. i \in 1..(n - 1) /\ Up(i) \in 1..(n - 1)
          BY <1>1, <5>1, UpFacts
        <5>3. g[i] = h[i] /\ g[Up(i)] = h[Up(i)]
          BY <3>4, <4>1, <5>2
        <5>4. Below(h, i)
          <6>1. i \in 2..n
            BY <1>1
          <6> QED BY <6>1 DEF InOrder, n
        <5> QED BY <5>3, <5>4 DEF Below, Least
      <4> QED BY <3>4, <4>1 DEF Falls
    <3>7. s \in Heap!Spot /\ s.heap = g /\ s.at = 1
      BY <3>4 DEF Heap!Spot
    <3>8. s.at <= Len(s.heap)
      BY <1>1, <2>2, <3>4, <3>7
    <3> HIDE DEF s
    <3> QED BY <3>3, <3>5, <3>6, <3>7, <3>8, SiftDownToBottomOrders
  <2> QED BY <2>1, <2>2
<1> QED BY <1>2, <1>3, <1>4

-----------------------------------------------------------------------------
(* The order of what a merge puts out.                                     *)

IsAscending(c) == IsSorted(c, <=)

\* A heap of ascending chunks, and an output that none of them has to precede.
Ready(s) ==
  /\ Filled(s.heap) /\ InOrder(s.heap) /\ \A c \in Elements(s.heap) : IsAscending(c)
  /\ IsAscending(s.out)
  /\ \A i \in 1..Len(s.out) : \A c \in Elements(s.heap) : s.out[i] <= Head(c)

\* The lines that leave the chunk need not wait for those in the rest of the heap.
LEMMA TakenBound ==
  ASSUME NEW heap, Filled(heap), InOrder(heap), heap # <<>>
  PROVE  \A j \in 1..Taken(heap) : \A c \in Elements(Left(heap)) : Heap!Peek(heap)[j] <= Head(c)
<1> DEFINE chunk == Heap!Peek(heap)
           left == Left(heap)
           k == Taken(heap)
           limit == Head(left[1])
<1>1. heap \in Heaps
  BY DEF Filled
<1>2. /\ chunk \in Seq(Line) /\ chunk # <<>> /\ Filled(left) /\ InOrder(left)
      /\ Elements(heap) = Elements(left) \cup {chunk} /\ k \in 0..Len(chunk)
      /\ \A c \in Elements(heap) : Head(chunk) <= Head(c)
  BY <1>1, PopFacts, PopOrders, RoundParts DEF Left
<1>3. Len(left) \in Nat /\ Len(chunk) \in Nat
  BY <1>2, LeastFacts, LenProperties
<1> SUFFICES ASSUME NEW j \in 1..k, NEW c \in Elements(left)
             PROVE  chunk[j] <= Head(c)
  OBVIOUS
<1>4. left # <<>> /\ 1 \in 1..Len(left)
  <2>1. PICK i \in 1..Len(left) : c = left[i]
    BY DEF Elements
  <2>2. 1 \in 1..Len(left)
    BY <1>3
  <2> QED BY <2>2, EmptySeq
<1>5. left[1] # <<>> /\ k = Drained(chunk, limit)
  <2>1. left[1] # <<>>
    BY <1>2, <1>4, LeastFacts
  <2> QED BY <1>4, <2>1 DEF Taken
<1>6. limit <= Head(c) /\ limit \in Nat /\ Head(c) \in Nat
  <2>1. PICK i \in 1..Len(left) : c = left[i]
    BY DEF Elements
  <2>2. Least(left, 1) <= Least(left, i)
    BY <1>2, RootIsLeast
  <2>3. Least(left, 1) \in Nat /\ Least(left, i) \in Nat
    BY <1>2, <1>4, LeastFacts
  <2> QED BY <2>1, <2>2, <2>3 DEF Least
<1>7. CASE j = 1
  <2>1. Head(chunk) = chunk[1] /\ Head(chunk) <= Head(c)
    BY <1>2
  <2> QED BY <1>7, <2>1
<1>8. CASE j # 1
  <2> HIDE DEF k, chunk, limit, left
  <2>1. j \in 2..k /\ j \in 1..Len(chunk)
    BY <1>2, <1>3, <1>8
  <2>2. ~ (chunk[j] > limit)
    BY <1>2, <1>5, <2>1, DrainedFacts
  <2>3. chunk[j] \in Nat
    BY <1>2, <2>1, ElementOfSeq, LineAssumption
  <2>4. chunk[j] <= limit
    BY <1>6, <2>2, <2>3
  <2> QED BY <1>6, <2>3, <2>4
<1> QED BY <1>7, <1>8

\* A round of the merge writes lines that no line left behind precedes.
LEMMA RoundOrders ==
  ASSUME NEW s \in MergeState, s.heap # <<>>, Ready(s)
  PROVE  Ready(MergeRound(s))
<1> DEFINE heap == s.heap
           chunk == Heap!Peek(heap)
           left == Left(heap)
           k == Taken(heap)
           given == Given(heap)
           kept == Kept(heap)
           next == IF k = Len(chunk) THEN left ELSE Heap!PushOnto(left, kept)
           out == s.out \o given
           m == Len(s.out)
<1>1. /\ heap \in Heaps /\ Filled(heap) /\ InOrder(heap) /\ s.out \in Seq(Line) /\ m \in Nat
      /\ \A c \in Elements(heap) : IsAscending(c)
      /\ IsAscending(s.out) /\ \A i \in 1..m : \A c \in Elements(heap) : s.out[i] <= Head(c)
  BY LenProperties DEF MergeState, Heaps, Ready
<1>2. MergeRound(s) = [out |-> out, heap |-> next] /\ heap # <<>>
  BY RoundFacts
<1> HIDE DEF heap
<1>3. /\ chunk \in Seq(Line) /\ chunk # <<>> /\ Filled(left) /\ InOrder(left)
      /\ Elements(heap) = Elements(left) \cup {chunk}
      /\ \A c \in Elements(heap) : Head(chunk) <= Head(c)
  BY <1>1, <1>2, PopFacts, PopOrders, RoundParts DEF Left
<1>4. /\ k \in 0..Len(chunk) /\ Len(chunk) \in Nat
      /\ given \in Seq(Line) /\ Len(given) = k /\ kept \in Seq(Line) /\ Len(kept) = Len(chunk) - k
  BY <1>1, <1>2, RoundParts, LenProperties
<1>5. /\ \A i \in 1..k : given[i] = chunk[i]
      /\ \A i \in 1..(Len(chunk) - k) : kept[i] = chunk[k + i]
  <2>1. given = SubSeq(chunk, 1, k) /\ kept = SubSeq(chunk, k + 1, Len(chunk))
    BY DEF Given, Kept
  <2> HIDE DEF given, kept, chunk, k
  <2>2. \A n \in 0..Len(chunk) :
          /\ \A i \in 1..n : SubSeq(chunk, 1, n)[i] = chunk[i]
          /\ \A i \in 1..(Len(chunk) - n) : SubSeq(chunk, n + 1, Len(chunk))[i] = chunk[n + i]
    BY <1>3, <1>4, SubSeqProperties
  <2> QED BY <1>4, <2>1, <2>2
<1>6. \A j \in 1..k : \A c \in Elements(left) : chunk[j] <= Head(c)
  BY <1>1, <1>2, TakenBound
<1>7. \A i, j \in 1..Len(chunk) : i < j => chunk[i] <= chunk[j]
  BY <1>1, <1>3 DEF IsAscending, IsSorted
<1>8. /\ \A i \in 1..Len(chunk) : chunk[i] \in Nat
      /\ \A i \in 1..m : s.out[i] \in Nat
  BY <1>1, <1>3, <1>4, ElementOfSeq, LineAssumption
<1>9. Len(chunk) >= 1 /\ chunk[1] = Head(chunk) /\ chunk[1] \in Nat
  BY <1>3, <1>4, <1>8, EmptySeq
<1>10. \A i \in 1..Len(chunk) : chunk[1] <= chunk[i]
  BY <1>4, <1>7, <1>8, <1>9
<1>11. \A i \in 1..m : s.out[i] <= chunk[1]
  BY <1>1, <1>3, <1>9
<1> HIDE DEF left, k, chunk, given, kept, m
<1>12. /\ Len(out) = m + k /\ m \in Nat /\ k \in Nat
       /\ \A i \in 1..(m + k) : out[i] = IF i <= m THEN s.out[i] ELSE chunk[i - m]
  <2>1. m = Len(s.out)
    BY DEF m
  <2>2. Len(out) = m + k /\ \A i \in 1..(m + k) : out[i] = IF i <= m THEN s.out[i] ELSE given[i - m]
    BY <1>1, <1>4, <2>1, ConcatProperties, ZenonT(30)
  <2>3. \A i \in 1..(m + k) : ~ (i <= m) => i - m \in 1..k
    BY <1>1, <1>4
  <2>4. \A i \in 1..(m + k) : ~ (i <= m) => given[i - m] = chunk[i - m]
    BY <1>5, <2>3
  <2>5. \A i \in 1..(m + k) : out[i] = IF i <= m THEN s.out[i] ELSE chunk[i - m]
    BY <2>2, <2>4
  <2>6. m \in Nat /\ k \in Nat
    BY <1>1, <1>4
  <2> HIDE DEF out
  <2> QED BY <2>2, <2>5, <2>6
<1> HIDE DEF out
<1>13. \A i \in 1..(m + k) : ~ (i <= m) => i - m \in 1..k /\ i - m \in 1..Len(chunk)
  BY <1>4, <1>12
<1>14. IsAscending(out)
  <2> SUFFICES ASSUME NEW i \in 1..(m + k), NEW j \in 1..(m + k), i < j
               PROVE  out[i] <= out[j]
    BY <1>12 DEF IsAscending, IsSorted
  <2>1. CASE j <= m
    <3>1. i \in 1..m /\ j \in 1..m
      BY <1>12, <2>1
    <3>2. s.out[i] <= s.out[j]
      BY <1>1, <3>1 DEF IsAscending, IsSorted, m
    <3> QED BY <1>12, <3>1, <3>2
  <2>2. CASE ~ (j <= m) /\ i <= m
    <3>1. i \in 1..m /\ j - m \in 1..Len(chunk)
      BY <1>12, <1>13, <2>2
    <3>2. s.out[i] <= chunk[1] /\ chunk[1] <= chunk[j - m]
      BY <1>10, <1>11, <3>1
    <3>3. s.out[i] \in Nat /\ chunk[j - m] \in Nat
      BY <1>8, <3>1
    <3>4. s.out[i] <= chunk[j - m]
      BY <1>9, <3>2, <3>3
    <3> QED BY <1>12, <2>2, <3>4
  <2>3. CASE ~ (j <= m) /\ ~ (i <= m)
    <3>1. i - m \in 1..Len(chunk) /\ j - m \in 1..Len(chunk) /\ i - m < j - m
      BY <1>12, <1>13, <2>3
    <3>2. chunk[i - m] <= chunk[j - m]
      BY <1>7, <3>1
    <3> QED BY <1>12, <2>3, <3>2
  <2> QED BY <2>1, <2>2, <2>3
<1>15. /\ Filled(next) /\ InOrder(next)
       /\ \A c \in Elements(next) : c \in Elements(left) \/ (k < Len(chunk) /\ c = kept)
  <2>1. CASE k = Len(chunk)
    BY <1>3, <2>1
  <2>2. CASE k # Len(chunk)
    <3>1. k < Len(chunk) /\ kept # <<>>
      BY <1>4, <2>2, EmptySeq
    <3>2. next = Heap!PushOnto(left, kept)
      BY <2>2
    <3> HIDE DEF next
    <3>3. Filled(next) /\ InOrder(next)
      BY <1>3, <1>4, <3>1, <3>2, PushOrders
    <3>4. left \in Heaps
      BY <1>3 DEF Filled
    <3>5. Elements(next) = Elements(left) \cup {kept}
      BY <1>4, <3>2, <3>4, PushFacts
    <3> QED BY <3>1, <3>3, <3>5
  <2> QED BY <2>1, <2>2
<1>16. k < Len(chunk) => /\ IsAscending(kept) /\ Head(kept) = chunk[k + 1]
                         /\ k + 1 \in 1..Len(chunk)
  <2> SUFFICES ASSUME k < Len(chunk)
               PROVE  /\ IsAscending(kept) /\ Head(kept) = chunk[k + 1]
                      /\ k + 1 \in 1..Len(chunk)
    OBVIOUS
  <2>1. k + 1 \in 1..Len(chunk) /\ 1 \in 1..(Len(chunk) - k)
    BY <1>4
  <2>2. Head(kept) = chunk[k + 1]
    BY <1>4, <1>5, <2>1, EmptySeq
  <2>3. ASSUME NEW i \in 1..(Len(chunk) - k), NEW j \in 1..(Len(chunk) - k), i < j
        PROVE  kept[i] <= kept[j]
    <3>1. k + i \in 1..Len(chunk) /\ k + j \in 1..Len(chunk) /\ k + i < k + j
      BY <1>4, <2>3
    <3>2. chunk[k + i] <= chunk[k + j]
      BY <1>7, <3>1
    <3> QED BY <1>5, <3>2
  <2> QED BY <1>4, <2>1, <2>2, <2>3 DEF IsAscending, IsSorted
<1>17. \A c \in Elements(next) : IsAscending(c)
  BY <1>1, <1>3, <1>15, <1>16
<1>18. ASSUME NEW i \in 1..(m + k), NEW c \in Elements(next) PROVE out[i] <= Head(c)
  <2>1. CASE c \in Elements(left)
    <3>1. CASE i <= m
      <4>1. i \in 1..m
        BY <1>12, <3>1
      <4> QED BY <1>1, <1>3, <1>12, <2>1, <3>1, <4>1
    <3>2. CASE ~ (i <= m)
      BY <1>6, <1>12, <1>13, <2>1, <3>2
    <3> QED BY <3>1, <3>2
  <2>2. CASE k < Len(chunk) /\ c = kept
    <3>1. Head(c) = chunk[k + 1] /\ k + 1 \in 1..Len(chunk) /\ chunk[k + 1] \in Nat
      BY <1>8, <1>16, <2>2
    <3>2. CASE i <= m
      <4>1. i \in 1..m
        BY <1>12, <3>2
      <4>2. s.out[i] <= chunk[1] /\ chunk[1] <= chunk[k + 1] /\ s.out[i] \in Nat
        BY <1>8, <1>10, <1>11, <3>1, <4>1
      <4>3. s.out[i] <= chunk[k + 1]
        BY <1>9, <3>1, <4>2
      <4> QED BY <1>12, <3>1, <3>2, <4>3
    <3>3. CASE ~ (i <= m)
      <4>1. i - m \in 1..Len(chunk) /\ i - m < k + 1
        BY <1>12, <1>13, <3>3
      <4>2. chunk[i - m] <= chunk[k + 1]
        BY <1>7, <3>1, <4>1
      <4> QED BY <1>12, <3>1, <3>3, <4>2
    <3> QED BY <3>2, <3>3
  <2> QED BY <1>15, <2>1, <2>2
<1> HIDE DEF next
<1> QED BY <1>2, <1>12, <1>14, <1>15, <1>17, <1>18 DEF Ready

\* What sort() merges, and makes: chunks that are not empty and ascend.
Sound(c) == c \in Seq(Line) /\ c # <<>> /\ IsAscending(c)

\* Merging chunks that ascend makes one that ascends.
LEMMA MergeAllAscends ==
  ASSUME NEW parts \in Heaps, \A c \in Elements(parts) : Sound(c)
  PROVE  IsAscending(MergeAll(parts)) /\ (parts # <<>> => Sound(MergeAll(parts)))
<1> DEFINE S == MergeState
           size == [s \in S |-> Weight(s.heap, Line) + Len(s.heap)]
           P == {s \in S : Ready(s) => IsAscending(Merged[s])}
           start == [heap |-> Heap!FromVec(parts), out |-> <<>>]
<1>1. size \in [S -> Nat]
  <2>1. ASSUME NEW s \in S PROVE Weight(s.heap, Line) + Len(s.heap) \in Nat
    <3>1. Weight(s.heap, Line) \in Nat /\ Len(s.heap) \in Nat
      BY WeightType, LenProperties DEF MergeState, Heaps
    <3> QED BY <3>1
  <2> QED BY <2>1
<1>2. ASSUME NEW s \in S, \A u \in S : size[u] < size[s] => u \in P
      PROVE  s \in P
  <2>1. CASE s.heap = <<>>
    <3>1. Merged[s] = s.out
      BY <2>1, MergedDefined
    <3> QED BY <3>1 DEF Ready
  <2>2. CASE s.heap # <<>>
    <3>1. /\ MergeRound(s) \in S /\ size[MergeRound(s)] < size[s]
          /\ Ready(s) => Ready(MergeRound(s))
      BY <2>2, RoundFacts, RoundOrders
    <3>2. MergeRound(s) \in P /\ Merged[s] = Merged[MergeRound(s)]
      BY <1>2, <2>2, <3>1, MergedDefined
    <3> QED BY <3>1, <3>2
  <2> QED BY <2>1, <2>2
<1>3. \A s \in S : s \in P
  <2> HIDE DEF P, size, S
  <2> QED BY <1>1, <1>2, InductionOnSize
<1>4. Alike(Heap!FromVec(parts), parts) /\ Filled(parts)
  BY FromVecFacts DEF Filled, Sound
<1>5. Filled(Heap!FromVec(parts)) /\ InOrder(Heap!FromVec(parts))
  BY <1>4, FromVecOrders
<1>6. start \in S /\ <<>> \in Seq(Line) /\ Len(<<>>) = 0
  BY <1>4, EmptySeq DEF MergeState, Heaps, Alike
<1>7. Ready(start)
  <2>1. \A c \in Elements(start.heap) : IsAscending(c)
    BY <1>4 DEF Alike, Sound
  <2>2. start.out = <<>> /\ 1..0 = {}
    OBVIOUS
  <2>3. IsAscending(start.out)
    BY <1>6, <2>2 DEF IsAscending, IsSorted
  <2> QED BY <1>5, <1>6, <2>1, <2>2, <2>3 DEF Ready
<1>8. MergeAll(parts) = Merged[start]
  BY DEF MergeAll
<1>9. IsAscending(MergeAll(parts)) /\ MergeAll(parts) \in Seq(Line)
  BY <1>3, <1>6, <1>7, <1>8, MergedDefined
<1>10. ASSUME parts # <<>> PROVE MergeAll(parts) # <<>>
  <2> DEFINE c == parts[1]
             others == SubSeq(parts, 2, Len(parts))
  <2>1. /\ Len(parts) \in Nat /\ 1 \in 1..Len(parts) /\ 0 \in 0..Len(parts) /\ 1 \in 0..Len(parts)
    BY <1>10, LenProperties, EmptySeq DEF Heaps
  <2>2. c \in Seq(Line) /\ c # <<>>
    BY <2>1 DEF Elements, Sound
  <2>3. Count(c, Line) = Len(c) /\ Len(c) \in Nat /\ Len(c) # 0
    BY <2>2, CountAll, LenProperties, EmptySeq
  <2>4. \A T : Weight(parts, T) = Weight(Heap!Popped(parts), T) + Count(c, T)
    BY <1>10, PopFacts DEF Heap!Peek
  <2>5. Weight(Heap!Popped(parts), Line) \in Nat
    BY <1>10, PopFacts, WeightType DEF Heaps
  <2>6. Count(MergeAll(parts), Line) = Weight(parts, Line)
    BY MergeAllFacts
  <2>7. Count(MergeAll(parts), Line) # 0
    <3>1. Weight(parts, Line) = Weight(Heap!Popped(parts), Line) + Count(c, Line)
      BY <2>4
    <3> QED BY <2>3, <2>5, <2>6, <3>1
  <2> QED BY <2>7, CountEmpty
<1> QED BY <1>9, <1>10 DEF Sound

\* The merge jobs get chunks, and at least one each.
LEMMA DealtGroups ==
  \A cs \in Heaps :
    \A i \in 1..Len(Dealt[cs]) :
      Dealt[cs][i] # <<>> /\ Elements(Dealt[cs][i]) \subseteq Elements(cs)
<1> DEFINE S == Heaps
           size == [cs \in S |-> Len(cs)]
           Fine(cs) == \A i \in 1..Len(Dealt[cs]) :
                         Dealt[cs][i] # <<>> /\ Elements(Dealt[cs][i]) \subseteq Elements(cs)
           P == {cs \in S : Fine(cs)}
<1>1. size \in [S -> Nat] /\ NWayMerge \in Nat \ {0}
  BY LenProperties, NWayMergeAssumption DEF Heaps
<1>2. ASSUME NEW cs \in S, \A u \in S : size[u] < size[cs] => u \in P
      PROVE  cs \in P
  <2>1. CASE cs = <<>>
    <3>1. Dealt[cs] = <<>>
      BY <2>1, DealtDefined
    <3>2. Len(<<>>) = 0 /\ 1..0 = {}
      OBVIOUS
    <3> QED BY <2>1, <3>1, <3>2
  <2>2. CASE cs # <<>> /\ Len(cs) <= NWayMerge
    <3>1. Dealt[cs] = <<cs>>
      BY <2>2, DealtDefined
    <3>2. Len(<<cs>>) = 1 /\ <<cs>>[1] = cs /\ 1..1 = {1}
      OBVIOUS
    <3> QED BY <2>2, <3>1, <3>2
  <2>3. CASE cs # <<>> /\ ~ (Len(cs) <= NWayMerge)
    <3> DEFINE first == SubSeq(cs, 1, NWayMerge)
               others == SubSeq(cs, NWayMerge + 1, Len(cs))
               d == Dealt[others]
    <3>1. cs \in Seq(Seq(Line)) /\ NWayMerge \in 0..Len(cs) /\ Len(cs) \in Nat /\ NWayMerge \in Nat
      BY <1>1, <2>3, LenProperties DEF Heaps
    <3>2. /\ first \in Seq(Seq(Line)) /\ others \in Seq(Seq(Line))
          /\ Len(others) = Len(cs) - NWayMerge /\ Len(first) = NWayMerge
      BY <3>1, CutInTwo
    <3>3. /\ \A i \in 1..NWayMerge : first[i] = cs[i]
          /\ \A i \in 1..(Len(cs) - NWayMerge) : others[i] = cs[NWayMerge + i]
      <4>1. \A n \in 0..Len(cs) :
              /\ \A i \in 1..n : SubSeq(cs, 1, n)[i] = cs[i]
              /\ \A i \in 1..(Len(cs) - n) : SubSeq(cs, n + 1, Len(cs))[i] = cs[n + i]
        BY <3>1, SubSeqProperties
      <4> QED BY <3>1, <4>1
    <3>4. Dealt[cs] = <<first>> \o d
      BY <2>3, DealtDefined
    <3> HIDE DEF first, others
    <3>5. others \in S /\ size[others] < size[cs]
      <4>1. others \in S
        BY <3>2 DEF Heaps
      <4>2. Len(others) < Len(cs)
        BY <1>1, <3>1, <3>2
      <4> QED BY <4>1, <4>2
    <3>6. Fine(others)
      BY <1>2, <3>5
    <3>7. d \in Seq(Seq(Seq(Line))) /\ <<first>> \in Seq(Seq(Seq(Line))) /\ Len(<<first>>) = 1
          /\ <<first>>[1] = first
      BY <3>2, <3>5, DealtDefined DEF Heaps
    <3> HIDE DEF d
    <3>8. Elements(first) \subseteq Elements(cs) /\ Elements(others) \subseteq Elements(cs)
      <4>1. \A i \in 1..NWayMerge : i \in 1..Len(cs)
        BY <3>1
      <4>2. \A i \in 1..(Len(cs) - NWayMerge) : NWayMerge + i \in 1..Len(cs)
        BY <3>1
      <4>3. ASSUME NEW c \in Elements(first) PROVE c \in Elements(cs)
        <5>1. PICK i \in 1..NWayMerge : c = first[i]
          BY <3>2 DEF Elements
        <5> QED BY <3>3, <4>1, <5>1 DEF Elements
      <4>4. ASSUME NEW c \in Elements(others) PROVE c \in Elements(cs)
        <5>1. PICK i \in 1..(Len(cs) - NWayMerge) : c = others[i]
          BY <3>2 DEF Elements
        <5> QED BY <3>3, <4>2, <5>1 DEF Elements
      <4> QED BY <4>3, <4>4
    <3>9. first # <<>>
      BY <1>1, <3>2, EmptySeq
    <3>10. /\ Len(Dealt[cs]) = Len(d) + 1 /\ Len(d) \in Nat /\ Dealt[cs][1] = first
           /\ \A i \in 2..(Len(d) + 1) : Dealt[cs][i] = d[i - 1] /\ i - 1 \in 1..Len(d)
      <4>1. Len(<<first>> \o d) = 1 + Len(d) /\ Len(d) \in Nat
        BY <3>7, ConcatProperties, LenProperties
      <4>2. \A i \in 1..(1 + Len(d)) : (<<first>> \o d)[i] = IF i <= 1 THEN <<first>>[i] ELSE d[i - 1]
        BY <3>7, ConcatProperties
      <4>3. \A i \in 2..(Len(d) + 1) : i - 1 \in 1..Len(d) /\ i \in 1..(1 + Len(d)) /\ ~ (i <= 1)
        BY <4>1
      <4>4. 1 \in 1..(1 + Len(d)) /\ 1 <= 1
        BY <4>1
      <4>5. (<<first>> \o d)[1] = first
        BY <3>7, <4>2, <4>4
      <4> QED BY <3>4, <4>1, <4>2, <4>3, <4>5
    <3>11. ASSUME NEW i \in 1..Len(Dealt[cs])
           PROVE  Dealt[cs][i] # <<>> /\ Elements(Dealt[cs][i]) \subseteq Elements(cs)
      <4>1. CASE i = 1
        BY <3>8, <3>9, <3>10, <4>1
      <4>2. CASE i # 1
        <5>1. i \in 2..(Len(d) + 1)
          BY <3>10, <4>2
        <5>2. Dealt[cs][i] = d[i - 1] /\ i - 1 \in 1..Len(d)
          BY <3>10, <5>1
        <5> QED BY <3>6, <3>8, <5>2 DEF d
      <4> QED BY <4>1, <4>2
    <3> QED BY <3>11
  <2> QED BY <2>1, <2>2, <2>3
<1>3. \A cs \in S : cs \in P
  <2> HIDE DEF P, size, S
  <2> QED BY <1>1, <1>2, InductionOnSize
<1> QED BY <1>3

\* Choosing among chunks makes no new ones.
LEMMA ThoseAreChunks ==
  ASSUME NEW cs \in Seq(Chunk), NEW done \in BOOLEAN
  PROVE  \A i \in 1..Len(Those(cs, done)) : \E j \in 1..Len(cs) : Those(cs, done)[i] = cs[j]
<1> DEFINE G == {cs[j] : j \in 1..Len(cs)}
           Pick(c) == IF IsDone(c) = done THEN <<c>> ELSE <<>>
           picks == [i \in 1..Len(cs) |-> Pick(cs[i])]
<1>1. Len(cs) \in Nat
  BY LenProperties
<1>2. \A i \in 1..Len(cs) : Pick(cs[i]) \in Seq(G)
  <2> TAKE i \in 1..Len(cs)
  <2>1. cs[i] \in G
    OBVIOUS
  <2> HIDE DEF G
  <2>2. <<cs[i]>> \in Seq(G) /\ <<>> \in Seq(G)
    BY <2>1, EmptySeq
  <2> QED BY <2>2
<1> HIDE DEF G, Pick
<1>3. picks \in Seq(Seq(G))
  BY <1>1, <1>2
<1>4. Those(cs, done) = FlattenSeq(picks)
  BY DEF Those, Pick
<1>5. Those(cs, done) \in Seq(G)
  BY <1>3, <1>4, FlattenType
<1>6. \A i \in 1..Len(Those(cs, done)) : Those(cs, done)[i] \in G
  BY <1>5, ElementOfSeq
<1> QED BY <1>6 DEF G

-----------------------------------------------------------------------------
(* The order: as long as no chunk was empty, every chunk, and every part of a *)
(* merge job, has lines, and they ascend.                                  *)

SoundJob(job) ==
  /\ job.parts # <<>>
  /\ job.kind = "sort" => job.parts[1] # <<>>
  /\ job.kind # "sort" => \A c \in Elements(job.parts) : Sound(c)

SoundJobs ==
  /\ \A i \in 1..Len(pending) : SoundJob(pending[i])
  /\ \A i \in 1..Len(queue) : SoundJob(queue[i])
  /\ \A w \in Workers : running[w] # NoJob => SoundJob(running[w])
SoundChunks == \A i \in 1..Len(chunks) : Sound(chunks[i].lines)

OrderInv == ~emptyChunk /\ ~lost => SoundJobs /\ SoundChunks /\ IsAscending(output)

\* What a job makes of sound parts is a sound chunk.
LEMMA ResultIsSound ==
  ASSUME NEW job \in Job, GoodJob(job), SoundJob(job)
  PROVE  Sound(Result(job).lines)
<1>1. job.parts \in Heaps
  BY DEF Job, Heaps
<1>2. CASE job.kind = "sort"
  <2>0. Len(job.parts) = 1
    BY <1>2 DEF GoodJob
  <2>1. 1 \in 1..Len(job.parts)
    BY <2>0
  <2>2. job.parts[1] \in Seq(Line) /\ job.parts[1] # <<>>
    BY <1>1, <1>2, <2>1, ElementOfSeq DEF Heaps, SoundJob
  <2>3. /\ Sorted(job.parts[1]) \in Seq(Line) /\ Len(Sorted(job.parts[1])) = Len(job.parts[1])
        /\ IsAscending(Sorted(job.parts[1]))
    BY <2>2, SortedFacts DEF IsAscending
  <2>4. Sorted(job.parts[1]) # <<>>
    BY <2>2, <2>3, EmptySeq
  <2>5. Result(job).lines = Sorted(job.parts[1])
    BY <1>2 DEF Result
  <2> QED BY <2>3, <2>4, <2>5 DEF Sound
<1>3. CASE job.kind # "sort"
  <2>1. Result(job).lines = MergeAll(job.parts)
    BY <1>3 DEF Result
  <2> QED BY <1>1, <1>3, <2>1, MergeAllAscends DEF SoundJob
<1> QED BY <1>2, <1>3

\* The lines of sound chunks.
LEMMA SoundLines ==
  ASSUME NEW cs \in Seq(Chunk), \A i \in 1..Len(cs) : Sound(cs[i].lines)
  PROVE  LinesOfEach(cs) \in Heaps /\ \A c \in Elements(LinesOfEach(cs)) : Sound(c)
<1>1. LinesOfEach(cs) \in Heaps
  <2>1. [lines |-> <<>>, merged |-> TRUE, flushed |-> TRUE] \in Chunk
    BY EmptySeq DEF Chunk
  <2> QED BY <2>1, LinesOfEachFacts
<1>2. Len(cs) \in Nat /\ LinesOfEach(cs) = [i \in 1..Len(cs) |-> cs[i].lines]
  BY LenProperties DEF LinesOfEach, Lines
<1>3. Len(LinesOfEach(cs)) = Len(cs) /\ \A i \in 1..Len(cs) : LinesOfEach(cs)[i] = cs[i].lines
  BY <1>2
<1> QED BY <1>1, <1>3 DEF Elements

\* At first there are no chunks.
LEMMA OrderInit ==
  ASSUME Init
  PROVE  OrderInv
<1>1. Len(<<>>) = 0 /\ 1..0 = {}
  OBVIOUS
<1>2. IsAscending(<<>>)
  BY <1>1 DEF IsAscending, IsSorted
<1>3. \A w \in Workers : running[w] = NoJob
  BY DEF Init, New
<1> QED BY <1>1, <1>2, <1>3 DEF Init, New, OrderInv, SoundJobs, SoundChunks

\* The steps of the main thread.
LEMMA MainKeepsOrder ==
  ASSUME ControlInv, OrderInv, Main
  PROVE  OrderInv'
<1> SUFFICES ASSUME ~ emptyChunk', ~ lost'
             PROVE  (SoundJobs /\ SoundChunks /\ IsAscending(output))'
  BY DEF OrderInv
<1>0. ~ emptyChunk /\ ~ lost /\ SoundJobs /\ SoundChunks /\ IsAscending(output)
  <2>1. /\ emptyChunk' = emptyChunk \/ Collect
        /\ lost' = lost \/ lost' = TRUE
    BY DEF Main, Collect, SubmitSort, Request, Announce, SubmitMerge, SubmitPanics, MessagePanics,
           Finish, Join, PrintAll, PrintLosesTail, PrintPanics, Exit, history
  <2>2. Collect => emptyChunk' = (emptyChunk \/ emptyChunk')
    BY DEF Collect, ControlInv, TypeOK
  <2>3. ~ emptyChunk
    BY <2>1, <2>2 DEF Collect
  <2>4. ~ lost
    BY <2>1
  <2> QED BY <2>3, <2>4 DEF OrderInv
<1> USE DEF pool, setting, locals, history
<1>1. CASE Collect
  <2> DEFINE full(k) == k >= payload.batch_size \/ BytesAfter(k) >= payload.buffer_size
             count == Min({k \in 0..Len(rest) : full(k) \/ k = Len(rest)})
             stops == {k \in 0..Len(rest) : full(k) \/ k = Len(rest)}
             batch == SubSeq(rest, 1, count)
  <2>1. /\ pending' = <<[kind |-> "sort", parts |-> <<batch>>]>>
        /\ emptyChunk' = (emptyChunk \/ count = 0)
        /\ UNCHANGED <<pool, setting, batches, chunks, joined, output, lost>>
    BY <1>1 DEF Collect
  <2>2. rest \in Seq(Line) /\ Len(rest) \in Nat
    BY LenProperties DEF ControlInv, TypeOK
  <2>3. count \in 0..Len(rest)
    <3>1. stops \subseteq Nat /\ stops # {}
      <4> HIDE DEF full
      <4> QED BY <2>2
    <3>2. Min(stops) \in stops
      <4> HIDE DEF stops
      <4> QED BY <3>1, MinIsLeast
    <3> HIDE DEF full
    <3> QED BY <3>2
  <2> HIDE DEF count
  <2>4. batch \in Seq(Line) /\ Len(batch) = count
    BY <2>2, <2>3, CutInTwo
  <2>5. count # 0
    BY <2>1
  <2>6. batch # <<>>
    BY <2>4, <2>5, EmptySeq
  <2> HIDE DEF batch
  <2> DEFINE job == [kind |-> "sort", parts |-> <<batch>>]
  <2>7. SoundJob(job)
    <3>1. <<batch>> # <<>> /\ <<batch>>[1] = batch
      OBVIOUS
    <3> QED BY <2>6, <3>1 DEF SoundJob
  <2> HIDE DEF job
  <2>8. \A i \in 1..Len(pending') : SoundJob(pending'[i])
    <3>1. pending' = <<job>> /\ Len(<<job>>) = 1 /\ <<job>>[1] = job /\ 1..1 = {1}
      BY <2>1 DEF job
    <3> QED BY <2>7, <3>1
  <2> QED BY <1>0, <2>1, <2>8 DEF SoundJobs, SoundChunks
<1>2. ASSUME SubmitSort \/ SubmitMerge PROVE (SoundJobs /\ SoundChunks /\ IsAscending(output))'
  <2>1. /\ Send(Head(pending)) /\ pending' \in {<<>>, Tail(pending)}
        /\ UNCHANGED <<chunks, output>> /\ main \in {"sort", "merges"}
    BY <1>2 DEF SubmitSort, SubmitMerge
  <2>2. pending # <<>> /\ pending \in Seq(Job) /\ queue \in Seq(Job)
    <3>1. main = "sort" => Len(pending) = 1
      BY DEF ControlInv, MainInv
    <3> QED BY <2>1, <3>1 DEF ControlInv, MainInv, TypeOK, PoolTypeOK
  <2>3. /\ Head(pending) \in Job /\ Head(pending) = pending[1] /\ Len(pending) \in Nat \ {0}
        /\ Len(Tail(pending)) = Len(pending) - 1
        /\ \A i \in 1..Len(Tail(pending)) : Tail(pending)[i] = pending[i + 1]
    <3>1. Len(pending) \in Nat \ {0}
      BY <2>2, EmptySeq, LenProperties
    <3> QED BY <2>2, <3>1, HeadTailProperties
  <2>4. SoundJob(Head(pending)) /\ \A i \in 1..Len(Tail(pending)) : SoundJob(Tail(pending)[i])
    <3>1. 1 \in 1..Len(pending) /\ \A i \in 1..Len(Tail(pending)) : i + 1 \in 1..Len(pending)
      BY <2>3
    <3> QED BY <1>0, <2>3, <3>1 DEF SoundJobs
  <2>5. queue' = Append(queue, Head(pending)) /\ UNCHANGED running
    BY <2>1 DEF Send
  <2>6. \A i \in 1..Len(queue') : SoundJob(queue'[i])
    <3>1. /\ Len(queue') = Len(queue) + 1 /\ Len(queue) \in Nat
          /\ queue'[Len(queue) + 1] = Head(pending) /\ \A i \in 1..Len(queue) : queue'[i] = queue[i]
      BY <2>2, <2>3, <2>5, AppendProperties, LenProperties
    <3>2. \A i \in 1..(Len(queue) + 1) : i \in 1..Len(queue) \/ i = Len(queue) + 1
      BY <3>1
    <3> QED BY <1>0, <2>4, <3>1, <3>2 DEF SoundJobs
  <2>7. \A i \in 1..Len(pending') : SoundJob(pending'[i])
    <3>1. Len(<<>>) = 0 /\ 1..0 = {}
      OBVIOUS
    <3> QED BY <2>1, <2>4, <3>1
  <2> QED BY <1>0, <2>1, <2>5, <2>6, <2>7 DEF SoundJobs, SoundChunks
<1>3. CASE Request
  <2> DEFINE kind == IF bytes > payload.buffer_size THEN "merge_flush" ELSE "merge"
             new == Those(chunks, FALSE)
             cs == LinesOfEach(new)
             group == Dealt[cs]
  <2>1. /\ chunks' = Those(chunks, TRUE) /\ pending' = MergeJobs(kind, group)
        /\ UNCHANGED <<queue, running, output>>
    BY <1>3 DEF Request, MergeJobs
  <2>2. chunks \in Seq(Chunk) /\ new \in Seq(Chunk) /\ kind # "sort"
    BY ThoseFacts DEF ControlInv, TypeOK
  <2>3. \A done \in BOOLEAN : \A i \in 1..Len(Those(chunks, done)) :
          Sound(Those(chunks, done)[i].lines)
    BY <1>0, <2>2, ThoseAreChunks DEF SoundChunks
  <2>4. \A i \in 1..Len(new) : Sound(new[i].lines)
    BY <2>3
  <2> HIDE DEF new, kind
  <2>5. cs \in Heaps /\ \A c \in Elements(cs) : Sound(c)
    BY <2>2, <2>4, SoundLines
  <2> HIDE DEF cs
  <2>6. \A i \in 1..Len(group) : group[i] # <<>> /\ \A c \in Elements(group[i]) : Sound(c)
    BY <2>5, DealtGroups
  <2>7. Len(group) \in Nat
    BY <2>5, DealtFacts, LenProperties
  <2> HIDE DEF group
  <2>8. \A i \in 1..Len(pending') : SoundJob(pending'[i])
    <3>1. Len(pending') = Len(group)
          /\ \A i \in 1..Len(group) : pending'[i] = [kind |-> kind, parts |-> group[i]]
      BY <2>1, <2>7 DEF MergeJobs
    <3>2. ASSUME NEW i \in 1..Len(group) PROVE SoundJob([kind |-> kind, parts |-> group[i]])
      BY <2>2, <2>6 DEF SoundJob
    <3> QED BY <3>1, <3>2
  <2>9. SoundChunks'
    BY <2>1, <2>3 DEF SoundChunks
  <2> QED BY <1>0, <2>1, <2>8, <2>9 DEF SoundJobs
<1>4. CASE SubmitPanics \/ MessagePanics \/ Finish
  BY <1>0, <1>4 DEF SubmitPanics, MessagePanics, Finish, DropSender, SoundJobs, SoundChunks
<1>5. CASE Announce \/ Join \/ Exit
  BY <1>0, <1>5 DEF Announce, Join, Exit, SoundJobs, SoundChunks
<1>6. ASSUME PrintAll \/ PrintLosesTail \/ PrintPanics
      PROVE  (SoundJobs /\ SoundChunks /\ IsAscending(output))'
  <2> DEFINE all == MergeAll(LinesOfEach(chunks))
  <2>1. output' = all /\ chunks' = <<>> /\ UNCHANGED <<queue, running, pending>>
    <3>1. PrintAll
      BY <1>6 DEF PrintLosesTail, PrintPanics
    <3> QED BY <3>1 DEF PrintAll
  <2>2. all \in Seq(Line) /\ IsAscending(all)
    <3>1. /\ LinesOfEach(chunks) \in Heaps
          /\ \A c \in Elements(LinesOfEach(chunks)) : Sound(c)
      BY <1>0, SoundLines DEF ControlInv, TypeOK, SoundChunks
    <3> QED BY <3>1, MergeAllAscends, MergeAllFacts
  <2>3. IsAscending(output')
    <3> HIDE DEF all
    <3> QED BY <2>1, <2>2
  <2>4. SoundChunks'
    <3>1. Len(<<>>) = 0 /\ 1..0 = {}
      OBVIOUS
    <3> HIDE DEF all
    <3> QED BY <1>0, <2>1, <3>1 DEF SoundChunks
  <2> HIDE DEF all
  <2> QED BY <1>0, <2>1, <2>3, <2>4 DEF SoundJobs
<1> QED BY <1>1, <1>2, <1>3, <1>4, <1>5, <1>6 DEF Main

\* The steps of the workers add only results that ascend.
LEMMA WorkerKeepsOrder ==
  ASSUME ControlInv, OrderInv, NEW w \in Workers, WorkerStep(w)
  PROVE  OrderInv'
<1> SUFFICES ASSUME ~ emptyChunk', ~ lost'
             PROVE  (SoundJobs /\ SoundChunks /\ IsAscending(output))'
  BY DEF OrderInv
<1> USE DEF pool, setting, locals, history
<1>0. /\ queue \in Seq(Job) /\ chunks \in Seq(Chunk) /\ running \in [Workers -> Job \cup {NoJob}]
      /\ pending' = pending /\ output' = output
      /\ ~ emptyChunk /\ ~ lost /\ SoundJobs /\ SoundChunks /\ IsAscending(output)
  <2>1. emptyChunk' = emptyChunk /\ (lost' = lost \/ lost' = TRUE)
    BY DEF WorkerStep, WorkerLoop, JobDone, JobLosesTail, JobFails, Push, PushCutOff
  <2>2. ~ emptyChunk /\ ~ lost
    BY <2>1
  <2>3. pending' = pending /\ output' = output
    BY DEF WorkerStep, WorkerLoop, JobDone, JobLosesTail, JobFails
  <2> QED BY <2>2, <2>3 DEF OrderInv, ControlInv, TypeOK, PoolTypeOK
<1>1. \/ queue' = queue \/ queue' = <<>> \/ (Recv(w) /\ queue' = Tail(queue) /\ queue # <<>>)
  BY DEF WorkerStep, WorkerLoop, JobDone, JobLosesTail, JobFails, Acquire, AcquirePoisoned,
         Recv, Disconnected, Return, JobPanics, End
<1>2. queue # <<>> => /\ SoundJob(Head(queue))
                      /\ \A i \in 1..Len(Tail(queue)) : SoundJob(Tail(queue)[i])
  <2> SUFFICES ASSUME queue # <<>>
               PROVE  /\ SoundJob(Head(queue))
                      /\ \A i \in 1..Len(Tail(queue)) : SoundJob(Tail(queue)[i])
    OBVIOUS
  <2>1. Len(queue) \in Nat \ {0}
    BY <1>0, EmptySeq, LenProperties
  <2>2. /\ Len(Tail(queue)) = Len(queue) - 1 /\ Head(queue) = queue[1]
        /\ \A i \in 1..Len(Tail(queue)) : Tail(queue)[i] = queue[i + 1]
    BY <1>0, <2>1, HeadTailProperties
  <2>3. 1 \in 1..Len(queue) /\ \A i \in 1..Len(Tail(queue)) : i + 1 \in 1..Len(queue)
    BY <2>1, <2>2
  <2> QED BY <1>0, <2>2, <2>3 DEF SoundJobs
<1>3. SoundJobs'
  <2>1. \A i \in 1..Len(queue') : SoundJob(queue'[i])
    <3>1. Len(<<>>) = 0 /\ 1..0 = {}
      OBVIOUS
    <3> QED BY <1>0, <1>1, <1>2, <3>1 DEF SoundJobs
  <2>2. \A v \in Workers : running'[v] \in {NoJob, running[v]}
                           \/ (queue # <<>> /\ running'[v] = Head(queue))
    <3>1. \/ running' = running \/ running' = [running EXCEPT ![w] = NoJob]
          \/ queue # <<>> /\ running' = [running EXCEPT ![w] = Head(queue)]
      BY DEF WorkerStep, WorkerLoop, JobDone, JobLosesTail, JobFails, Acquire, AcquirePoisoned,
             Recv, Disconnected, Return, JobPanics, End
    <3> QED BY <1>0, <3>1
  <2>3. \A v \in Workers : running'[v] # NoJob => SoundJob(running'[v])
    BY <1>0, <1>2, <2>2 DEF SoundJobs
  <2> QED BY <1>0, <2>1, <2>3 DEF SoundJobs
<1>4. ASSUME NEW chunk \in Chunk, Sound(chunk.lines), chunks' = Append(chunks, chunk)
      PROVE  SoundChunks'
  <2>1. /\ Len(chunks') = Len(chunks) + 1 /\ Len(chunks) \in Nat
        /\ chunks'[Len(chunks) + 1] = chunk /\ \A i \in 1..Len(chunks) : chunks'[i] = chunks[i]
    BY <1>0, <1>4, AppendProperties, LenProperties
  <2>2. \A i \in 1..(Len(chunks) + 1) : i \in 1..Len(chunks) \/ i = Len(chunks) + 1
    BY <2>1
  <2> QED BY <1>0, <1>4, <2>1, <2>2 DEF SoundChunks
<1>5. ASSUME worker[w] = "run"
      PROVE  Result(running[w]) \in Chunk /\ Sound(Result(running[w]).lines)
  <2>1. running[w] # NoJob /\ running[w] \in Job
    BY <1>0, <1>5 DEF ControlInv, LockInv
  <2>2. GoodJob(running[w]) /\ SoundJob(running[w])
    BY <1>0, <2>1 DEF ControlInv, GoodJobs, SoundJobs
  <2> QED BY <2>1, <2>2, ResultFacts, ResultIsSound
<1>6. CASE chunks' = chunks
  BY <1>0, <1>3, <1>6 DEF SoundChunks
<1>7. CASE worker[w] = "run" /\ Push(w)
  <2>1. chunks' = Append(chunks, Result(running[w]))
    BY <1>7 DEF Push
  <2> QED BY <1>0, <1>3, <1>4, <1>5, <1>7, <2>1
<1>8. chunks' = chunks \/ (worker[w] = "run" /\ Push(w))
  <2>1. ~ PushCutOff(w)
    BY DEF PushCutOff
  <2> QED BY <2>1 DEF WorkerStep, WorkerLoop, JobDone, JobLosesTail, JobFails, Return
<1> QED BY <1>6, <1>7, <1>8

\* The order depends on the variables alone.
LEMMA StutterKeepsOrder ==
  ASSUME OrderInv, UNCHANGED vars
  PROVE  OrderInv'
BY DEF vars, OrderInv, SoundJobs, SoundChunks

\* What sort prints ascends, and so does every chunk, unless a batch was empty or
\* a BufWriter has not written all (Sort.SortedWithoutEmptyChunks): with the heap
\* that the standard library makes, however the jobs interleave.
THEOREM OutputIsSorted == Spec => []SortedWithoutEmptyChunks
<1>1. Init => ControlInv /\ OrderInv
  BY ControlInit, OrderInit
<1>2. ControlInv /\ OrderInv /\ [Next]_vars => ControlInv' /\ OrderInv'
  <2>1. ControlInv /\ [Next]_vars => ControlInv'
    BY MainKeepsControl, WorkerKeepsControl, StutterKeepsControl DEF Next, Ended
  <2>2. ControlInv /\ OrderInv /\ [Next]_vars => OrderInv'
    BY MainKeepsOrder, WorkerKeepsOrder, StutterKeepsOrder DEF Next, Ended
  <2> QED BY <2>1, <2>2
<1>3. OrderInv => SortedWithoutEmptyChunks
  BY DEF OrderInv, SoundChunks, Sound, IsAscending, SortedWithoutEmptyChunks, Lines
<1> QED BY <1>1, <1>2, <1>3, PTL DEF Spec

=============================================================================
