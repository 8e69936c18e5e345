----------------------------- MODULE TailProofs -----------------------------
(***************************************************************************)
(* Proofs about Tail, for every file, every block size and every number of *)
(* lines, whatever other processes append.                                 *)
(***************************************************************************)
EXTENDS Tail, FiniteSetTheorems, DataLemmas

-----------------------------------------------------------------------------
(* Counting newlines. *)

Count(s) == Cardinality(Newlines(s))

\* The newlines of a text can be counted.
LEMMA NewlinesFinite ==
  ASSUME NEW s \in Seq(Byte)
  PROVE  /\ Newlines(s) \subseteq 1..Len(s) /\ IsFiniteSet(Newlines(s)) /\ Count(s) \in Nat
         /\ \A T \in SUBSET Newlines(s) : IsFiniteSet(T) /\ Cardinality(T) \in Nat
<1>1. Len(s) \in Nat
  BY LenProperties
<1>2. IsFiniteSet(1..Len(s))
  BY <1>1, FS_Interval
<1>3. Newlines(s) \subseteq 1..Len(s)
  BY DEF Newlines
<1>4. IsFiniteSet(Newlines(s))
  BY <1>2, <1>3, FS_Subset
<1>5. \A T \in SUBSET Newlines(s) : IsFiniteSet(T) /\ Cardinality(T) \in Nat
  BY <1>4, FS_Subset, FS_CardinalityType
<1> QED BY <1>3, <1>4, <1>5 DEF Count

\* The newlines after a position are those of what follows it.
LEMMA CountAfter ==
  ASSUME NEW s \in Seq(Byte), NEW n \in 0..Len(s)
  PROVE  Cardinality({i \in Newlines(s) : i > n}) = Count(SubSeq(s, n + 1, Len(s)))
<1> DEFINE rest == SubSeq(s, n + 1, Len(s))
           A == {i \in Newlines(s) : i > n}
           f == [i \in A |-> i - n]
<1>1. /\ Len(s) \in Nat /\ n \in Nat /\ n <= Len(s)
      /\ rest \in Seq(Byte) /\ Len(rest) = Len(s) - n
      /\ \A i \in 1..(Len(s) - n) : rest[i] = s[n + i]
  BY CutInTwo, LenProperties
<1> HIDE DEF rest
<1>2. \A i \in A : i \in 1..Len(s) /\ i > n /\ s[i] = "nl"
  BY DEF Newlines
<1>3. \A i \in Newlines(rest) : i \in 1..(Len(s) - n) /\ s[n + i] = "nl"
  BY <1>1 DEF Newlines
<1>4. f \in [A -> Newlines(rest)]
  <2>1. ASSUME NEW i \in A PROVE i - n \in Newlines(rest)
    <3>1. i - n \in 1..(Len(s) - n) /\ n + (i - n) = i
      BY <1>1, <1>2
    <3>2. rest[i - n] = "nl"
      BY <1>1, <1>2, <3>1
    <3> QED BY <1>1, <3>1, <3>2 DEF Newlines
  <2> QED BY <2>1
<1>5. f \in Injection(A, Newlines(rest))
  <2>1. \A i, j \in A : f[i] = f[j] => i = j
    BY <1>1, <1>2
  <2> HIDE DEF A, f
  <2> QED BY <1>4, <2>1 DEF Injection, IsInjective
<1>6. f \in Surjection(A, Newlines(rest))
  <2>1. ASSUME NEW i \in Newlines(rest) PROVE \E j \in A : f[j] = i
    <3>1. n + i \in A /\ (n + i) - n = i
      BY <1>1, <1>3 DEF Newlines
    <3> QED BY <3>1
  <2> HIDE DEF A, f
  <2> QED BY <1>4, <2>1 DEF Surjection
<1>7. ExistsBijection(A, Newlines(rest))
  <2> HIDE DEF A, f
  <2> QED BY <1>5, <1>6 DEF ExistsBijection, Bijection
<1>8. IsFiniteSet(A)
  <2>1. A \in SUBSET Newlines(s)
    OBVIOUS
  <2> QED BY <2>1, NewlinesFinite
<1>9. Cardinality(Newlines(rest)) = Cardinality(A)
  <2> HIDE DEF A
  <2> QED BY <1>7, <1>8, FS_Bijection
<1> QED BY <1>9 DEF Count, rest

\* With the newline at a position there is one more.
LEMMA CountFrom ==
  ASSUME NEW s \in Seq(Byte), NEW n \in Newlines(s)
  PROVE  Cardinality({i \in Newlines(s) : i >= n}) = Count(SubSeq(s, n + 1, Len(s))) + 1
<1> DEFINE A == {i \in Newlines(s) : i > n}
<1>1. n \in 0..Len(s) /\ \A i \in Newlines(s) : i \in Nat
  BY DEF Newlines
<1>2. {i \in Newlines(s) : i >= n} = A \cup {n}
  <2>1. n \in Nat /\ \A i \in Newlines(s) : i >= n <=> i > n \/ i = n
    BY <1>1
  <2> QED BY <2>1
<1>3. A \in SUBSET Newlines(s) /\ n \notin A
  BY <1>1
<1>4. IsFiniteSet(A)
  BY <1>3, NewlinesFinite
<1>5. Cardinality(A \cup {n}) = Cardinality(A) + 1
  <2> HIDE DEF A
  <2> QED BY <1>3, <1>4, FS_AddElement
<1>6. Cardinality(A) = Count(SubSeq(s, n + 1, Len(s)))
  BY <1>1, CountAfter
<1> QED BY <1>2, <1>5, <1>6

\* The newlines of two pieces add up.
LEMMA CountConcat ==
  ASSUME NEW s \in Seq(Byte), NEW r \in Seq(Byte)
  PROVE  Count(s \o r) = Count(s) + Count(r)
<1> DEFINE t == s \o r
           A == {i \in Newlines(t) : i > Len(s)}
<1>1. /\ t \in Seq(Byte) /\ Len(t) = Len(s) + Len(r) /\ Len(s) \in Nat /\ Len(r) \in Nat
      /\ \A i \in 1..(Len(s) + Len(r)) : t[i] = IF i <= Len(s) THEN s[i] ELSE r[i - Len(s)]
  BY ConcatProperties, LenProperties
<1>2. SubSeq(t, Len(s) + 1, Len(t)) = r
  BY RestOfConcat
<1> HIDE DEF t
<1>3. Len(s) \in 0..Len(t)
  BY <1>1
<1>4. Cardinality(A) = Count(r)
  BY <1>1, <1>2, <1>3, CountAfter
<1>5. Newlines(t) = Newlines(s) \cup A /\ Newlines(s) \cap A = {}
  BY <1>1 DEF Newlines
<1>6. IsFiniteSet(Newlines(s)) /\ IsFiniteSet(A) /\ Count(s) \in Nat /\ Count(r) \in Nat
  <2>1. A \in SUBSET Newlines(t)
    OBVIOUS
  <2> QED BY <1>1, <2>1, NewlinesFinite
<1>7. Cardinality(Newlines(s) \cup A) = Cardinality(Newlines(s)) + Cardinality(A)
  <2> HIDE DEF A
  <2>1. Cardinality(Newlines(s) \cup A)
          = Cardinality(Newlines(s)) + Cardinality(A) - Cardinality(Newlines(s) \cap A)
    BY <1>6, FS_Union
  <2>2. Cardinality(Newlines(s) \cap A) = 0
    BY <1>5, FS_EmptySet
  <2> QED BY <1>4, <1>6, <2>1, <2>2 DEF Count
<1> QED BY <1>4, <1>5, <1>7 DEF Count, t

\* Among as many newlines, one is number k from the end.
LEMMA FromTheEnd ==
  ASSUME NEW s \in Seq(Byte), NEW k \in 1..Count(s)
  PROVE  \E i \in Newlines(s) : Cardinality({j \in Newlines(s) : j >= i}) = k
<1> DEFINE After(i) == {j \in Newlines(s) : j >= i}
           T == {i \in 1..Len(s) : Cardinality(After(i)) >= k}
<1>1. Len(s) \in Nat /\ \A i \in Newlines(s) : i \in 1..Len(s) /\ i \in Nat
  BY NewlinesFinite, LenProperties DEF Newlines
<1>2. \A i : IsFiniteSet(After(i)) /\ Cardinality(After(i)) \in Nat
  <2>1. \A i : After(i) \in SUBSET Newlines(s)
    OBVIOUS
  <2> QED BY <2>1, NewlinesFinite
<1>3. After(1) = Newlines(s) /\ Newlines(s) # {}
  <2>1. After(1) = Newlines(s)
    BY <1>1
  <2>2. Newlines(s) # {}
    <3>1. Cardinality({}) = 0
      BY FS_EmptySet
    <3>2. Count(s) # 0
      OBVIOUS
    <3> QED BY <3>1, <3>2 DEF Count
  <2> QED BY <2>1, <2>2
<1>4. T \subseteq 0..Len(s) /\ T # {}
  <2>1. 1 \in 1..Len(s)
    BY <1>1, <1>3
  <2>2. Cardinality(After(1)) >= k
    BY <1>3, NewlinesFinite, SMTT(30) DEF Count
  <2> HIDE DEF After
  <2> QED BY <2>1, <2>2
<1> DEFINE i == Max(T)
<1>5. i \in T /\ \A j \in T : j <= i
  <2> HIDE DEF T
  <2> QED BY <1>1, <1>4, MaxIsGreatest
<1> HIDE DEF i
<1>6. i \in 1..Len(s) /\ Cardinality(After(i)) >= k
  BY <1>5
<1>7. Cardinality(After(i + 1)) < k
  <2>1. CASE i + 1 \in 1..Len(s)
    <3>1. i + 1 \notin T
      BY <1>1, <1>5, <1>6
    <3>2. Cardinality(After(i + 1)) \in Nat
      BY <1>2
    <3> HIDE DEF After
    <3> QED BY <2>1, <3>1, <3>2
  <2>2. CASE i + 1 \notin 1..Len(s)
    <3>1. After(i + 1) = {}
      BY <1>1, <1>6, <2>2
    <3>2. Cardinality({}) = 0 /\ 0 < k
      BY FS_EmptySet
    <3> HIDE DEF After
    <3> QED BY <3>1, <3>2
  <2> QED BY <2>1, <2>2
<1>8. CASE i \in Newlines(s)
  <2>1. After(i) = After(i + 1) \cup {i} /\ i \notin After(i + 1)
    <3>1. \A j \in Newlines(s) : j >= i <=> j >= i + 1 \/ j = i
      BY <1>1, <1>6
    <3>2. ~(i >= i + 1)
      BY <1>6
    <3> QED BY <1>8, <3>1, <3>2
  <2>2. Cardinality(After(i)) = Cardinality(After(i + 1)) + 1
    <3>1. IsFiniteSet(After(i + 1))
      BY <1>2
    <3> HIDE DEF After
    <3> QED BY <2>1, <3>1, FS_AddElement
  <2>3. Cardinality(After(i)) \in Nat /\ Cardinality(After(i + 1)) \in Nat
    BY <1>2
  <2>4. Cardinality(After(i)) = k
    <3> HIDE DEF After
    <3> QED BY <1>6, <1>7, <2>2, <2>3
  <2> QED BY <1>8, <2>4
<1>9. CASE i \notin Newlines(s)
  <2>1. After(i) = After(i + 1)
    BY <1>1, <1>6, <1>9
  <2>2. Cardinality(After(i)) \in Nat
    BY <1>2
  <2> HIDE DEF After
  <2> QED BY <1>6, <1>7, <2>1, <2>2
<1> QED BY <1>8, <1>9

-----------------------------------------------------------------------------
(* Lines. *)

FirstLine(s) == SubSeq(s, 1, Min(Newlines(s)))
AfterFirst(s) == SubSeq(s, Min(Newlines(s)) + 1, Len(s))

\* A text with a newline is its first line and what follows.
LEMMA FirstLineFacts ==
  ASSUME NEW s \in Seq(Byte), Newlines(s) # {}
  PROVE  /\ Min(Newlines(s)) \in 1..Len(s) /\ s[Min(Newlines(s))] = "nl"
         /\ \A i \in Newlines(s) : Min(Newlines(s)) <= i
         /\ FirstLine(s) \in Seq(Byte) /\ AfterFirst(s) \in Seq(Byte)
         /\ FirstLine(s) \o AfterFirst(s) = s
         /\ Len(AfterFirst(s)) = Len(s) - Min(Newlines(s))
<1>1. Min(Newlines(s)) \in Newlines(s) /\ \A i \in Newlines(s) : Min(Newlines(s)) <= i
  <2>1. Newlines(s) \subseteq Nat
    BY DEF Newlines
  <2> QED BY <2>1, MinIsLeast
<1>2. Min(Newlines(s)) \in 1..Len(s) /\ s[Min(Newlines(s))] = "nl"
  BY <1>1 DEF Newlines
<1>3. Min(Newlines(s)) \in 0..Len(s)
  BY <1>2
<1> QED BY <1>1, <1>2, <1>3, CutInTwo DEF FirstLine, AfterFirst

\* The definition of LinesOf is one by recursion, and gives sequences of lines.
LEMMA LinesDefined ==
  ASSUME NEW s \in Seq(Byte)
  PROVE  /\ LinesOf[s] = IF s = <<>> THEN <<>>
                         ELSE IF Newlines(s) = {} THEN <<s>>
                         ELSE <<FirstLine(s)>> \o LinesOf[AfterFirst(s)]
         /\ LinesOf[s] \in Seq(Seq(Byte))
<1> DEFINE S == Seq(Byte)
           V == Seq(Seq(Byte))
           Ends(t) == t = <<>> \/ Newlines(t) = {}
           End(t) == IF t = <<>> THEN <<>> ELSE <<t>>
           First(t) == <<FirstLine(t)>>
           Rest(t) == AfterFirst(t)
           size == [t \in S |-> Len(t)]
           Base == {t \in S : Ends(t)}
           base == [t \in Base |-> End(t)]
           smaller == [t \in S \ Base |-> Rest(t)]
           step == [t \in S \ Base |-> [v \in V |-> First(t) \o v]]
           Is(f) == f = [t \in S |-> IF Ends(t) THEN End(t) ELSE First(t) \o f[Rest(t)]]
<1>1. ASSUME NEW t \in S PROVE End(t) \in V
  BY EmptySeq
<1>2. ASSUME NEW t \in S, ~ Ends(t)
      PROVE  First(t) \in V /\ Rest(t) \in S /\ Len(Rest(t)) < Len(t)
  <2>1. Newlines(t) # {} /\ Len(t) \in Nat
    BY <1>2, LenProperties
  <2>2. Min(Newlines(t)) \in 1..Len(t) /\ FirstLine(t) \in S /\ Rest(t) \in S
        /\ Len(Rest(t)) = Len(t) - Min(Newlines(t))
    BY <2>1, FirstLineFacts
  <2> QED BY <2>1, <2>2
<1>3. LinesOf = CHOOSE f : Is(f)
  <2> DEFINE Was(f) == f = [t \in Seq(Byte) |->
                 IF t = <<>> THEN <<>>
                 ELSE IF Newlines(t) = {} THEN <<t>>
                 ELSE <<SubSeq(t, 1, Min(Newlines(t)))>> \o f[SubSeq(t, Min(Newlines(t)) + 1, Len(t))]]
  <2>1. LinesOf = CHOOSE f : Was(f)
    BY DEF LinesOf
  <2>2. \A f : Was(f) <=> Is(f)
    <3>1. ASSUME NEW f, NEW t \in S
          PROVE  (IF t = <<>> THEN <<>>
                  ELSE IF Newlines(t) = {} THEN <<t>>
                  ELSE <<SubSeq(t, 1, Min(Newlines(t)))>> \o f[SubSeq(t, Min(Newlines(t)) + 1, Len(t))])
                 = IF Ends(t) THEN End(t) ELSE First(t) \o f[Rest(t)]
      BY DEF FirstLine, AfterFirst
    <3>2. ASSUME NEW f
          PROVE  [t \in Seq(Byte) |->
                    IF t = <<>> THEN <<>>
                    ELSE IF Newlines(t) = {} THEN <<t>>
                    ELSE <<SubSeq(t, 1, Min(Newlines(t)))>> \o f[SubSeq(t, Min(Newlines(t)) + 1, Len(t))]]
                 = [t \in S |-> IF Ends(t) THEN End(t) ELSE First(t) \o f[Rest(t)]]
      <4> HIDE DEF Ends, End, First, Rest
      <4> QED BY <3>1
    <3> QED BY <3>2
  <2> HIDE DEF Was, Is
  <2> QED BY <2>1, <2>2
<1> HIDE DEF V, Ends, First, Rest, End
<1>4. RecursionOn(S, V, size, Base, base, smaller, step)
  <2>1. size \in [S -> Nat] /\ Base \in SUBSET S
    BY LenProperties
  <2>2. base \in [Base -> V]
    BY <1>1
  <2>3. /\ smaller \in [S \ Base -> S]
        /\ \A t \in S \ Base : size[smaller[t]] < size[t]
    BY <1>2
  <2>4. ASSUME NEW t \in S \ Base, NEW v \in V PROVE First(t) \o v \in V
    BY <1>2, ConcatProperties DEF V
  <2>5. step \in [S \ Base -> [V -> V]]
    BY <2>4
  <2> HIDE DEF S, size, Base, base, smaller, step
  <2> QED BY <2>1, <2>2, <2>3, <2>5 DEF RecursionOn
<1>5. PICK f \in [S -> V] : Recursive(f, S, Base, base, smaller, step)
  <2> HIDE DEF S, size, Base, base, smaller, step
  <2> QED BY <1>4, RecursiveFunctionExists
<1>6. Is(f)
  <2>1. ASSUME NEW t \in S
        PROVE  f[t] = IF Ends(t) THEN End(t) ELSE First(t) \o f[Rest(t)]
    <3>1. CASE Ends(t)
      BY <1>5, <3>1 DEF Recursive
    <3>2. CASE ~ Ends(t)
      <4>1. f[t] = step[t][f[smaller[t]]] /\ smaller[t] = Rest(t) /\ f[Rest(t)] \in V
        BY <1>2, <1>5, <3>2 DEF Recursive
      <4>2. step[t][f[Rest(t)]] = First(t) \o f[Rest(t)]
        BY <3>2, <4>1
      <4> QED BY <3>2, <4>1, <4>2
    <3> QED BY <3>1, <3>2
  <2> HIDE DEF S
  <2> QED BY <1>5, <2>1
<1>7. Is(LinesOf)
  <2> HIDE DEF Is
  <2> QED BY <1>3, <1>6
<1>8. \A t \in S : LinesOf[t] \in V
  <2> DEFINE P == {t \in S : LinesOf[t] \in V}
  <2>1. size \in [S -> Nat]
    BY LenProperties
  <2>2. ASSUME NEW t \in S, \A u \in S : size[u] < size[t] => u \in P
        PROVE  t \in P
    <3>1. CASE Ends(t)
      BY <1>1, <1>7, <3>1
    <3>2. CASE ~ Ends(t)
      <4>1. Rest(t) \in S /\ size[Rest(t)] < size[t]
        BY <1>2, <3>2
      <4>2. LinesOf[Rest(t)] \in V /\ LinesOf[t] = First(t) \o LinesOf[Rest(t)]
        BY <1>7, <2>2, <3>2, <4>1
      <4>3. First(t) \o LinesOf[Rest(t)] \in V
        BY <1>2, <3>2, <4>2, ConcatProperties DEF V
      <4> QED BY <4>2, <4>3
    <3> QED BY <3>1, <3>2
  <2> HIDE DEF P, size, S
  <2>3. \A t \in S : t \in P
    BY <2>1, <2>2, InductionOnSize
  <2> QED BY <2>3 DEF P
<1>9. LinesOf[s] = IF Ends(s) THEN End(s) ELSE First(s) \o LinesOf[Rest(s)]
  BY <1>7
<1> QED BY <1>8, <1>9 DEF V, Ends, End, First, Rest

\* Induction on the text that is left after its first line.
LEMMA LineInduction ==
  ASSUME NEW P, \A s \in Seq(Byte) : Newlines(s) = {} => s \in P,
         \A s \in Seq(Byte) : Newlines(s) # {} /\ AfterFirst(s) \in P => s \in P
  PROVE  \A s \in Seq(Byte) : s \in P
<1> DEFINE S == Seq(Byte)
           size == [s \in S |-> Len(s)]
<1>1. size \in [S -> Nat]
  BY LenProperties
<1>2. ASSUME NEW s \in S, \A r \in S : size[r] < size[s] => r \in P
      PROVE  s \in P
  <2>1. CASE Newlines(s) = {}
    BY <2>1
  <2>2. CASE Newlines(s) # {}
    <3>1. AfterFirst(s) \in S /\ size[AfterFirst(s)] < size[s]
      <4>1. /\ Min(Newlines(s)) \in 1..Len(s) /\ AfterFirst(s) \in S
            /\ Len(AfterFirst(s)) = Len(s) - Min(Newlines(s))
        BY <2>2, FirstLineFacts
      <4>2. Len(s) \in Nat
        BY LenProperties
      <4> QED BY <4>1, <4>2
    <3> QED BY <1>2, <2>2, <3>1
  <2> QED BY <2>1, <2>2
<1>3. \A s \in S : s \in P
  <2> HIDE DEF size, S
  <2> QED BY <1>1, <1>2, InductionOnSize
<1> QED BY <1>3

\* The lines are the text.
LEMMA LinesFlatten ==
  \A s \in Seq(Byte) : FlattenSeq(LinesOf[s]) = s
<1> DEFINE P == {s \in Seq(Byte) : FlattenSeq(LinesOf[s]) = s}
<1>0. <<>> \in Seq(Seq(Byte)) /\ \A x \in Seq(Byte) : x \o <<>> = x /\ <<x>> \o <<>> = <<x>>
  BY EmptySeq, ConcatEmptySeq
<1>1. ASSUME NEW s \in Seq(Byte), Newlines(s) = {} PROVE s \in P
  <2>1. CASE s = <<>>
    BY <2>1, LinesDefined, FlattenEmpty
  <2>2. CASE s # <<>>
    <3>1. LinesOf[s] = <<s>>
      BY <1>1, <2>2, LinesDefined
    <3>2. FlattenSeq(<<s>> \o <<>>) = s \o FlattenSeq(<<>>)
      BY <1>0, FlattenCons
    <3> QED BY <1>0, <3>1, <3>2, FlattenEmpty
  <2> QED BY <2>1, <2>2
<1>2. ASSUME NEW s \in Seq(Byte), Newlines(s) # {}, AfterFirst(s) \in P PROVE s \in P
  <2>1. /\ FirstLine(s) \in Seq(Byte) /\ FirstLine(s) \o AfterFirst(s) = s
        /\ Min(Newlines(s)) \in 1..Len(s)
    BY <1>2, FirstLineFacts
  <2>2. s # <<>>
    BY <2>1, EmptySeq
  <2>3. LinesOf[s] = <<FirstLine(s)>> \o LinesOf[AfterFirst(s)] /\ LinesOf[AfterFirst(s)] \in Seq(Seq(Byte))
    BY <1>2, <2>2, LinesDefined
  <2>4. FlattenSeq(LinesOf[s]) = FirstLine(s) \o FlattenSeq(LinesOf[AfterFirst(s)])
    BY <2>1, <2>3, FlattenCons
  <2> QED BY <1>2, <2>1, <2>4
<1> HIDE DEF P
<1>3. \A s \in Seq(Byte) : s \in P
  BY <1>1, <1>2, LineInduction
<1> QED BY <1>3 DEF P

\* Whether a text ends with a newline can be told from what follows any newline.
LEMMA CompleteRest ==
  ASSUME NEW s \in Seq(Byte), NEW n \in Newlines(s)
  PROVE  EndsInNewline(s) <=> EndsInNewline(SubSeq(s, n + 1, Len(s)))
<1> DEFINE rest == SubSeq(s, n + 1, Len(s))
<1>1. n \in 1..Len(s) /\ s[n] = "nl" /\ n \in 0..Len(s)
  BY DEF Newlines
<1>2. Len(s) \in Nat /\ s # <<>>
  BY <1>1, EmptySeq, LenProperties
<1>3. rest \in Seq(Byte) /\ Len(rest) = Len(s) - n /\ \A i \in 1..(Len(s) - n) : rest[i] = s[n + i]
  BY <1>1, CutInTwo
<1> HIDE DEF rest
<1>4. CASE n = Len(s)
  <2>1. rest = <<>>
    BY <1>2, <1>3, <1>4, EmptySeq
  <2>2. Last(s) = "nl"
    BY <1>1, <1>4 DEF Last
  <2> QED BY <2>1, <2>2 DEF EndsInNewline, rest
<1>5. CASE n < Len(s)
  <2>1. Len(s) - n \in 1..(Len(s) - n) /\ n + (Len(s) - n) = Len(s)
    BY <1>1, <1>2, <1>5
  <2>2. Last(rest) = Last(s)
    BY <1>3, <2>1 DEF Last
  <2>3. rest # <<>>
    BY <1>1, <1>2, <1>3, <1>5, EmptySeq
  <2> QED BY <1>2, <2>2, <2>3 DEF EndsInNewline, rest
<1>6. n = Len(s) \/ n < Len(s)
  BY <1>1, <1>2
<1> QED BY <1>4, <1>5, <1>6

\* There are as many lines as newlines, and one more without the last newline.
LEMMA LinesCounted ==
  \A s \in Seq(Byte) : Len(LinesOf[s]) = IF EndsInNewline(s) THEN Count(s) ELSE Count(s) + 1
<1> DEFINE P == {s \in Seq(Byte) : Len(LinesOf[s]) = IF EndsInNewline(s) THEN Count(s) ELSE Count(s) + 1}
<1>1. ASSUME NEW s \in Seq(Byte), Newlines(s) = {} PROVE s \in P
  <2>1. Count(s) = 0
    BY <1>1, FS_EmptySet DEF Count
  <2>2. CASE s = <<>>
    <3>1. LinesOf[s] = <<>> /\ Len(<<>>) = 0
      BY <2>2, LinesDefined, EmptySeq
    <3> QED BY <2>1, <2>2, <3>1 DEF EndsInNewline
  <2>3. CASE s # <<>>
    <3>1. LinesOf[s] = <<s>>
      BY <1>1, <2>3, LinesDefined
    <3>2. Len(s) \in 1..Len(s)
      BY <2>3, EmptySeq
    <3>3. ~EndsInNewline(s)
      BY <1>1, <2>3, <3>2 DEF EndsInNewline, Last, Newlines
    <3>4. Len(<<s>>) = 1
      OBVIOUS
    <3>5. Len(LinesOf[s]) = Count(s) + 1
      BY <2>1, <3>1, <3>4
    <3> QED BY <3>3, <3>5
  <2> QED BY <2>2, <2>3
<1>2. ASSUME NEW s \in Seq(Byte), Newlines(s) # {}, AfterFirst(s) \in P PROVE s \in P
  <2> DEFINE m == Min(Newlines(s))
             rest == AfterFirst(s)
  <2>1. /\ m \in 1..Len(s) /\ s[m] = "nl" /\ \A i \in Newlines(s) : m <= i
        /\ FirstLine(s) \in Seq(Byte) /\ rest \in Seq(Byte) /\ FirstLine(s) \o rest = s
        /\ Len(rest) = Len(s) - m
    BY <1>2, FirstLineFacts
  <2>2. s # <<>> /\ Len(s) \in Nat
    BY <2>1, EmptySeq, LenProperties
  <2>3. LinesOf[s] = <<FirstLine(s)>> \o LinesOf[rest] /\ LinesOf[rest] \in Seq(Seq(Byte))
    BY <1>2, <2>1, <2>2, LinesDefined
  <2>4. Len(LinesOf[s]) = 1 + Len(LinesOf[rest])
    <3>1. <<FirstLine(s)>> \in Seq(Seq(Byte)) /\ Len(<<FirstLine(s)>>) = 1
      BY <2>1
    <3> HIDE DEF rest
    <3> QED BY <2>3, <3>1, ConcatProperties
  <2>5. Count(s) = Count(rest) + 1 /\ Count(rest) \in Nat
    <3>1. m \in Newlines(s) /\ {i \in Newlines(s) : i >= m} = Newlines(s)
      BY <2>1 DEF Newlines
    <3>2. Cardinality({i \in Newlines(s) : i >= m}) = Count(rest) + 1
      BY <3>1, CountFrom DEF AfterFirst
    <3>3. Count(rest) \in Nat
      BY <2>1, NewlinesFinite
    <3> QED BY <3>1, <3>2, <3>3 DEF Count
  <2>6. EndsInNewline(s) <=> EndsInNewline(rest)
    <3>1. m \in Newlines(s)
      BY <2>1 DEF Newlines
    <3> QED BY <3>1, CompleteRest DEF AfterFirst
  <2>7. Len(LinesOf[rest]) = IF EndsInNewline(rest) THEN Count(rest) ELSE Count(rest) + 1
    BY <1>2
  <2> HIDE DEF m, rest
  <2> QED BY <2>4, <2>5, <2>6, <2>7
<1> HIDE DEF P
<1>3. \A s \in Seq(Byte) : s \in P
  BY <1>1, <1>2, LineInduction
<1> QED BY <1>3 DEF P

\* EndsInNewline lines and what follows them are split on their own.
LEMMA LinesOfConcat ==
  ASSUME NEW r \in Seq(Byte)
  PROVE  \A s \in Seq(Byte) : EndsInNewline(s) => LinesOf[s \o r] = LinesOf[s] \o LinesOf[r]
<1> DEFINE P == {s \in Seq(Byte) : EndsInNewline(s) => LinesOf[s \o r] = LinesOf[s] \o LinesOf[r]}
<1>0. LinesOf[r] \in Seq(Seq(Byte))
  BY LinesDefined
<1>1. ASSUME NEW s \in Seq(Byte), Newlines(s) = {} PROVE s \in P
  <2>1. CASE s = <<>>
    <3>1. <<>> \o r = r /\ <<>> \o LinesOf[r] = LinesOf[r]
      BY <1>0, ConcatEmptySeq
    <3>2. LinesOf[s] = <<>>
      BY <2>1, LinesDefined
    <3> QED BY <2>1, <3>1, <3>2
  <2>2. CASE s # <<>>
    <3>1. Len(s) \in 1..Len(s)
      BY <2>2, EmptySeq
    <3>2. ~EndsInNewline(s)
      BY <1>1, <2>2, <3>1 DEF EndsInNewline, Last, Newlines
    <3> QED BY <3>2
  <2> QED BY <2>1, <2>2
<1>2. ASSUME NEW s \in Seq(Byte), Newlines(s) # {}, AfterFirst(s) \in P, EndsInNewline(s)
      PROVE  LinesOf[s \o r] = LinesOf[s] \o LinesOf[r]
  <2> DEFINE m == Min(Newlines(s))
             rest == AfterFirst(s)
             t == s \o r
  <2>1. /\ m \in 1..Len(s) /\ s[m] = "nl" /\ \A i \in Newlines(s) : m <= i
        /\ FirstLine(s) \in Seq(Byte) /\ rest \in Seq(Byte) /\ Len(rest) = Len(s) - m
    BY <1>2, FirstLineFacts
  <2>2. /\ t \in Seq(Byte) /\ Len(t) = Len(s) + Len(r) /\ Len(s) \in Nat /\ Len(r) \in Nat
        /\ \A i \in 1..(Len(s) + Len(r)) : t[i] = IF i <= Len(s) THEN s[i] ELSE r[i - Len(s)]
    BY ConcatProperties, LenProperties
  <2>3. Newlines(t) # {} /\ Min(Newlines(t)) = m
    <3> HIDE DEF m, t
    <3>1. m \in Newlines(t)
      BY <2>1, <2>2 DEF Newlines
    <3>2. \A i \in Newlines(t) : m <= i /\ i \in Nat
      <4>1. ASSUME NEW i \in Newlines(t) PROVE m <= i /\ i \in Nat
        <5>1. i \in 1..(Len(s) + Len(r)) /\ t[i] = "nl" /\ m \in Nat
          BY <2>1, <2>2 DEF Newlines
        <5>2. CASE i <= Len(s)
          <6>1. i \in Newlines(s)
            BY <2>2, <5>1, <5>2 DEF Newlines
          <6> QED BY <2>1, <5>1, <6>1
        <5>3. CASE ~(i <= Len(s))
          BY <2>1, <2>2, <5>1, <5>3
        <5> QED BY <5>2, <5>3
      <4> QED BY <4>1
    <3> DEFINE T == Newlines(t)
               n == Min(T)
    <3>3. n \in T /\ n <= m
      <4>1. T \subseteq Nat /\ T # {} /\ m \in T
        BY <3>1, <3>2
      <4> HIDE DEF T
      <4> QED BY <4>1, MinIsLeast
    <3>4. m \in Nat /\ n \in Nat /\ m <= n
      BY <2>1, <3>2, <3>3
    <3>5. n = m
      <4> HIDE DEF n
      <4> QED BY <3>3, <3>4
    <3> QED BY <3>1, <3>5
  <2>4. FirstLine(t) = FirstLine(s) /\ AfterFirst(t) = rest \o r
    <3>1. m \in 0..Len(s)
      BY <2>1
    <3>2. SubSeq(t, 1, m) = SubSeq(s, 1, m) /\ SubSeq(t, m + 1, Len(t)) = SubSeq(s, m + 1, Len(s)) \o r
      BY <3>1, CutOfConcat
    <3> QED BY <2>3, <3>2 DEF FirstLine, AfterFirst
  <2>5. EndsInNewline(rest)
    <3>1. m \in Newlines(s)
      BY <2>1 DEF Newlines
    <3> QED BY <1>2, <3>1, CompleteRest DEF AfterFirst
  <2>6. LinesOf[rest \o r] = LinesOf[rest] \o LinesOf[r]
    BY <1>2, <2>5
  <2>7. s # <<>> /\ t # <<>>
    BY <2>1, <2>2, EmptySeq
  <2>8. /\ LinesOf[s] = <<FirstLine(s)>> \o LinesOf[rest]
        /\ LinesOf[t] = <<FirstLine(t)>> \o LinesOf[AfterFirst(t)]
        /\ LinesOf[rest] \in Seq(Seq(Byte))
    BY <1>2, <2>1, <2>2, <2>3, <2>7, LinesDefined
  <2>9. LinesOf[t] = <<FirstLine(s)>> \o (LinesOf[rest] \o LinesOf[r])
    BY <2>4, <2>6, <2>8
  <2>10. <<FirstLine(s)>> \in Seq(Seq(Byte))
    BY <2>1
  <2>11. (<<FirstLine(s)>> \o LinesOf[rest]) \o LinesOf[r]
           = <<FirstLine(s)>> \o (LinesOf[rest] \o LinesOf[r])
    <3>1. \A x, y, z \in Seq(Seq(Byte)) : (x \o y) \o z = x \o (y \o z)
      BY ConcatAssociative, SMTT(30)
    <3> QED BY <1>0, <2>8, <2>10, <3>1
  <2> QED BY <2>8, <2>9, <2>11
<1>3. \A s \in Seq(Byte) : s \in P
  <2>1. \A s \in Seq(Byte) : Newlines(s) # {} /\ AfterFirst(s) \in P => s \in P
    BY <1>2
  <2> HIDE DEF P
  <2> QED BY <1>1, <2>1, LineInduction
<1> QED BY <1>3

-----------------------------------------------------------------------------
(* The last lines. *)

\* What is printed of s.  The newline that ends s is one of the lines + 1 that are
\* looked for, and without it there is one line more.
PrintedOf(s) ==
  LET n == IF EndsInNewline(s) THEN lines ELSE lines + 1
  IN  FlattenSeq(LastOf(LinesOf[s], n))

\* These are the last lines when s ends in a newline, and end in them when not.
LEMMA PrintedAndLast ==
  ASSUME lines \in Nat, NEW s \in Seq(Byte)
  PROVE  /\ EndsInNewline(s) => PrintedOf(s) = LastLines(s)
         /\ IsSuffix(LastLines(s), PrintedOf(s))
<1> DEFINE L == LinesOf[s]
           whole == Len(L)
           Most == LastOf(L, lines + 1)
           Few == LastOf(L, lines)
<1>1. L \in Seq(Seq(Byte)) /\ whole \in Nat
  BY LinesDefined, LenProperties
<1>2. EndsInNewline(s) => PrintedOf(s) = FlattenSeq(Few)
  BY DEF PrintedOf
<1>3. ~EndsInNewline(s) => PrintedOf(s) = FlattenSeq(Most)
  BY DEF PrintedOf
<1>4. LastLines(s) = FlattenSeq(Few)
  BY DEF LastLines
<1> HIDE DEF L
<1>5. Few \in Seq(Seq(Byte)) /\ \E x \in Seq(Seq(Byte)) : Most = x \o Few
  <2>1. CASE whole <= lines
    <3>1. Few = L /\ Most = L
      BY <1>1, <2>1 DEF LastOf
    <3>2. <<>> \in Seq(Seq(Byte)) /\ L = <<>> \o L
      BY <1>1, EmptySeq, ConcatEmptySeq
    <3> QED BY <1>1, <3>1, <3>2
  <2>2. CASE whole > lines
    <3> DEFINE j == whole - lines
               k == j - 1
    <3>1. /\ k \in 0..whole /\ j \in k..whole /\ whole \in j..whole /\ k + 1 = j
      BY <1>1, <2>2
    <3>2. /\ SubSeq(L, k + 1, j) \in Seq(Seq(Byte)) /\ SubSeq(L, j + 1, whole) \in Seq(Seq(Byte))
          /\ SubSeq(L, k + 1, j) \o SubSeq(L, j + 1, whole) = SubSeq(L, k + 1, whole)
      <4>1. \A a \in 0..Len(L) : \A b \in a..Len(L) : \A c \in b..Len(L) :
              /\ SubSeq(L, a + 1, b) \in Seq(Seq(Byte))
              /\ SubSeq(L, a + 1, b) \o SubSeq(L, b + 1, c) = SubSeq(L, a + 1, c)
        BY <1>1, AdjacentParts
      <4>2. j \in 0..Len(L) /\ whole \in whole..whole
        BY <1>1, <3>1
      <4> QED BY <3>1, <4>1, <4>2
    <3>3. Few = SubSeq(L, j + 1, whole)
      BY <2>2 DEF LastOf
    <3>4. Most = SubSeq(L, k + 1, whole)
      <4>1. CASE whole = lines + 1
        <5>1. k = 0 /\ Most = L
          BY <1>1, <4>1 DEF LastOf
        <5>2. SubSeq(L, 1, whole) = L
          BY <1>1, SubSeqFull
        <5> QED BY <5>1, <5>2
      <4>2. CASE whole # lines + 1
        <5>1. ~(whole <= lines + 1) /\ whole - (lines + 1) + 1 = k + 1
          BY <1>1, <2>2, <4>2
        <5>2. Most = SubSeq(L, whole - (lines + 1) + 1, whole)
          BY <5>1 DEF LastOf
        <5> QED BY <5>1, <5>2
      <4> QED BY <4>1, <4>2
    <3> HIDE DEF j, k
    <3> QED BY <3>2, <3>3, <3>4
  <2>3. whole <= lines \/ whole > lines
    BY <1>1
  <2> HIDE DEF Few, Most, whole
  <2> QED BY <2>1, <2>2, <2>3
<1> HIDE DEF Few, Most
<1>6. IsSuffix(FlattenSeq(Few), FlattenSeq(Most))
  <2>1. PICK x \in Seq(Seq(Byte)) : Most = x \o Few
    BY <1>5
  <2>2. FlattenSeq(x \o Few) = FlattenSeq(x) \o FlattenSeq(Few)
    BY <1>5, <2>1, FlattenConcat
  <2>3. FlattenSeq(x) \in Seq(Byte) /\ FlattenSeq(Few) \in Seq(Byte)
    BY <1>5, <2>1, FlattenType
  <2> QED BY <2>1, <2>2, <2>3, SuffixOfConcat
<1>7. IsSuffix(FlattenSeq(Few), FlattenSeq(Few))
  <2>1. <<>> \in Seq(Byte) /\ FlattenSeq(Few) \in Seq(Byte)
    BY <1>5, FlattenType, EmptySeq
  <2>2. FlattenSeq(Few) = <<>> \o FlattenSeq(Few)
    BY <2>1, ConcatEmptySeq
  <2> QED BY <2>1, <2>2, SuffixOfConcat
<1> QED BY <1>2, <1>3, <1>4, <1>6, <1>7

\* A text that has no more newlines than lines are wanted is printed as a whole.
LEMMA AllIsPrinted ==
  ASSUME lines \in Nat, NEW s \in Seq(Byte), Count(s) <= lines
  PROVE  PrintedOf(s) = s
<1> DEFINE n == IF EndsInNewline(s) THEN lines ELSE lines + 1
<1>1. Len(LinesOf[s]) <= n
  <2>1. Count(s) \in Nat /\ Len(LinesOf[s]) = IF EndsInNewline(s) THEN Count(s) ELSE Count(s) + 1
    BY NewlinesFinite, LinesCounted
  <2> QED BY <2>1
<1>2. PrintedOf(s) = FlattenSeq(LastOf(LinesOf[s], n))
  BY DEF PrintedOf, EndsInNewline
<1> HIDE DEF n
<1>3. LastOf(LinesOf[s], n) = LinesOf[s]
  BY <1>1 DEF LastOf
<1> QED BY <1>2, <1>3, LinesFlatten

\* The last elements of a sequence are its second part, if they are as many.
LEMMA LastOfConcat ==
  ASSUME NEW a \in Seq(Seq(Byte)), NEW b \in Seq(Seq(Byte))
  PROVE  LastOf(a \o b, Len(b)) = b
<1> DEFINE c == a \o b
<1>1. Len(c) = Len(a) + Len(b) /\ Len(a) \in Nat /\ Len(b) \in Nat /\ SubSeq(c, Len(a) + 1, Len(c)) = b
  <2>1. Len(c) = Len(a) + Len(b)
    BY ConcatProperties
  <2>2. Len(a) \in Nat /\ Len(b) \in Nat
    BY LenProperties
  <2>3. SubSeq(c, Len(a) + 1, Len(c)) = b
    BY RestOfConcat
  <2> QED BY <2>1, <2>2, <2>3
<1>2. CASE Len(c) <= Len(b)
  <2>1. a = <<>>
    BY <1>1, <1>2, EmptySeq
  <2>2. c = b
    BY <2>1, ConcatEmptySeq
  <2> QED BY <1>2, <2>2 DEF LastOf
<1>3. CASE ~(Len(c) <= Len(b))
  <2>1. LastOf(c, Len(b)) = SubSeq(c, Len(c) - Len(b) + 1, Len(c))
    BY <1>3 DEF LastOf
  <2> HIDE DEF c
  <2>2. Len(c) - Len(b) + 1 = Len(a) + 1
    BY <1>1
  <2> QED BY <1>1, <2>1, <2>2 DEF c
<1> QED BY <1>2, <1>3

\* What follows a newline is printed if it has as many newlines as lines are wanted.
LEMMA PrintedAfter ==
  ASSUME lines \in Nat, NEW s \in Seq(Byte), NEW p \in Newlines(s),
         Count(SubSeq(s, p + 1, Len(s))) = lines
  PROVE  PrintedOf(s) = SubSeq(s, p + 1, Len(s))
<1> DEFINE front == SubSeq(s, 1, p)
           rest == SubSeq(s, p + 1, Len(s))
           n == IF EndsInNewline(s) THEN lines ELSE lines + 1
<1>1. p \in 1..Len(s) /\ p \in 0..Len(s) /\ s[p] = "nl"
  BY DEF Newlines
<1>2. /\ front \in Seq(Byte) /\ Len(front) = p /\ \A i \in 1..p : front[i] = s[i]
      /\ rest \in Seq(Byte) /\ front \o rest = s
  BY <1>1, CutInTwo
<1>3. EndsInNewline(s) <=> EndsInNewline(rest)
  BY CompleteRest
<1> HIDE DEF front, rest
<1>4. EndsInNewline(front)
  <2>1. p \in 1..p
    BY <1>1
  <2> QED BY <1>1, <1>2, <2>1 DEF EndsInNewline, Last
<1>5. LinesOf[s] = LinesOf[front] \o LinesOf[rest]
  BY <1>2, <1>4, LinesOfConcat
<1>6. LinesOf[front] \in Seq(Seq(Byte)) /\ LinesOf[rest] \in Seq(Seq(Byte))
  BY <1>2, LinesDefined
<1>7. Len(LinesOf[rest]) = n
  BY <1>2, <1>3, LinesCounted DEF rest
<1>8. PrintedOf(s) = FlattenSeq(LastOf(LinesOf[s], n))
  BY DEF PrintedOf, EndsInNewline
<1> HIDE DEF n
<1>9. LastOf(LinesOf[s], n) = LinesOf[rest]
  BY <1>5, <1>6, <1>7, LastOfConcat
<1>10. FlattenSeq(LinesOf[rest]) = rest
  BY <1>2, LinesFlatten
<1> QED BY <1>8, <1>9, <1>10 DEF rest

-----------------------------------------------------------------------------
(* The invariant. *)

\* What has been read and will be printed.
Kept == FlattenSeq(Reverse(tail))

TypeInv ==
  /\ lines \in Nat /\ main \in MainState
  /\ file \in Seq(Byte) /\ original \in Seq(Byte) /\ tail \in Seq(Seq(Byte))
  /\ initial \in Nat /\ position \in Nat /\ found \in Nat
  /\ main = "open" => tail = <<>> /\ found = 0
  /\ main \in {"read", "print", "follow"} => source = "file"
  /\ main \in {"open", "read", "print"} => out = <<>>

\* The file has only grown.
Grown == \E more \in Seq(Byte) : file = original \o more

\* While it is read backwards, everything from the position on is kept, and it has
\* the newlines found, which are not too many yet.
Scanned ==
  /\ initial = Len(original) /\ position <= Len(original)
  /\ Kept = SubSeq(original, position + 1, Len(original))
  /\ found = Count(Kept) /\ found <= lines

\* The last lines are one piece at the end of the file.
OnePiece ==
  \E p \in 0..Len(original) : PrintedOf(original) = SubSeq(original, p + 1, Len(original))

Printable == initial = Len(original) /\ Kept = PrintedOf(original) /\ OnePiece

Following ==
  /\ Len(original) <= cursor /\ cursor <= Len(file) /\ cursor \in Nat
  /\ out = PrintedOf(original) \o SubSeq(file, Len(original) + 1, cursor)
  /\ OnePiece

\* All is written, and only an unfinished line has perhaps not been passed on.
Printed == out = PrintedOf(original) /\ OnePiece /\ shown \in EndOfLines(out)..Len(out)

TailInv ==
  /\ TypeInv
  /\ source = "file" /\ ~truncated =>
       /\ main \in {"read", "print", "follow"} => Grown
       /\ main = "read" => Scanned
       /\ main = "print" => Printable
       /\ main = "follow" => Following
       /\ main = "success" => Printed

\* Which lines are the last ones depends on --lines and the text only.
LEMMA PrintedOfUnchanged ==
  ASSUME lines' = lines
  PROVE  \A s : PrintedOf(s)' = PrintedOf(s)
BY DEF PrintedOf

\* Nothing has been read.
LEMMA TailInvInit == Init => TailInv
<1> SUFFICES ASSUME Init PROVE TailInv
  OBVIOUS
<1>1. <<>> \in Seq(Seq(Byte))
  BY EmptySeq
<1> QED BY <1>1, TextsAssumption, NumLinesAssumption DEF Init, TailInv, TypeInv, MainState

\* What is kept of a block: all of it, or what follows the newline at which it has
\* lines + 1 of them, counted from its end.
LEMMA ScanFacts ==
  ASSUME lines \in Nat, found \in Nat, found <= lines, NEW buf \in Seq(Byte)
  PROVE  \/ /\ Scan(buf).kept = buf /\ Scan(buf).found = found + Count(buf)
            /\ found + Count(buf) <= lines
         \/ /\ Scan(buf).found = lines + 1
            /\ \E i \in Newlines(buf) :
                 /\ Scan(buf).kept = SubSeq(buf, i + 1, Len(buf))
                 /\ found + Count(SubSeq(buf, i + 1, Len(buf))) = lines
<1> DEFINE stop == {i \in Newlines(buf) :
                      found + Cardinality({j \in Newlines(buf) : j >= i}) = lines + 1}
<1>1. Scan(buf).found = (IF stop # {} THEN lines + 1 ELSE found + Cardinality(Newlines(buf)))
      /\ Scan(buf).kept = (IF stop = {} THEN buf
                           ELSE SubSeq(buf, (CHOOSE i \in stop : TRUE) + 1, Len(buf)))
  BY DEF Scan
<1>2. CASE stop = {}
  <2>1. found + Count(buf) <= lines
    <3>1. SUFFICES ASSUME ~(found + Count(buf) <= lines) PROVE FALSE
      OBVIOUS
    <3>2. Count(buf) \in Nat
      BY NewlinesFinite
    <3>3. lines + 1 - found \in 1..Count(buf) /\ found + (lines + 1 - found) = lines + 1
      BY <3>1, <3>2
    <3>4. PICK i \in Newlines(buf) : Cardinality({j \in Newlines(buf) : j >= i}) = lines + 1 - found
      BY <3>3, FromTheEnd
    <3> QED BY <1>2, <3>3, <3>4
  <2> QED BY <1>1, <1>2, <2>1 DEF Count
<1>3. CASE stop # {}
  <2> DEFINE i == CHOOSE i \in stop : TRUE
  <2>1. i \in stop
    BY <1>3
  <2> HIDE DEF i
  <2>2. i \in Newlines(buf) /\ found + Cardinality({j \in Newlines(buf) : j >= i}) = lines + 1
    BY <2>1
  <2>3. Cardinality({j \in Newlines(buf) : j >= i}) = Count(SubSeq(buf, i + 1, Len(buf))) + 1
    BY <2>2, CountFrom
  <2>4. SubSeq(buf, i + 1, Len(buf)) \in Seq(Byte)
    <3>1. i \in 0..Len(buf)
      BY <2>2 DEF Newlines
    <3> QED BY <3>1, CutInTwo
  <2>5. Count(SubSeq(buf, i + 1, Len(buf))) \in Nat
    BY <2>4, NewlinesFinite
  <2>6. found + Count(SubSeq(buf, i + 1, Len(buf))) = lines
    BY <2>2, <2>3, <2>5
  <2> QED BY <1>1, <1>3, <2>2, <2>6 DEF i
<1> QED BY <1>2, <1>3

-----------------------------------------------------------------------------
(* The steps. *)

\* A block is put in front of what is kept.
LEMMA KeptAppend ==
  ASSUME tail \in Seq(Seq(Byte)), NEW kept \in Seq(Byte), tail' = Append(tail, kept)
  PROVE  Kept' = kept \o Kept
<1>1. Reverse(Append(tail, kept)) = <<kept>> \o Reverse(tail)
  BY ReverseAppend
<1>2. Reverse(tail) \in Seq(Seq(Byte))
  BY ReverseType
<1>3. FlattenSeq(<<kept>> \o Reverse(tail)) = kept \o FlattenSeq(Reverse(tail))
  BY <1>2, FlattenCons
<1> QED BY <1>1, <1>3 DEF Kept

\* The next block is one of the file as it was opened.
LEMMA BlockFacts ==
  ASSUME TypeInv, Grown, Scanned
  PROVE  LET buf == SubSeq(file, NewPosition + 1, position)
         IN  /\ buf \in Seq(Byte) /\ Len(buf) = position - NewPosition
             /\ NewPosition \in 0..position
             /\ buf = SubSeq(original, NewPosition + 1, position)
             /\ \A i \in 0..Len(buf) :
                  SubSeq(buf, i + 1, Len(buf)) \o Kept
                    = SubSeq(original, NewPosition + i + 1, Len(original))
             /\ \A i \in Newlines(buf) : NewPosition + i \in Newlines(original)
<1> DEFINE buf == SubSeq(original, NewPosition + 1, position)
           n == NewPosition
<1>1. /\ original \in Seq(Byte) /\ position \in Nat /\ position <= Len(original) /\ Len(original) \in Nat
      /\ Kept = SubSeq(original, position + 1, Len(original))
  BY LenProperties DEF TypeInv, Scanned
<1>2. n \in Nat /\ n <= position /\ n \in 0..position
  BY <1>1, BlockAssumption DEF NewPosition
<1> HIDE DEF n
<1>3. SubSeq(file, n + 1, position) = SubSeq(original, n + 1, position)
  <2>1. PICK more \in Seq(Byte) : file = original \o more
    BY DEF Grown
  <2>2. n + 1 \in 1..(Len(original) + 1) /\ position \in 0..Len(original)
    BY <1>1, <1>2
  <2> QED BY <1>1, <2>1, <2>2, PartOfConcat
<1>4. buf \in Seq(Byte) /\ Len(buf) = position - n
  <2>1. n \in 0..Len(original) /\ position \in n..Len(original) /\ position \in position..Len(original)
    BY <1>1, <1>2
  <2> QED BY <1>1, <2>1, AdjacentParts DEF n
<1>5. \A i \in 1..Len(buf) : buf[i] = original[n + i]
  <2>1. \A i \in (n + 1)..position : original[i] \in Byte
    BY <1>1, <1>2, ElementOfSeq
  <2>2. n + 1 \in Int /\ position \in Int
    BY <1>1, <1>2
  <2>3. \A i \in 1..(position - (n + 1) + 1) : buf[i] = original[(n + 1) + i - 1]
    BY <2>1, <2>2, SubSeqProperties DEF n
  <2> HIDE DEF buf
  <2>4. ASSUME NEW i \in 1..Len(buf) PROVE buf[i] = original[n + i]
    <3>1. i \in 1..(position - (n + 1) + 1) /\ (n + 1) + i - 1 = n + i
      BY <1>1, <1>2, <1>4
    <3> QED BY <2>3, <3>1
  <2> QED BY <2>4
<1>6. ASSUME NEW i \in 0..Len(buf)
      PROVE  SubSeq(buf, i + 1, Len(buf)) \o Kept = SubSeq(original, n + i + 1, Len(original))
  <2>1. n + i \in 0..Len(original) /\ position \in (n + i)..Len(original) /\ Len(original) \in position..Len(original)
    BY <1>1, <1>2, <1>4
  <2>2. SubSeq(buf, i + 1, Len(buf)) = SubSeq(original, n + i + 1, position)
    <3> DEFINE left == SubSeq(buf, i + 1, Len(buf))
               right == SubSeq(original, n + i + 1, position)
    <3>1. left \in Seq(Byte) /\ Len(left) = Len(buf) - i /\ \A j \in 1..(Len(buf) - i) : left[j] = buf[i + j]
      BY <1>4, CutInTwo
    <3>2. right \in Seq(Byte) /\ Len(right) = position - (n + i)
      BY <1>1, <2>1, AdjacentParts
    <3>3. \A j \in 1..(position - (n + i)) : right[j] = original[n + i + j]
      <4>1. \A j \in (n + i + 1)..position : original[j] \in Byte
        BY <1>1, <2>1, ElementOfSeq
      <4>2. n + i + 1 \in Int /\ position \in Int
        BY <1>1, <1>2, <2>1
      <4>3. \A j \in 1..(position - (n + i + 1) + 1) : right[j] = original[(n + i + 1) + j - 1]
        BY <4>1, <4>2, SubSeqProperties
      <4> HIDE DEF right
      <4>4. ASSUME NEW j \in 1..(position - (n + i)) PROVE right[j] = original[n + i + j]
        <5>1. j \in 1..(position - (n + i + 1) + 1) /\ (n + i + 1) + j - 1 = n + i + j
          BY <1>1, <1>2, <2>1
        <5> QED BY <4>3, <5>1
      <4> QED BY <4>4
    <3> HIDE DEF left, right, buf
    <3>4. Len(left) = Len(right)
      BY <1>1, <1>2, <1>4, <3>1, <3>2
    <3>5. ASSUME NEW j \in 1..Len(left) PROVE left[j] = right[j]
      <4>1. /\ j \in 1..(Len(buf) - i) /\ j \in 1..(position - (n + i))
            /\ i + j \in 1..Len(buf) /\ n + (i + j) = n + i + j
        BY <1>1, <1>2, <1>4, <3>1, <3>2, <3>4
      <4>2. left[j] = buf[i + j] /\ buf[i + j] = original[n + (i + j)]
        BY <1>5, <3>1, <4>1
      <4> QED BY <3>3, <4>1, <4>2
    <3>6. left = right
      BY <3>1, <3>2, <3>4, <3>5, SeqEqual
    <3> QED BY <3>6 DEF left, right, buf
  <2>3. SubSeq(original, n + i + 1, position) \o SubSeq(original, position + 1, Len(original))
          = SubSeq(original, n + i + 1, Len(original))
    BY <1>1, <2>1, AdjacentParts, ZenonT(30)
  <2> QED BY <1>1, <2>2, <2>3
<1>7. ASSUME NEW i \in Newlines(buf) PROVE n + i \in Newlines(original)
  <2>1. i \in 1..Len(buf) /\ buf[i] = "nl"
    BY DEF Newlines
  <2>2. n + i \in 1..Len(original) /\ original[n + i] = "nl"
    BY <1>1, <1>2, <1>4, <1>5, <2>1, SMTT(30)
  <2> QED BY <2>2 DEF Newlines
<1> QED BY <1>2, <1>3, <1>4, <1>6, <1>7 DEF n

\* A block can be cut whatever has happened to the file, as long as it is there.
LEMMA ReadBlockTypes ==
  ASSUME TypeInv, ReadBlock
  PROVE  TypeInv'
<1> DEFINE buf == SubSeq(file, NewPosition + 1, position)
<1>1. /\ file \in Seq(Byte) /\ Len(file) \in Nat /\ position \in Nat /\ position <= Len(file)
      /\ found \in Nat /\ lines \in Nat
  BY LenProperties DEF TypeInv, ReadBlock
<1>2. NewPosition \in Nat /\ NewPosition <= position
  BY <1>1, BlockAssumption DEF NewPosition
<1>3. buf \in Seq(Byte)
  <2>1. NewPosition \in 0..Len(file) /\ position \in NewPosition..Len(file) /\ position \in position..Len(file)
    BY <1>1, <1>2
  <2> QED BY <1>1, <2>1, AdjacentParts
<1>4. /\ tail' = Append(tail, Scan(buf).kept) /\ found' = Scan(buf).found
      /\ position' = NewPosition /\ main' \in {"print", "read"}
      /\ UNCHANGED <<source, lines, file, original, initial, out>> /\ main = "read"
  BY DEF ReadBlock, arguments, world, written
<1> HIDE DEF buf
<1>5. Scan(buf).found \in Nat
  BY <1>1, <1>3, NewlinesFinite, SMTT(30) DEF Scan, Count
<1>6. Scan(buf).kept \in Seq(Byte)
  <2> DEFINE stop == {i \in Newlines(buf) :
                      found + Cardinality({j \in Newlines(buf) : j >= i}) = lines + 1}
  <2>1. Scan(buf).kept = IF stop = {} THEN buf ELSE SubSeq(buf, (CHOOSE i \in stop : TRUE) + 1, Len(buf))
    BY DEF Scan
  <2>2. ASSUME stop # {} PROVE (CHOOSE i \in stop : TRUE) \in 0..Len(buf)
    <3>1. stop \subseteq 0..Len(buf)
      BY DEF Newlines
    <3> HIDE DEF stop
    <3> QED BY <2>2, <3>1
  <2> HIDE DEF stop
  <2> QED BY <1>3, <2>1, <2>2, CutInTwo
<1>7. tail' \in Seq(Seq(Byte))
  BY <1>4, <1>6, AppendProperties DEF TypeInv
<1> QED BY <1>2, <1>4, <1>5, <1>7 DEF TypeInv, MainState

\* Reading one more block backwards keeps what is after the position.
LEMMA ReadBlockKeeps ==
  ASSUME TypeInv, Grown, Scanned, ReadBlock
  PROVE  (main' = "read" => Scanned') /\ (main' = "print" => Printable')
<1> DEFINE buf == SubSeq(file, NewPosition + 1, position)
           kept == Scan(buf).kept
<1>1. /\ buf \in Seq(Byte) /\ Len(buf) = position - NewPosition
      /\ NewPosition \in 0..position
      /\ \A i \in 0..Len(buf) :
           SubSeq(buf, i + 1, Len(buf)) \o Kept = SubSeq(original, NewPosition + i + 1, Len(original))
      /\ \A i \in Newlines(buf) : NewPosition + i \in Newlines(original)
  BY BlockFacts
<1>2. /\ lines \in Nat /\ found \in Nat /\ found <= lines /\ found = Count(Kept)
      /\ original \in Seq(Byte) /\ Len(original) \in Nat /\ position <= Len(original) /\ position \in Nat
      /\ tail \in Seq(Seq(Byte)) /\ initial = Len(original)
  BY LenProperties DEF TypeInv, Scanned
<1>3. Kept \in Seq(Byte)
  BY <1>2, ReverseType, FlattenType DEF Kept
<1>4. /\ tail' = Append(tail, kept) /\ found' = Scan(buf).found
      /\ position' = NewPosition
      /\ main' = IF NewPosition = 0 \/ Scan(buf).found > lines THEN "print" ELSE "read"
      /\ UNCHANGED <<lines, original, initial>>
  BY DEF ReadBlock, arguments, world
<1> HIDE DEF buf
<1>5. ASSUME NEW i \in 0..Len(buf), kept = SubSeq(buf, i + 1, Len(buf))
      PROVE  /\ kept \in Seq(Byte)
             /\ Kept' = SubSeq(original, NewPosition + i + 1, Len(original))
             /\ Count(Kept') = Count(kept) + found
  <2>1. kept \in Seq(Byte)
    BY <1>1, <1>5, CutInTwo
  <2> HIDE DEF kept
  <2>2. Kept' = kept \o Kept
    BY <1>2, <1>4, <2>1, KeptAppend
  <2> QED BY <1>1, <1>2, <1>3, <1>5, <2>1, <2>2, CountConcat
<1>6. ASSUME kept = buf, Scan(buf).found = found + Count(buf), found + Count(buf) <= lines
      PROVE  (main' = "read" => Scanned') /\ (main' = "print" => Printable')
  <2>1. buf = SubSeq(buf, 1, Len(buf)) /\ 0 \in 0..Len(buf) /\ 0 + 1 = 1
    BY <1>1, SubSeqFull, LenProperties
  <2>2. /\ Kept' = SubSeq(original, NewPosition + 1, Len(original))
        /\ Count(Kept') = found'
    <3>1. NewPosition + 0 + 1 = NewPosition + 1 /\ Count(buf) \in Nat
      BY <1>1, NewlinesFinite
    <3>2. kept = SubSeq(buf, 0 + 1, Len(buf))
      BY <1>6, <2>1
    <3>3. Kept' = SubSeq(original, NewPosition + 0 + 1, Len(original)) /\ Count(Kept') = Count(kept) + found
      BY <1>5, <2>1, <3>2
    <3>4. Count(kept) = Count(buf)
      BY <1>6
    <3>5. Kept' = SubSeq(original, NewPosition + 1, Len(original))
      BY <3>1, <3>3
    <3>6. Count(Kept') = Count(buf) + found
      BY <3>3, <3>4
    <3>7. found' = found + Count(buf)
      BY <1>4, <1>6
    <3>8. Count(buf) + found = found + Count(buf)
      BY <1>2, <3>1
    <3> QED BY <3>5, <3>6, <3>7, <3>8
  <2>3. ASSUME main' = "read" PROVE Scanned'
    <3>1. found' = Count(Kept)' /\ found' <= lines'
      BY <1>4, <1>6, <2>2 DEF Count, Newlines
    <3>2. original' = original /\ initial' = Len(original)' /\ position' = NewPosition
          /\ position' <= Len(original)'
      BY <1>1, <1>2, <1>4
    <3>3. Kept' = SubSeq(original', position' + 1, Len(original'))
      BY <2>2, <3>2
    <3> QED BY <3>1, <3>2, <3>3 DEF Scanned
  <2>4. ASSUME main' = "print" PROVE Printable'
    <3>1. NewPosition = 0
      BY <1>4, <1>6, <2>4, <1>2, NewlinesFinite, <1>1
    <3>2. Kept' = original
      BY <1>2, <2>2, <3>1, SubSeqFull
    <3>3. Count(original) <= lines
      BY <1>4, <1>6, <2>2, <3>2
    <3>4. PrintedOf(original) = original
      BY <1>2, <3>3, AllIsPrinted
    <3>5. PrintedOf(original)' = original /\ original' = original /\ initial' = Len(original)'
      BY <1>2, <1>4, <3>4, PrintedOfUnchanged
    <3>6. original = SubSeq(original, 0 + 1, Len(original)) /\ 0 \in 0..Len(original)
      BY <1>2, SubSeqFull
    <3> QED BY <3>2, <3>5, <3>6 DEF Printable, OnePiece
  <2> QED BY <2>3, <2>4
<1>7. ASSUME Scan(buf).found = lines + 1,
             NEW i \in Newlines(buf), kept = SubSeq(buf, i + 1, Len(buf)),
             found + Count(SubSeq(buf, i + 1, Len(buf))) = lines
      PROVE  main' = "print" /\ Printable'
  <2> DEFINE p == NewPosition + i
  <2>1. i \in 0..Len(buf) /\ p \in Newlines(original) /\ main' = "print"
    BY <1>1, <1>2, <1>4, <1>7, SMTT(30) DEF Newlines
  <2>2. p \in 0..Len(original)
    BY <2>1 DEF Newlines
  <2>3. Kept' = SubSeq(original, p + 1, Len(original)) /\ Count(Kept') = lines
    <3>1. Kept' = SubSeq(original, p + 1, Len(original)) /\ Count(Kept') = Count(kept) + found /\ kept \in Seq(Byte)
      BY <1>5, <1>7, <2>1
    <3>2. Count(kept) \in Nat
      BY <3>1, NewlinesFinite
    <3> QED BY <1>2, <1>7, <3>1, <3>2
  <2> HIDE DEF p
  <2>4. PrintedOf(original) = Kept'
    BY <1>2, <2>1, <2>3, PrintedAfter
  <2>5. PrintedOf(original)' = PrintedOf(original) /\ original' = original /\ initial' = Len(original)'
    BY <1>2, <1>4, PrintedOfUnchanged
  <2> QED BY <2>1, <2>2, <2>3, <2>4, <2>5 DEF Printable, OnePiece
<1> QED BY <1>1, <1>2, <1>6, <1>7, ScanFacts

\* Nothing that the invariant speaks of changes but the file, which grows.
LEMMA GrowthKeeps ==
  ASSUME TypeInv, source = "file" /\ ~truncated => (main = "follow" => Following),
         NEW b \in Byte, file' = Append(file, b),
         UNCHANGED <<source, lines, original, truncated, main, cursor, out, scan>>,
         source = "file", ~truncated
  PROVE  /\ Grown => Grown'
         /\ main = "follow" => Following'
<1> DEFINE one == <<b>>
<1>1. /\ file \in Seq(Byte) /\ original \in Seq(Byte) /\ one \in Seq(Byte) /\ Len(one) = 1
      /\ file' = file \o one /\ Len(file) \in Nat /\ Len(original) \in Nat
  BY AppendIsConcat, LenProperties DEF TypeInv
<1> HIDE DEF one
<1>2. Grown => Grown'
  <2>1. ASSUME NEW more \in Seq(Byte), file = original \o more
        PROVE  more \o one \in Seq(Byte) /\ file' = original \o (more \o one)
    BY <1>1, <2>1, ConcatProperties, ConcatAssociative, SMTT(30)
  <2> QED BY <2>1 DEF Grown
<1>3. ASSUME main = "follow" PROVE Following'
  <2>1. /\ Len(original) <= cursor /\ cursor <= Len(file) /\ cursor \in Nat
        /\ out = PrintedOf(original) \o SubSeq(file, Len(original) + 1, cursor)
        /\ OnePiece
    BY <1>3 DEF Following
  <2>2. SubSeq(file', Len(original) + 1, cursor) = SubSeq(file, Len(original) + 1, cursor)
    <3>1. Len(original) + 1 \in 1..(Len(file) + 1) /\ cursor \in 0..Len(file)
      BY <1>1, <2>1
    <3> QED BY <1>1, <3>1, PartOfConcat
  <2>3. Len(file') = Len(file) + 1
    BY <1>1, ConcatProperties, SMTT(30)
  <2>4. PrintedOf(original)' = PrintedOf(original) /\ original' = original
        /\ cursor' = cursor /\ out' = out
    BY PrintedOfUnchanged
  <2>5. OnePiece'
    BY <2>1, <2>4 DEF OnePiece
  <2>6. cursor' <= Len(file')
    BY <1>1, <2>1, <2>3, <2>4
  <2> QED BY <2>1, <2>2, <2>4, <2>5, <2>6 DEF Following
<1> QED BY <1>2, <1>3

\* Following prints what is between the cursor and the place it has been moved to.
LEMMA CopyKeeps ==
  ASSUME TypeInv, Following, Copy
  PROVE  Following'
<1>1. /\ Len(original) <= cursor /\ cursor <= Len(file) /\ cursor \in Nat
      /\ out = PrintedOf(original) \o SubSeq(file, Len(original) + 1, cursor)
      /\ OnePiece
  BY DEF Following
<1>2. /\ out' = out \o SubSeq(file, cursor + 1, Len(file)) /\ cursor' = Len(file)
      /\ UNCHANGED <<lines, file, original>>
  BY DEF Copy, Write, arguments, world
<1>3. file \in Seq(Byte) /\ original \in Seq(Byte) /\ Len(file) \in Nat /\ Len(original) \in Nat
  BY LenProperties DEF TypeInv
<1> DEFINE old == SubSeq(file, Len(original) + 1, cursor)
           new == SubSeq(file, cursor + 1, Len(file))
<1>4. /\ old \in Seq(Byte) /\ new \in Seq(Byte)
      /\ old \o new = SubSeq(file, Len(original) + 1, Len(file))
  <2>1. /\ Len(original) \in 0..Len(file) /\ cursor \in Len(original)..Len(file)
        /\ cursor \in 0..Len(file) /\ Len(file) \in cursor..Len(file) /\ Len(file) \in Len(file)..Len(file)
    BY <1>1, <1>3
  <2>2. old \in Seq(Byte) /\ old \o new = SubSeq(file, Len(original) + 1, Len(file))
    <3>1. \A m \in 0..Len(file) : \A k \in m..Len(file) : \A n \in k..Len(file) :
            /\ SubSeq(file, m + 1, k) \in Seq(Byte)
            /\ SubSeq(file, m + 1, k) \o SubSeq(file, k + 1, n) = SubSeq(file, m + 1, n)
      BY <1>3, AdjacentParts
    <3> QED BY <2>1, <3>1
  <2>3. new \in Seq(Byte)
    BY <1>3, <2>1, CutInTwo
  <2> QED BY <2>2, <2>3
<1>5. PrintedOf(original) \in Seq(Byte)
  BY <1>1, <1>3, CutInTwo DEF OnePiece
<1> HIDE DEF old, new
<1>6. (PrintedOf(original) \o old) \o new = PrintedOf(original) \o (old \o new)
  <2>1. \A x, y, z \in Seq(Byte) : (x \o y) \o z = x \o (y \o z)
    BY ConcatAssociative
  <2> QED BY <1>4, <1>5, <2>1
<1>7. PrintedOf(original)' = PrintedOf(original)
  BY <1>2, PrintedOfUnchanged
<1>8. out' = PrintedOf(original) \o SubSeq(file, Len(original) + 1, Len(file))
  BY <1>1, <1>2, <1>4, <1>6 DEF old, new
<1>9. OnePiece'
  BY <1>1, <1>2, <1>7 DEF OnePiece
<1>10. original' = original /\ file' = file /\ Len(original) <= Len(file)
  BY <1>1, <1>2, <1>3
<1>11. out' = PrintedOf(original)' \o SubSeq(file', Len(original') + 1, cursor')
  BY <1>2, <1>7, <1>8, <1>10
<1>12. Len(original') <= cursor' /\ cursor' <= Len(file') /\ cursor' \in Nat
  BY <1>2, <1>3, <1>10
<1> QED BY <1>9, <1>11, <1>12 DEF Following

\* The kept blocks are printed in the order of the file.
LEMMA PrintTailKeeps ==
  ASSUME TypeInv, Grown, Printable, PrintTail
  PROVE  (main' = "follow" => Following') /\ (main' = "success" => Printed')
<1>1. /\ out' = Kept /\ cursor' = initial /\ UNCHANGED <<lines, file, original>>
      /\ shown' \in EndOfLines(out')..Len(out')
  <2>1. out' = out \o Kept /\ out = <<>> /\ cursor' = initial
        /\ UNCHANGED <<lines, file, original>> /\ shown' \in EndOfLines(out')..Len(out')
    BY DEF PrintTail, Write, Kept, arguments, world, TypeInv
  <2>2. Kept \in Seq(Byte)
    BY ReverseType, FlattenType DEF Kept, TypeInv
  <2>3. <<>> \o Kept = Kept
    BY <2>2, ConcatEmptySeq
  <2> QED BY <2>1, <2>3
<1>2. PrintedOf(original)' = PrintedOf(original)
  BY <1>1, PrintedOfUnchanged
<1>3. file \in Seq(Byte) /\ original \in Seq(Byte) /\ Len(original) \in Nat /\ Len(original) <= Len(file)
  BY ConcatProperties, LenProperties DEF TypeInv, Grown
<1>4. out' = PrintedOf(original) /\ cursor' = Len(original) /\ OnePiece
  BY <1>1 DEF Printable
<1>5. PrintedOf(original) \in Seq(Byte)
  BY <1>3, <1>4, CutInTwo DEF OnePiece
<1>6. SubSeq(file, Len(original) + 1, Len(original)) = <<>>
  BY <1>3, SubSeqEmpty
<1>7. PrintedOf(original) \o <<>> = PrintedOf(original)
  BY <1>5, ConcatEmptySeq
<1>8. OnePiece'
  BY <1>1, <1>2, <1>4 DEF OnePiece
<1>9. original' = original /\ file' = file
  BY <1>1
<1>10. out' = PrintedOf(original)' \o SubSeq(file', Len(original') + 1, cursor')
  BY <1>2, <1>4, <1>6, <1>7, <1>9
<1>11. Printed'
  <2>1. (shown \in EndOfLines(out)..Len(out))'
    BY <1>1 DEF EndOfLines, Newlines
  <2> QED BY <1>2, <1>4, <1>8, <2>1 DEF Printed
<1> QED BY <1>1, <1>2, <1>3, <1>4, <1>8, <1>9, <1>10, <1>11 DEF Following

\* When the file is opened, its end is the position.
LEMMA OpenKeeps ==
  ASSUME TypeInv, Open, main = "open", main' = "read"
  PROVE  TypeInv' /\ Grown' /\ Scanned'
<1>1. /\ initial' = Len(file) /\ position' = Len(file) /\ original' = file
      /\ UNCHANGED <<source, lines, file, found, tail, out>> /\ source = "file"
  BY DEF Open, arguments, written
<1>2. file \in Seq(Byte) /\ Len(file) \in Nat /\ tail = <<>> /\ found = 0 /\ lines \in Nat
  BY LenProperties DEF TypeInv
<1>3. Reverse(tail) = <<>>
  <2>1. tail \in Seq(Seq(Byte)) /\ Len(tail) = 0
    BY <1>2, EmptySeq DEF TypeInv
  <2>2. Reverse(tail) \in Seq(Seq(Byte)) /\ Len(Reverse(tail)) = 0
    BY <2>1, ReverseType
  <2> QED BY <2>2, EmptySeq
<1>4. Kept' = <<>>
  BY <1>1, <1>3, FlattenEmpty DEF Kept
<1>5. SubSeq(file, Len(file) + 1, Len(file)) = <<>>
  BY <1>2, SubSeqEmpty
<1>6. Count(<<>>) = 0
  <2>1. Newlines(<<>>) = {}
    BY EmptySeq DEF Newlines
  <2> QED BY <2>1, FS_EmptySet DEF Count
<1>7. Scanned'
  <2>1. found' = Count(Kept)'
    BY <1>1, <1>2, <1>4, <1>6 DEF Count, Newlines
  <2> QED BY <1>1, <1>2, <1>4, <1>5, <2>1 DEF Scanned
<1>8. Grown'
  <2>1. file = file \o <<>> /\ <<>> \in Seq(Byte)
    BY <1>2, ConcatEmptySeq, EmptySeq
  <2> QED BY <1>1, <2>1 DEF Grown
<1>9. TypeInv'
  BY <1>1, <1>2 DEF TypeInv, MainState
<1> QED BY <1>7, <1>8, <1>9

\* A step that leaves what the invariant speaks of as it is, or ends the program.
LEMMA QuietKeeps ==
  ASSUME TailInv, UNCHANGED <<source, lines, original, file, truncated, scan, cursor, written>>,
         UNCHANGED main \/ main' = "failure"
  PROVE  TailInv'
<1>1. \A s : PrintedOf(s)' = PrintedOf(s)
  BY PrintedOfUnchanged
<1>2. /\ source' = source /\ lines' = lines /\ original' = original /\ file' = file
      /\ truncated' = truncated /\ initial' = initial /\ position' = position
      /\ found' = found /\ tail' = tail /\ cursor' = cursor /\ out' = out
      /\ shown' = shown
  BY DEF scan, written
<1>3. PrintedOf(original)' = PrintedOf(original)
  BY <1>1, <1>2
<1>4. TypeInv'
  BY <1>2 DEF TailInv, TypeInv, MainState
<1>5. CASE main' = "failure"
  BY <1>4, <1>5 DEF TailInv
<1>6. CASE main' = main
  <2>1. Grown => Grown'
    BY <1>2 DEF Grown
  <2>2. Scanned => Scanned'
    BY <1>2 DEF Scanned, Kept, Count, Newlines
  <2>3. OnePiece => OnePiece'
    BY <1>2, <1>3 DEF OnePiece
  <2>4. Printable => Printable'
    BY <1>2, <1>3, <2>3 DEF Printable, Kept
  <2>5. Following => Following'
    BY <1>2, <1>3, <2>3 DEF Following
  <2>6. Printed => Printed'
    BY <1>2, <1>3, <2>3 DEF Printed, EndOfLines, Newlines
  <2> QED BY <1>2, <1>3, <1>4, <1>6, <2>1, <2>2, <2>4, <2>5, <2>6 DEF TailInv
<1> QED BY <1>5, <1>6

\* Every step.
LEMMA TailInvNext == TailInv /\ [Next]_vars => TailInv'
<1> SUFFICES ASSUME TailInv, [Next]_vars PROVE TailInv'
  OBVIOUS
<1>1. CASE UNCHANGED vars
  BY <1>1, QuietKeeps DEF vars, scan, written
<1>2. CASE ReadStdin
  <2>1. source = "stdin" /\ source' = source /\ main' = "success" /\ UNCHANGED <<lines, original, file, scan>>
    BY <1>2 DEF ReadStdin, arguments, world
  <2>2. TypeInv'
    BY <2>1 DEF TailInv, TypeInv, MainState, scan
  <2> QED BY <2>1, <2>2 DEF TailInv
<1>3. CASE Open
  <2>1. /\ main = "open" /\ source = "file" /\ main' = "read"
    BY <1>3 DEF Open
  <2> QED BY <1>3, <2>1, OpenKeeps DEF TailInv
<1>4. CASE ReadBlock
  <2>1. /\ main = "read" /\ main' \in {"read", "print"} /\ UNCHANGED <<source, truncated, original, file>>
    BY <1>4 DEF ReadBlock, arguments, world
  <2>2. TypeInv'
    BY <1>4, ReadBlockTypes DEF TailInv
  <2>3. ASSUME source = "file", ~truncated
        PROVE  Grown' /\ (main' = "read" => Scanned') /\ (main' = "print" => Printable')
    <3>1. Grown /\ Scanned
      BY <2>1, <2>3 DEF TailInv
    <3>2. Grown'
      BY <2>1, <3>1 DEF Grown
    <3> QED BY <1>4, <3>1, <3>2, ReadBlockKeeps DEF TailInv
  <2> QED BY <2>1, <2>2, <2>3 DEF TailInv
<1>5. CASE ReadMeetsEnd \/ IoFails
  BY <1>5, QuietKeeps DEF ReadMeetsEnd, IoFails, arguments, world
<1>6. CASE PrintTail
  <2>1. /\ main = "print" /\ main' \in {"follow", "success"} /\ tail' = <<>>
        /\ UNCHANGED <<source, lines, truncated, original, file, initial, position, found>>
    BY <1>6 DEF PrintTail, arguments, world
  <2>2. TypeInv'
    <3>1. <<>> \in Seq(Seq(Byte))
      BY EmptySeq
    <3> QED BY <2>1, <3>1 DEF TailInv, TypeInv, MainState
  <2>3. ASSUME source = "file", ~truncated
        PROVE  /\ Grown' /\ (main' = "follow" => Following')
               /\ main' = "success" => Printed'
    <3>1. Grown /\ Printable
      BY <2>1, <2>3 DEF TailInv
    <3>2. Grown'
      BY <2>1, <3>1 DEF Grown
    <3> QED BY <1>6, <3>1, <3>2, PrintTailKeeps DEF TailInv
  <2> QED BY <2>1, <2>2, <2>3 DEF TailInv
<1>7. CASE Copy
  <2>1. main = "follow" /\ main' = main /\ UNCHANGED <<source, lines, truncated, original, file, scan>>
    BY <1>7 DEF Copy, arguments, world
  <2>2. TypeInv'
    BY <2>1 DEF TailInv, TypeInv, scan
  <2>3. ASSUME source = "file", ~truncated PROVE Grown' /\ Following'
    <3>1. Grown /\ Following
      BY <2>1, <2>3 DEF TailInv
    <3>2. Grown'
      BY <2>1, <3>1 DEF Grown
    <3> QED BY <1>7, <3>1, <3>2, CopyKeeps DEF TailInv
  <2> QED BY <2>1, <2>2, <2>3 DEF TailInv
<1>8. CASE Grow
  <2>1. PICK b \in Byte : file' = Append(file, b)
    BY <1>8 DEF Grow
  <2>2. /\ UNCHANGED <<source, lines, original, truncated, main, cursor, out, scan>>
        /\ source = "file" /\ main \notin {"success", "failure"}
    BY <1>8 DEF Grow, arguments, written, ProcessAlive
  <2>3. /\ initial' = initial /\ position' = position /\ found' = found /\ tail' = tail
        /\ original' = original /\ lines' = lines
    BY <2>2 DEF scan
  <2>4. TypeInv'
    <3>1. file' \in Seq(Byte)
      BY <2>1, AppendProperties DEF TailInv, TypeInv
    <3> QED BY <2>2, <2>3, <3>1 DEF TailInv, TypeInv
  <2>5. ASSUME ~truncated
        PROVE  (Grown => Grown') /\ (main = "follow" => Following')
    <3>1. TypeInv /\ (source = "file" /\ ~truncated => (main = "follow" => Following))
      BY DEF TailInv
    <3> QED BY <2>1, <2>2, <2>5, <3>1, GrowthKeeps
  <2>6. (Scanned => Scanned') /\ (Printable => Printable')
    <3>1. PrintedOf(original)' = PrintedOf(original)
      BY <2>3, PrintedOfUnchanged
    <3>2. Scanned => Scanned'
      BY <2>3 DEF Scanned, Kept, Count, Newlines
    <3>3. OnePiece => OnePiece'
      BY <2>3, <3>1 DEF OnePiece
    <3>4. Printable => Printable'
      BY <2>3, <3>1, <3>3 DEF Printable, Kept
    <3> QED BY <3>2, <3>4
  <2> QED BY <2>2, <2>4, <2>5, <2>6 DEF TailInv
<1>9. CASE Truncate
  <2>1. /\ UNCHANGED <<source, lines, original, main, scan, out>> /\ file' = <<>>
        /\ truncated' = (main # "open") /\ main \notin {"success", "failure"}
    BY <1>9 DEF Truncate, arguments, written, ProcessAlive
  <2>2. TypeInv'
    <3>1. file' \in Seq(Byte)
      BY <2>1, EmptySeq
    <3> QED BY <2>1, <3>1 DEF TailInv, TypeInv, scan
  <2> QED BY <2>1, <2>2 DEF TailInv
<1>10. CASE Ended
  BY <1>1, <1>10 DEF Ended
<1> QED BY <1>1, <1>2, <1>3, <1>4, <1>5, <1>6, <1>7, <1>8, <1>9, <1>10 DEF Next, Main

-----------------------------------------------------------------------------

\* The inductive invariant: what has been read backwards is the end of the file from
\* the position on, and what is printed while following goes on from there.
THEOREM TailInvHolds == Spec => []TailInv
BY TailInvInit, TailInvNext, PTL DEF Spec

\* The end of the last finished line is a place in the text, and no newline is after it.
LEMMA EndOfLinesFacts ==
  ASSUME NEW s \in Seq(Byte)
  PROVE  EndOfLines(s) \in Nat /\ \A i \in Newlines(s) : i <= EndOfLines(s)
<1> DEFINE T == Newlines(s) \cup {0}
<1>1. Len(s) \in Nat /\ T \subseteq 0..Len(s) /\ T # {}
  BY LenProperties DEF Newlines
<1>2. Newlines(s) \subseteq T /\ EndOfLines(s) = Max(T)
  BY DEF EndOfLines
<1> HIDE DEF T
<1> DEFINE m == Max(T)
<1>3. m \in T /\ \A i \in T : i <= m
  BY <1>1, MaxIsGreatest
<1> HIDE DEF m
<1>4. m \in Nat
  BY <1>1, <1>3
<1>5. EndOfLines(s) = m
  BY <1>2 DEF m
<1> QED BY <1>2, <1>3, <1>4, <1>5

\* The last lines of the file are printed, however long lines and blocks are.
THEOREM LastLinesArePrinted == Spec => []LastLinesPrinted
<1>1. TailInv => LastLinesPrinted
  <2> SUFFICES ASSUME TailInv, source = "file", ~truncated
               PROVE  /\ EndsInNewline(original) =>
                           /\ main = "success" => out = LastLines(original) /\ shown = Len(out)
                           /\ main = "follow" => IsPrefix(LastLines(original), out)
                      /\ main = "success" => IsSuffix(LastLines(original), out)
    BY DEF LastLinesPrinted
  <2>1. file \in Seq(Byte) /\ original \in Seq(Byte) /\ lines \in Nat
    BY DEF TailInv, TypeInv
  <2>2. /\ EndsInNewline(original) => PrintedOf(original) = LastLines(original)
        /\ IsSuffix(LastLines(original), PrintedOf(original))
    BY <2>1, PrintedAndLast
  <2>3. ASSUME main = "follow" PROVE IsPrefix(PrintedOf(original), out)
    <3>1. Following
      BY <2>3 DEF TailInv
    <3>2. PrintedOf(original) \in Seq(Byte)
      BY <2>1, <3>1, CutInTwo DEF Following, OnePiece
    <3>3. SubSeq(file, Len(original) + 1, cursor) \in Seq(Byte)
      <4>1. /\ Len(original) \in 0..Len(file) /\ cursor \in Len(original)..Len(file)
            /\ cursor \in cursor..Len(file)
        BY <2>1, <3>1, LenProperties DEF Following
      <4> QED BY <2>1, <4>1, AdjacentParts
    <3> QED BY <3>1, <3>2, <3>3, PrefixOfConcat DEF Following
  <2>4. ASSUME main = "success" PROVE Printed
    BY <2>4 DEF TailInv
  <2>5. ASSUME main = "success", EndsInNewline(original) PROVE shown = Len(out)
    <3>1. Printed
      BY <2>4, <2>5
    <3>2. PICK p \in 0..Len(original) : out = SubSeq(original, p + 1, Len(original))
      BY <3>1 DEF Printed, OnePiece
    <3>3. /\ out \in Seq(Byte) /\ Len(out) = Len(original) - p
          /\ \A i \in 1..(Len(original) - p) : out[i] = original[p + i]
          /\ Len(original) \in Nat
      BY <2>1, <3>2, CutInTwo, LenProperties
    <3>4. CASE p = Len(original)
      <4>1. Len(out) = 0 /\ Newlines(out) = {}
        BY <3>3, <3>4 DEF Newlines
      <4>2. EndOfLines(out) \in Nat
        BY <3>3, EndOfLinesFacts
      <4> QED BY <3>1, <4>1, <4>2 DEF Printed
    <3>5. CASE p # Len(original)
      <4>1. original[Len(original)] = "nl"
        <5>1. original # <<>>
          BY <3>3, <3>5, EmptySeq
        <5> QED BY <2>5, <5>1 DEF EndsInNewline, Last
      <4>2. Len(out) \in 1..(Len(original) - p) /\ p + Len(out) = Len(original) /\ Len(out) \in Nat
        BY <3>3, <3>5
      <4>3. out[Len(out)] = "nl"
        BY <3>3, <4>1, <4>2
      <4>4. Len(out) \in Newlines(out)
        BY <4>2, <4>3 DEF Newlines
      <4>5. EndOfLines(out) \in Nat /\ Len(out) <= EndOfLines(out)
        BY <3>3, <4>4, EndOfLinesFacts
      <4> QED BY <3>1, <4>2, <4>5 DEF Printed
    <3> QED BY <3>4, <3>5
  <2> QED BY <2>2, <2>3, <2>4, <2>5 DEF Printed
<1> QED BY <1>1, TailInvHolds, PTL

\* Nothing that is appended, from the moment the file was opened, is lost or
\* printed twice.
THEOREM NothingIsMissed == Spec => []NothingMissed
<1>1. TailInv => NothingMissed
  <2> SUFFICES ASSUME TailInv, main = "follow", ~truncated
               PROVE  /\ cursor >= Len(original)
                      /\ IsSuffix(SubSeq(file, Len(original) + 1, cursor), out)
                      /\ IsSuffix(SubSeq(out, 1, Len(out) - (cursor - Len(original))), original)
    BY DEF NothingMissed
  <2> DEFINE old == PrintedOf(original)
             new == SubSeq(file, Len(original) + 1, cursor)
  <2>1. Following /\ file \in Seq(Byte) /\ original \in Seq(Byte)
    BY DEF TailInv, TypeInv
  <2>2. /\ Len(original) <= cursor /\ cursor <= Len(file) /\ cursor \in Nat /\ out = old \o new
        /\ Len(original) \in Nat
    BY <2>1, LenProperties DEF Following
  <2>3. PICK p \in 0..Len(original) : old = SubSeq(original, p + 1, Len(original))
    BY <2>1 DEF Following, OnePiece
  <2>4. /\ SubSeq(original, 1, p) \in Seq(Byte) /\ old \in Seq(Byte)
        /\ original = SubSeq(original, 1, p) \o old
    BY <2>1, <2>3, CutInTwo, ZenonT(30)
  <2>5. new \in Seq(Byte) /\ Len(new) = cursor - Len(original)
    <3>1. /\ Len(original) \in 0..Len(file) /\ cursor \in Len(original)..Len(file)
          /\ cursor \in cursor..Len(file)
      BY <2>2
    <3> QED BY <2>1, <3>1, AdjacentParts
  <2> HIDE DEF old, new
  <2>6. IsSuffix(new, out)
    BY <2>2, <2>4, <2>5, SuffixOfConcat
  <2>7. IsSuffix(old, original)
    BY <2>4, SuffixOfConcat
  <2>8. SubSeq(out, 1, Len(out) - (cursor - Len(original))) = old
    <3>1. Len(out) = Len(old) + Len(new) /\ Len(old) \in Nat /\ Len(new) \in Nat
      BY <2>2, <2>4, <2>5, ConcatProperties, LenProperties
    <3>2. Len(out) - (cursor - Len(original)) = Len(old)
      BY <2>2, <2>5, <3>1
    <3>3. Len(old) \in 0..Len(old)
      BY <3>1
    <3>4. SubSeq(out, 1, Len(old)) = SubSeq(old, 1, Len(old))
      BY <2>2, <2>4, <2>5, <3>3, CutOfConcat
    <3>5. SubSeq(old, 1, Len(old)) = old
      BY <2>4, SubSeqFull
    <3> QED BY <3>2, <3>4, <3>5
  <2> QED BY <2>2, <2>6, <2>7, <2>8 DEF new
<1> QED BY <1>1, TailInvHolds, PTL
=============================================================================
