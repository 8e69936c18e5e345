----------------------------- MODULE DataLemmas -----------------------------
(***************************************************************************)
(* Facts about numbers, sequences, sums and recursively defined functions  *)
(* that the proofs of several components need.  Induction and recursion    *)
(* are stated with sets and functions instead of operators, so that they   *)
(* can be cited: the set of the numbers, or arguments, for which a claim   *)
(* holds stands for the claim.                                             *)
(***************************************************************************)
EXTENDS Integers, Sequences, FiniteSetsExt, SequencesExt, SequenceTheorems,
        FiniteSetTheorems, WellFoundedInduction, TLAPS

\* A set of naturals that is not empty has a least element.
LEMMA LeastElement ==
  ASSUME NEW T, T \subseteq Nat, T # {}
  PROVE  \E x \in T : \A y \in T : x <= y
<1> DEFINE R == {ss \in Nat \X Nat : ss[1] < ss[2]}
<1>1. IsWellFoundedOn(R, Nat)
  <2>1. OpToRel(<, Nat) = R
    BY DEF OpToRel
  <2> QED BY <2>1, NatLessThanWellFounded
<1>2. \E x \in T : \A y \in T : ~ (<<y, x>> \in R)
  <2> HIDE DEF R
  <2> QED BY <1>1, WFMin
<1>3. PICK x \in T : \A y \in T : ~ (<<y, x>> \in R)
  BY <1>2
<1>4. ASSUME NEW y \in T PROVE x <= y
  <2>1. <<y, x>> \in Nat \X Nat /\ <<y, x>>[1] = y /\ <<y, x>>[2] = x
    OBVIOUS
  <2>2. ~ (y < x)
    BY <1>3, <2>1
  <2> QED BY <2>2
<1> QED BY <1>4

\* A set that has 0, and n + 1 with every n, has all natural numbers.
LEMMA Induction ==
  ASSUME NEW P, 0 \in P, \A n \in Nat : n \in P => n + 1 \in P
  PROVE  \A n \in Nat : n \in P
<1> SUFFICES ASSUME NEW k \in Nat, k \notin P PROVE FALSE
  OBVIOUS
<1>1. PICK x \in Nat \ P : \A y \in Nat \ P : x <= y
  <2>1. Nat \ P \subseteq Nat /\ Nat \ P # {}
    OBVIOUS
  <2> QED BY <2>1, LeastElement
<1>2. x - 1 \in Nat /\ x - 1 \in P
  BY <1>1
<1> QED BY <1>1, <1>2

\* Induction on a size: a set that has every element of S of which it has all that
\* are smaller has every element of S.
LEMMA InductionOnSize ==
  ASSUME NEW S, NEW size \in [S -> Nat], NEW P,
         \A x \in S : (\A y \in S : size[y] < size[x] => y \in P) => x \in P
  PROVE  \A x \in S : x \in P
<1> DEFINE Q == {n \in Nat : \A x \in S : size[x] < n => x \in P}
<1>1. 0 \in Q
  OBVIOUS
<1>2. ASSUME NEW n \in Nat, n \in Q PROVE n + 1 \in Q
  <2>1. ASSUME NEW x \in S, size[x] < n + 1 PROVE x \in P
    <3>1. \A y \in S : size[y] < size[x] => size[y] < n
      BY <2>1
    <3> QED BY <1>2, <3>1
  <2> QED BY <2>1
<1>3. \A n \in Nat : n \in Q
  <2> HIDE DEF Q
  <2> QED BY <1>1, <1>2, Induction
<1>4. ASSUME NEW x \in S PROVE x \in P
  <2>1. size[x] + 1 \in Q /\ size[x] < size[x] + 1
    BY <1>3
  <2> QED BY <2>1
<1> QED BY <1>4

\* Min of FiniteSetsExt, of any set of naturals.
LEMMA MinIsLeast ==
  ASSUME NEW T, T \subseteq Nat, T # {}
  PROVE  Min(T) \in T /\ \A y \in T : Min(T) <= y
BY LeastElement DEF Min

\* Max of FiniteSetsExt, of a set of naturals that has a bound.
LEMMA MaxIsGreatest ==
  ASSUME NEW n \in Nat, NEW T, T \subseteq 0..n, T # {}
  PROVE  Max(T) \in T /\ \A y \in T : y <= Max(T)
<1> DEFINE M == {n - y : y \in T}
<1>1. M \subseteq Nat /\ M # {}
  <2>1. \A y \in T : n - y \in Nat
    OBVIOUS
  <2> QED BY <2>1
<1>2. PICK m \in M : \A k \in M : m <= k
  <2> HIDE DEF M
  <2> QED BY <1>1, LeastElement
<1>3. PICK x \in T : m = n - x
  BY <1>2
<1>4. ASSUME NEW y \in T PROVE x >= y
  <2>1. m <= n - y
    BY <1>2
  <2> QED BY <1>3, <2>1
<1>5. Max(T) \in T /\ \A y \in T : Max(T) >= y
  BY <1>4 DEF Max
<1> QED BY <1>5

-----------------------------------------------------------------------------

\* A definition of a function on S by recursion on a size: a base case has the value
\* base[x], any other argument one that is made of the value at a smaller argument.
RecursionOn(S, V, size, Base, base, smaller, step) ==
  /\ size \in [S -> Nat] /\ Base \in SUBSET S /\ base \in [Base -> V]
  /\ smaller \in [S \ Base -> S] /\ step \in [S \ Base -> [V -> V]]
  /\ \A x \in S \ Base : size[smaller[x]] < size[x]
Recursive(f, S, Base, base, smaller, step) ==
  \A x \in S : f[x] = IF x \in Base THEN base[x] ELSE step[x][f[smaller[x]]]

\* There is such a function.
LEMMA RecursiveFunctionExists ==
  ASSUME NEW S, NEW V, NEW size, NEW Base, NEW base, NEW smaller, NEW step,
         RecursionOn(S, V, size, Base, base, smaller, step)
  PROVE  \E f \in [S -> V] : Recursive(f, S, Base, base, smaller, step)
<1> USE DEF RecursionOn, Recursive
<1> DEFINE Below(n) == {x \in S : size[x] < n}
           Value(f, x) == IF x \in Base THEN base[x] ELSE step[x][f[smaller[x]]]
           Good(f, n) == f \in [Below(n) -> V] /\ \A x \in Below(n) : f[x] = Value(f, x)
           P == {n \in Nat : \E f \in [Below(n) -> V] : Good(f, n)}
<1>1. ASSUME NEW x \in S, NEW n \in Nat, x \in Below(n + 1), x \notin Base
      PROVE  smaller[x] \in Below(n)
  <2>1. smaller[x] \in S /\ size[smaller[x]] \in Nat /\ size[x] \in Nat
    BY <1>1
  <2>2. size[x] < n + 1 /\ size[smaller[x]] < size[x]
    BY <1>1
  <2> QED BY <2>1, <2>2
<1>2. \A n \in Nat : n \in P
  <2>1. 0 \in P
    <3>1. Below(0) = {}
      OBVIOUS
    <3>2. Good([x \in {} |-> x], 0)
      BY <3>1
    <3> QED BY <3>1, <3>2
  <2>2. ASSUME NEW n \in Nat, n \in P PROVE n + 1 \in P
    <3>1. PICK f \in [Below(n) -> V] : Good(f, n)
      BY <2>2
    <3> DEFINE g == [x \in Below(n + 1) |-> Value(f, x)]
    <3>2. g \in [Below(n + 1) -> V]
      <4>1. ASSUME NEW x \in Below(n + 1) PROVE Value(f, x) \in V
        <5>1. CASE x \in Base
          BY <5>1
        <5>2. CASE x \notin Base
          BY <1>1, <4>1, <5>2, <3>1
        <5> QED BY <5>1, <5>2
      <4> QED BY <4>1
    <3>3. \A x \in Below(n) : g[x] = f[x]
      BY <3>1
    <3>4. ASSUME NEW x \in Below(n + 1) PROVE g[x] = Value(g, x)
      BY <1>1, <3>3, <3>4
    <3>5. n + 1 \in Nat /\ Good(g, n + 1)
      <4> HIDE DEF g, Value, Below
      <4> QED BY <3>2, <3>4
    <3> QED BY <3>2, <3>5
  <2> HIDE DEF P
  <2> QED BY <2>1, <2>2, Induction
<1>3. ASSUME NEW m \in Nat, NEW n \in Nat, NEW f, NEW g, Good(f, m), Good(g, n)
      PROVE  \A x \in Below(m) \cap Below(n) : f[x] = g[x]
  <2> DEFINE Q == {k \in Nat : \A x \in Below(m) \cap Below(n) : size[x] < k => f[x] = g[x]}
  <2>1. 0 \in Q
    OBVIOUS
  <2>2. ASSUME NEW k \in Nat, k \in Q PROVE k + 1 \in Q
    <3>1. ASSUME NEW x \in Below(m) \cap Below(n), size[x] < k + 1 PROVE f[x] = g[x]
      <4>1. CASE x \in Base
        BY <1>3, <4>1
      <4>2. CASE x \notin Base
        <5>1. /\ smaller[x] \in S /\ size[smaller[x]] < size[x]
              /\ size[smaller[x]] \in Nat /\ size[x] \in Nat
          BY <4>2
        <5>2. smaller[x] \in Below(m) \cap Below(n) /\ size[smaller[x]] < k
          BY <5>1, <3>1
        <5>3. f[smaller[x]] = g[smaller[x]]
          BY <5>2, <2>2
        <5> QED BY <1>3, <4>2, <5>3
      <4> QED BY <4>1, <4>2
    <3> QED BY <3>1
  <2>3. \A k \in Nat : k \in Q
    <3> HIDE DEF Q
    <3> QED BY <2>1, <2>2, Induction
  <2>4. ASSUME NEW x \in Below(m) \cap Below(n) PROVE f[x] = g[x]
    <3>1. size[x] + 1 \in Q /\ size[x] < size[x] + 1
      BY <2>3
    <3> QED BY <3>1
  <2> QED BY <2>4
<1> DEFINE part == [n \in Nat |-> CHOOSE f \in [Below(n) -> V] : Good(f, n)]
           whole == [x \in S |-> part[size[x] + 1][x]]
<1>4. \A n \in Nat : Good(part[n], n)
  BY <1>2
<1>5. ASSUME NEW x \in S, NEW n \in Nat, x \in Below(n) PROVE whole[x] = part[n][x]
  <2>1. size[x] + 1 \in Nat /\ x \in Below(size[x] + 1)
    OBVIOUS
  <2> HIDE DEF part
  <2>2. whole[x] = part[size[x] + 1][x]
    OBVIOUS
  <2> HIDE DEF whole, Good, Below
  <2> QED BY <1>3, <1>4, <1>5, <2>1, <2>2
<1>6. ASSUME NEW x \in S PROVE whole[x] \in V /\ whole[x] = Value(whole, x)
  <2> DEFINE n == size[x] + 1
  <2>1. n \in Nat /\ x \in Below(n)
    BY SMTT(30)
  <2>2. Good(part[n], n)
    BY <2>1, <1>4
  <2> HIDE DEF part, n
  <2>3. whole[x] = part[n][x] /\ part[n][x] \in V /\ part[n][x] = Value(part[n], x)
    BY <1>5, <2>1, <2>2
  <2>4. CASE x \in Base
    BY <2>3, <2>4
  <2>5. CASE x \notin Base
    <3>1. smaller[x] \in Below(n)
      BY <2>1, <2>5 
    <3>2. whole[smaller[x]] = part[n][smaller[x]]
      BY <1>5, <2>1, <3>1
    <3> QED BY <2>3, <2>5, <3>2
  <2> QED BY <2>4, <2>5
<1>7. whole \in [S -> V] /\ \A x \in S : whole[x] = Value(whole, x)
  <2> HIDE DEF Value
  <2>1. whole \in [S -> V]
    BY <1>6 DEF whole
  <2> HIDE DEF whole
  <2> QED BY <1>6, <2>1
<1> QED BY <1>7

\* The case of a loop, whose result is that of the argument it goes on with.
LoopOn(S, V, size, Base, base, next) ==
  /\ size \in [S -> Nat] /\ Base \in SUBSET S /\ base \in [Base -> V]
  /\ next \in [S \ Base -> S] /\ \A x \in S \ Base : size[next[x]] < size[x]
LoopsBy(f, S, Base, base, next) ==
  \A x \in S : f[x] = IF x \in Base THEN base[x] ELSE f[next[x]]

\* A loop whose states become smaller defines a function.
LEMMA LoopExists ==
  ASSUME NEW S, NEW V, NEW size, NEW Base, NEW base, NEW next,
         LoopOn(S, V, size, Base, base, next)
  PROVE  \E f \in [S -> V] : LoopsBy(f, S, Base, base, next)
<1> USE DEF LoopOn, LoopsBy
<1> DEFINE step == [x \in S \ Base |-> [v \in V |-> v]]
<1>1. step \in [S \ Base -> [V -> V]]
  OBVIOUS
<1>2. \A x \in S \ Base, v \in V : step[x][v] = v
  OBVIOUS
<1> HIDE DEF step
<1>3. RecursionOn(S, V, size, Base, base, next, step)
  BY <1>1 DEF RecursionOn
<1>4. PICK f \in [S -> V] : Recursive(f, S, Base, base, next, step)
  BY <1>3, RecursiveFunctionExists
<1>5. ASSUME NEW x \in S PROVE f[x] = IF x \in Base THEN base[x] ELSE f[next[x]]
  <2>1. CASE x \in Base
    BY <1>4, <2>1 DEF Recursive
  <2>2. CASE x \notin Base
    <3>1. f[x] = step[x][f[next[x]]]
      BY <1>4, <2>2 DEF Recursive
    <3>2. next[x] \in S
      BY <2>2
    <3> QED BY <1>2, <2>2, <3>1, <3>2
  <2> QED BY <2>1, <2>2
<1> QED BY <1>5

-----------------------------------------------------------------------------
(* Sequences. *)

\* A sequence is what it is up to a position, and what follows.
LEMMA CutInTwo ==
  ASSUME NEW E, NEW s \in Seq(E), NEW n \in 0..Len(s)
  PROVE  /\ SubSeq(s, 1, n) \in Seq(E) /\ Len(SubSeq(s, 1, n)) = n
         /\ \A i \in 1..n : SubSeq(s, 1, n)[i] = s[i]
         /\ SubSeq(s, n + 1, Len(s)) \in Seq(E)
         /\ Len(SubSeq(s, n + 1, Len(s))) = Len(s) - n
         /\ \A i \in 1..(Len(s) - n) : SubSeq(s, n + 1, Len(s))[i] = s[n + i]
         /\ SubSeq(s, 1, n) \o SubSeq(s, n + 1, Len(s)) = s
<1>1. Len(s) \in Nat /\ n \in Nat /\ n <= Len(s)
  BY LenProperties
<1>2. \A i \in 1..Len(s) : s[i] \in E
  BY ElementOfSeq
<1> DEFINE front == SubSeq(s, 1, n)
           rest == SubSeq(s, n + 1, Len(s))
<1>3. front \in Seq(E) /\ Len(front) = n /\ \A i \in 1..n : front[i] = s[i]
  <2>1. \A i \in 1..n : s[i] \in E
    BY <1>1, <1>2
  <2>2. /\ front \in Seq(E) /\ Len(front) = IF 1 <= n THEN n - 1 + 1 ELSE 0
        /\ \A i \in 1..(n - 1 + 1) : front[i] = s[1 + i - 1]
    BY <1>1, <2>1, SubSeqProperties
  <2> HIDE DEF front
  <2> QED BY <1>1, <2>2
<1>4. /\ rest \in Seq(E) /\ Len(rest) = Len(s) - n
      /\ \A i \in 1..(Len(s) - n) : rest[i] = s[n + i]
  <2>1. \A i \in (n + 1)..Len(s) : s[i] \in E
    BY <1>1, <1>2
  <2>2. /\ rest \in Seq(E)
        /\ Len(rest) = IF n + 1 <= Len(s) THEN Len(s) - (n + 1) + 1 ELSE 0
        /\ \A i \in 1..(Len(s) - (n + 1) + 1) : rest[i] = s[(n + 1) + i - 1]
    BY <1>1, <2>1, SubSeqProperties
  <2> HIDE DEF rest
  <2> QED BY <1>1, <2>2
<1> HIDE DEF front, rest
<1>5. front \o rest = s
  <2>1. /\ front \o rest \in Seq(E) /\ Len(front \o rest) = Len(s)
        /\ \A i \in 1..Len(s) : (front \o rest)[i] = IF i <= n THEN front[i] ELSE rest[i - n]
    BY <1>1, <1>3, <1>4, ConcatProperties
  <2>2. ASSUME NEW i \in 1..Len(s) PROVE (front \o rest)[i] = s[i]
    <3>1. CASE i <= n
      BY <1>1, <1>3, <2>1, <3>1
    <3>2. CASE n < i
      <4>1. i - n \in 1..(Len(s) - n) /\ n + (i - n) = i
        BY <1>1, <3>2
      <4> QED BY <1>1, <1>4, <2>1, <3>2, <4>1
    <3>3. i <= n \/ n < i
      BY <1>1
    <3> QED BY <3>1, <3>2, <3>3
  <2> QED BY <2>1, <2>2, SeqEqual
<1> QED BY <1>3, <1>4, <1>5 DEF front, rest

\* Cutting the first of two sequences cuts the two together.
LEMMA CutOfConcat ==
  ASSUME NEW E, NEW s \in Seq(E), NEW r \in Seq(E), NEW n \in 0..Len(s)
  PROVE  /\ SubSeq(s \o r, 1, n) = SubSeq(s, 1, n)
         /\ SubSeq(s \o r, n + 1, Len(s \o r)) = SubSeq(s, n + 1, Len(s)) \o r
<1> DEFINE t == s \o r
           rest == SubSeq(s, n + 1, Len(s))
<1>1. /\ t \in Seq(E) /\ Len(t) = Len(s) + Len(r)
      /\ \A i \in 1..(Len(s) + Len(r)) : t[i] = IF i <= Len(s) THEN s[i] ELSE r[i - Len(s)]
      /\ Len(s) \in Nat /\ Len(r) \in Nat /\ n \in 0..Len(t)
  BY ConcatProperties, LenProperties
<1> HIDE DEF t
<1>2. SubSeq(t, 1, n) = SubSeq(s, 1, n)
  <2>1. /\ SubSeq(s, 1, n) \in Seq(E) /\ Len(SubSeq(s, 1, n)) = n
        /\ \A i \in 1..n : SubSeq(s, 1, n)[i] = s[i]
    BY CutInTwo
  <2>2. /\ SubSeq(t, 1, n) \in Seq(E) /\ Len(SubSeq(t, 1, n)) = n
        /\ \A i \in 1..n : SubSeq(t, 1, n)[i] = t[i]
    BY <1>1, CutInTwo
  <2>3. \A i \in 1..n : s[i] = t[i]
    BY <1>1
  <2> QED BY <2>1, <2>2, <2>3, SeqEqual
<1>3. SubSeq(t, n + 1, Len(t)) = rest \o r
  <2> DEFINE after == SubSeq(t, n + 1, Len(t))
  <2>1. /\ rest \in Seq(E) /\ Len(rest) = Len(s) - n
        /\ \A i \in 1..(Len(s) - n) : rest[i] = s[n + i]
    BY CutInTwo
  <2>2. /\ after \in Seq(E) /\ Len(after) = Len(t) - n
        /\ \A i \in 1..(Len(t) - n) : after[i] = t[n + i]
    BY <1>1, CutInTwo
  <2> HIDE DEF rest, after
  <2>3. /\ rest \o r \in Seq(E) /\ Len(rest \o r) = Len(t) - n
        /\ \A i \in 1..(Len(t) - n) :
             (rest \o r)[i] = IF i <= Len(s) - n THEN rest[i] ELSE r[i - (Len(s) - n)]
    <3>1. /\ rest \o r \in Seq(E) /\ Len(rest \o r) = Len(rest) + Len(r)
          /\ \A i \in 1..(Len(rest) + Len(r)) :
               (rest \o r)[i] = IF i <= Len(rest) THEN rest[i] ELSE r[i - Len(rest)]
      BY <2>1, ConcatProperties
    <3>2. Len(rest) + Len(r) = Len(t) - n
      BY <1>1, <2>1
    <3> QED BY <2>1, <3>1, <3>2
  <2>4. ASSUME NEW i \in 1..(Len(t) - n) PROVE after[i] = (rest \o r)[i]
    <3>1. n + i \in 1..(Len(s) + Len(r)) /\ i - (Len(s) - n) = (n + i) - Len(s)
      BY <1>1
    <3>2. CASE i <= Len(s) - n
      <4>1. n + i <= Len(s) /\ i \in 1..(Len(s) - n)
        BY <1>1, <3>2
      <4>2. after[i] = s[n + i]
        BY <1>1, <2>2, <3>1, <4>1
      <4> QED BY <2>1, <2>3, <3>2, <4>1, <4>2
    <3>3. CASE ~ (i <= Len(s) - n)
      <4>1. ~ (n + i <= Len(s))
        BY <1>1, <3>3
      <4>2. after[i] = r[(n + i) - Len(s)]
        BY <1>1, <2>2, <3>1, <4>1
      <4> QED BY <2>3, <3>1, <3>3, <4>2
    <3> QED BY <3>2, <3>3
  <2>5. after = rest \o r
    BY <1>1, <2>2, <2>3, <2>4, SeqEqual
  <2> QED BY <2>5 DEF after
<1> QED BY <1>2, <1>3 DEF t

\* Cutting off the first of two sequences leaves the second.
LEMMA RestOfConcat ==
  ASSUME NEW E, NEW s \in Seq(E), NEW r \in Seq(E)
  PROVE  SubSeq(s \o r, Len(s) + 1, Len(s \o r)) = r
<1>1. Len(s) \in Nat /\ Len(s) \in 0..Len(s)
  BY LenProperties
<1>2. SubSeq(s \o r, Len(s) + 1, Len(s \o r)) = SubSeq(s, Len(s) + 1, Len(s)) \o r
  BY <1>1, CutOfConcat
<1>3. SubSeq(s, Len(s) + 1, Len(s)) = <<>>
  BY <1>1, SubSeqEmpty
<1> QED BY <1>2, <1>3, ConcatEmptySeq

\* A part of the first of two sequences is that part of the two together.
LEMMA PartOfConcat ==
  ASSUME NEW E, NEW s \in Seq(E), NEW r \in Seq(E),
         NEW m \in 1..(Len(s) + 1), NEW n \in 0..Len(s)
  PROVE  SubSeq(s \o r, m, n) = SubSeq(s, m, n)
<1>1. Len(s) \in Nat /\ m \in Int /\ n \in Int
  BY LenProperties
<1>2. CASE m <= n
  <2>1. m \in 1..Len(s) /\ n \in 1..Len(s)
    BY <1>1, <1>2
  <2> QED BY <2>1, SubSeqOfConcat1
<1>3. CASE n < m
  BY <1>1, <1>3, SubSeqEmpty
<1> QED BY <1>1, <1>2, <1>3

\* Two adjacent parts.
LEMMA AdjacentParts ==
  ASSUME NEW E, NEW s \in Seq(E), NEW m \in 0..Len(s), NEW k \in m..Len(s), NEW n \in k..Len(s)
  PROVE  /\ SubSeq(s, m + 1, k) \in Seq(E) /\ Len(SubSeq(s, m + 1, k)) = k - m
         /\ SubSeq(s, m + 1, k) \o SubSeq(s, k + 1, n) = SubSeq(s, m + 1, n)
<1>1. /\ Len(s) \in Nat /\ m \in Nat /\ k \in Nat /\ n \in Nat
      /\ m + 1 \in 1..(Len(s) + 1) /\ k \in ((m + 1) - 1)..Len(s)
      /\ m + 1 \in Int /\ k \in Int
  BY LenProperties
<1>2. SubSeq(s, m + 1, k) \o SubSeq(s, k + 1, n) = SubSeq(s, m + 1, n)
  BY <1>1, ConcatAdjacentSubSeq
<1>3. \A i \in (m + 1)..k : s[i] \in E
  BY <1>1, ElementOfSeq
<1>4. /\ SubSeq(s, m + 1, k) \in Seq(E)
      /\ Len(SubSeq(s, m + 1, k)) = IF m + 1 <= k THEN k - (m + 1) + 1 ELSE 0
  BY <1>1, <1>3, SubSeqProperties
<1>5. Len(SubSeq(s, m + 1, k)) = k - m
  <2> DEFINE l == Len(SubSeq(s, m + 1, k))
  <2>1. l = IF m + 1 <= k THEN k - (m + 1) + 1 ELSE 0
    BY <1>4
  <2> HIDE DEF l
  <2> QED BY <1>1, <2>1 DEF l
<1> QED BY <1>2, <1>4, <1>5

\* What a sequence begins with.
LEMMA PrefixOfConcat ==
  ASSUME NEW E, NEW s \in Seq(E), NEW r \in Seq(E)
  PROVE  IsPrefix(s, s \o r)
<1>1. Len(s) \in 0..Len(s) /\ Len(s) <= Len(s \o r)
  BY ConcatProperties, LenProperties
<1>2. SubSeq(s \o r, 1, Len(s)) = SubSeq(s, 1, Len(s))
  BY <1>1, CutOfConcat
<1> QED BY <1>1, <1>2 DEF IsPrefix

\* Appending to the second of two sequences appends to both together.
LEMMA ConcatAppend ==
  ASSUME NEW E, NEW a \in Seq(E), NEW b \in Seq(E), NEW x \in E
  PROVE  a \o Append(b, x) = Append(a \o b, x) /\ a \o b \in Seq(E)
<1>1. a \o b \in Seq(E) /\ <<x>> \in Seq(E)
  BY ConcatProperties
<1>2. (a \o b) \o <<x>> = a \o (b \o <<x>>)
  BY <1>1, ConcatAssociative
<1>3. Append(a \o b, x) = (a \o b) \o <<x>> /\ Append(b, x) = b \o <<x>>
  BY <1>1, AppendIsConcat
<1> QED BY <1>1, <1>2, <1>3

\* When an element of a sequence is replaced, what is before it and after it stays.
LEMMA ReplaceAround ==
  ASSUME NEW E, NEW s \in Seq(E), NEW i \in 1..Len(s), NEW x \in E
  PROVE  [s EXCEPT ![i] = x] = (SubSeq(s, 1, i - 1) \o <<x>>) \o SubSeq(s, i + 1, Len(s))
<1> DEFINE front == SubSeq(s, 1, i - 1)
           back == SubSeq(s, i + 1, Len(s))
           t == [s EXCEPT ![i] = x]
<1>1. Len(s) \in Nat /\ i \in Nat /\ i - 1 \in 0..Len(s) /\ i \in 0..Len(s) /\ s[i] \in E
  BY LenProperties, ElementOfSeq
<1>2. /\ front \in Seq(E) /\ Len(front) = i - 1
      /\ \A j \in 1..(i - 1) : front[j] = s[j]
  BY <1>1, CutInTwo
<1>3. /\ back \in Seq(E) /\ Len(back) = Len(s) - i
      /\ \A j \in 1..(Len(s) - i) : back[j] = s[i + j]
  BY <1>1, CutInTwo
<1>4. /\ t \in Seq(E) /\ Len(t) = Len(s)
      /\ \A j \in 1..Len(s) : t[j] = IF j = i THEN x ELSE s[j]
  BY ExceptSeq
<1> HIDE DEF front, back, t
<1>5. ASSUME NEW y \in E
      PROVE  /\ (front \o <<y>>) \o back \in Seq(E) /\ Len((front \o <<y>>) \o back) = Len(s)
             /\ \A j \in 1..Len(s) : ((front \o <<y>>) \o back)[j] = IF j = i THEN y ELSE s[j]
  <2>1. <<y>> \in Seq(E) /\ Len(<<y>>) = 1 /\ <<y>>[1] = y
    OBVIOUS
  <2> DEFINE a == front \o <<y>>
             b == a \o back
  <2>2. /\ a \in Seq(E) /\ Len(a) = i
        /\ \A j \in 1..i : a[j] = IF j = i THEN y ELSE s[j]
    <3>1. /\ a \in Seq(E) /\ Len(a) = Len(front) + 1
          /\ \A j \in 1..(Len(front) + 1) : a[j] = IF j <= Len(front) THEN front[j] ELSE <<y>>[j - Len(front)]
      BY <1>2, <2>1, ConcatProperties
    <3> HIDE DEF a
    <3> QED BY <1>1, <1>2, <2>1, <3>1, SMTT(30)
  <2> HIDE DEF a
  <2>3. /\ b \in Seq(E) /\ Len(b) = Len(a) + Len(back)
        /\ \A j \in 1..(Len(a) + Len(back)) : b[j] = IF j <= Len(a) THEN a[j] ELSE back[j - Len(a)]
    BY <1>3, <2>2, ConcatProperties
  <2> HIDE DEF b
  <2>4. /\ b \in Seq(E) /\ Len(b) = Len(s)
        /\ \A j \in 1..Len(s) : b[j] = IF j = i THEN y ELSE s[j]
    BY <1>1, <1>3, <2>2, <2>3
  <2> QED BY <2>4 DEF a, b
<1>6. t = (front \o <<x>>) \o back
  <2>1. \A j \in 1..Len(t) : t[j] = ((front \o <<x>>) \o back)[j]
    BY <1>4, <1>5
  <2>2. (front \o <<x>>) \o back \in Seq(E) /\ Len((front \o <<x>>) \o back) = Len(t)
    BY <1>4, <1>5
  <2> QED BY <1>4, <2>1, <2>2, SeqEqual
<1> QED BY <1>6 DEF front, back, t

\* A sequence is what is before an element, that element, and what is after it.
LEMMA SplitAround ==
  ASSUME NEW E, NEW s \in Seq(E), NEW i \in 1..Len(s)
  PROVE  s = (SubSeq(s, 1, i - 1) \o <<s[i]>>) \o SubSeq(s, i + 1, Len(s))
<1>1. s[i] \in E
  BY ElementOfSeq
<1>2. [s EXCEPT ![i] = s[i]] = s
  BY LenProperties
<1>3. [s EXCEPT ![i] = s[i]] = (SubSeq(s, 1, i - 1) \o <<s[i]>>) \o SubSeq(s, i + 1, Len(s))
  BY <1>1, ReplaceAround
<1> QED BY <1>2, <1>3

-----------------------------------------------------------------------------
(* FlattenSeq. *)

\* Its recursive function, the prefixes of the result.
LEMMA FlattenFunction ==
  ASSUME NEW D, NEW s \in Seq(Seq(D)), s # <<>>
  PROVE  \E f \in [1..Len(s) -> Seq(D)] :
           /\ f[1] = s[1]
           /\ \A i \in 2..Len(s) : f[i] = f[i - 1] \o s[i]
           /\ FlattenSeq(s) = f[Len(s)]
<1> DEFINE S == 1..Len(s)
           V == Seq(D)
           size == [i \in S |-> i]
           Base == {1}
           base == [i \in Base |-> s[1]]
           smaller == [i \in S \ Base |-> i - 1]
           step == [i \in S \ Base |-> [v \in V |-> v \o s[i]]]
           Is(f) == f = [i \in S |-> IF i = 1 THEN s[i] ELSE f[i - 1] \o s[i]]
<1>1. Len(s) \in Nat \ {0} /\ \A i \in S : s[i] \in V
  BY EmptySeq, ElementOfSeq
<1>2. RecursionOn(S, V, size, Base, base, smaller, step)
  <2>1. size \in [S -> Nat] /\ Base \in SUBSET S /\ base \in [Base -> V]
    BY <1>1
  <2>2. smaller \in [S \ Base -> S] /\ \A x \in S \ Base : size[smaller[x]] < size[x]
    BY <1>1
  <2>3. ASSUME NEW i \in S \ Base, NEW v \in V PROVE v \o s[i] \in V
    BY <1>1, ConcatProperties
  <2>4. step \in [S \ Base -> [V -> V]]
    BY <2>3
  <2> HIDE DEF S, V, size, Base, base, smaller, step
  <2> QED BY <2>1, <2>2, <2>4 DEF RecursionOn
<1>3. PICK f \in [S -> V] : Recursive(f, S, Base, base, smaller, step)
  <2> HIDE DEF S, V, size, Base, base, smaller, step
  <2> QED BY <1>2, RecursiveFunctionExists
<1>4. Is(f)
  <2>1. \A i \in S \ Base : i - 1 \in S
    BY <1>1
  <2>2. ASSUME NEW i \in S
        PROVE  f[i] = IF i = 1 THEN s[i] ELSE f[i - 1] \o s[i]
    <3> HIDE DEF V
    <3>1. CASE i = 1
      BY <1>3, <3>1 DEF Recursive
    <3>2. CASE i # 1
      <4>1. i \in S \ Base /\ i - 1 \in S /\ f[i - 1] \in V
        BY <2>1, <3>2
      <4>2. f[i] = step[i][f[smaller[i]]] /\ smaller[i] = i - 1
        BY <1>3, <4>1 DEF Recursive
      <4>3. step[i][f[i - 1]] = f[i - 1] \o s[i]
        BY <4>1
      <4> QED BY <3>2, <4>2, <4>3
    <3> QED BY <3>1, <3>2
  <2> HIDE DEF V, S
  <2> QED BY <2>2
<1> DEFINE flatten == CHOOSE g : Is(g)
<1>5. Is(flatten)
  <2> HIDE DEF Is
  <2> QED BY <1>4
<1>6. FlattenSeq(s) = flatten[Len(s)]
  BY <1>1 DEF FlattenSeq
<1> HIDE DEF flatten
<1>7. /\ DOMAIN flatten = S /\ flatten[1] = s[1]
      /\ \A i \in 2..Len(s) : flatten[i] = flatten[i - 1] \o s[i]
  <2>1. 1 \in S /\ \A i \in 2..Len(s) : i \in S /\ i # 1
    BY <1>1
  <2> HIDE DEF S
  <2> QED BY <1>5, <2>1
<1>8. \A n \in Nat : n + 1 \in S => flatten[n + 1] \in V
  <2> DEFINE P == {n \in Nat : n + 1 \in S => flatten[n + 1] \in V}
  <2>1. 0 \in P
    BY <1>1, <1>7
  <2>2. ASSUME NEW n \in Nat, n \in P PROVE n + 1 \in P
    <3>1. CASE n + 2 \in S
      <4>1. n + 1 \in S /\ n + 2 \in 2..Len(s) /\ (n + 2) - 1 = n + 1
        BY <1>1, <3>1
      <4>2. flatten[n + 2] = flatten[n + 1] \o s[n + 2]
        BY <1>7, <4>1
      <4>3. flatten[n + 1] \in Seq(D) /\ s[n + 2] \in Seq(D)
        BY <1>1, <2>2, <3>1, <4>1
      <4>4. (n + 1) + 1 = n + 2 /\ flatten[n + 2] \in V
        BY <4>2, <4>3, ConcatProperties
      <4> QED BY <4>4
    <3> QED BY <3>1
  <2> HIDE DEF P
  <2>3. \A n \in Nat : n \in P
    BY <2>1, <2>2, Induction
  <2> QED BY <2>3 DEF P
<1>9. flatten \in [S -> V]
  <2>1. ASSUME NEW i \in S PROVE flatten[i] \in V
    <3>1. i - 1 \in Nat /\ (i - 1) + 1 = i
      OBVIOUS
    <3> QED BY <1>8, <3>1
  <2> HIDE DEF V
  <2> QED BY <1>5, <2>1
<1> QED BY <1>6, <1>7, <1>9

\* Flattening nothing.
LEMMA FlattenEmpty == FlattenSeq(<<>>) = <<>>
BY DEF FlattenSeq

\* Flattening gives a sequence of the elements.
LEMMA FlattenType ==
  ASSUME NEW D, NEW s \in Seq(Seq(D))
  PROVE  FlattenSeq(s) \in Seq(D)
<1>1. CASE s = <<>>
  BY <1>1, FlattenEmpty, EmptySeq
<1>2. CASE s # <<>>
  <2>1. Len(s) \in 1..Len(s)
    BY <1>2, EmptySeq
  <2>2. PICK f \in [1..Len(s) -> Seq(D)] : FlattenSeq(s) = f[Len(s)]
    BY <1>2, FlattenFunction
  <2> QED BY <2>1, <2>2
<1> QED BY <1>1, <1>2

\* Flattening with one more piece at the end.
LEMMA FlattenAppend ==
  ASSUME NEW D, NEW s \in Seq(Seq(D)), NEW x \in Seq(D)
  PROVE  FlattenSeq(Append(s, x)) = FlattenSeq(s) \o x
<1> DEFINE t == Append(s, x)
<1>1. /\ t \in Seq(Seq(D)) /\ t # <<>> /\ Len(t) = Len(s) + 1 /\ t[Len(t)] = x
      /\ \A i \in 1..Len(s) : t[i] = s[i]
      /\ Len(s) \in Nat
  BY AppendProperties, EmptySeq
<1> HIDE DEF t
<1>2. PICK g \in [1..Len(t) -> Seq(D)] :
        /\ g[1] = t[1]
        /\ \A i \in 2..Len(t) : g[i] = g[i - 1] \o t[i]
        /\ FlattenSeq(t) = g[Len(t)]
  BY <1>1, FlattenFunction
<1>3. CASE s = <<>>
  BY <1>1, <1>2, <1>3, FlattenEmpty DEF t
<1>4. CASE s # <<>>
  <2>1. PICK f \in [1..Len(s) -> Seq(D)] :
          /\ f[1] = s[1]
          /\ \A i \in 2..Len(s) : f[i] = f[i - 1] \o s[i]
          /\ FlattenSeq(s) = f[Len(s)]
    BY <1>4, FlattenFunction
  <2> DEFINE P == {n \in Nat : n + 1 <= Len(s) => f[n + 1] = g[n + 1]}
  <2>2. 0 \in P
    BY <1>1, <1>2, <2>1
  <2>3. ASSUME NEW n \in Nat, n \in P PROVE n + 1 \in P
    <3>1. CASE n + 2 <= Len(s)
      <4>1. n + 2 \in 2..Len(s) /\ n + 2 \in 2..Len(t) /\ n + 2 \in 1..Len(s) /\ (n + 2) - 1 = n + 1
        BY <3>1, <1>1
      <4>2. f[n + 2] = f[n + 1] \o s[n + 2] /\ g[n + 2] = g[n + 1] \o t[n + 2]
        BY <1>2, <2>1, <4>1
      <4>3. f[n + 1] = g[n + 1] /\ t[n + 2] = s[n + 2]
        BY <1>1, <2>3, <3>1, <4>1
      <4>4. (n + 1) + 1 = n + 2 /\ f[n + 2] = g[n + 2]
        BY <4>2, <4>3
      <4> QED BY <4>4
    <3> QED BY <3>1
  <2>4. \A n \in Nat : n \in P
    <3> HIDE DEF P
    <3> QED BY <2>2, <2>3, Induction
  <2>5. Len(s) - 1 \in Nat
    BY <1>4, <1>1
  <2>6. f[Len(s)] = g[Len(s)]
    <3>1. (Len(s) - 1) + 1 = Len(s) /\ Len(s) <= Len(s)
      BY <1>1
    <3> QED BY <2>4, <2>5, <3>1
  <2>7. Len(t) \in 2..Len(t) /\ Len(t) - 1 = Len(s)
    BY <1>1, <2>5
  <2>8. g[Len(t)] = g[Len(s)] \o t[Len(t)]
    BY <1>2, <2>7
  <2> QED BY <1>1, <1>2, <2>1, <2>6, <2>8 DEF t
<1> QED BY <1>3, <1>4 DEF t

\* Moving the first piece of what is left to what has been flattened changes nothing.
LEMMA FlattenMove ==
  ASSUME NEW D, NEW s \in Seq(Seq(D)), NEW x \in Seq(D), NEW y \in Seq(D)
  PROVE  FlattenSeq(Append(s, x)) \o y = FlattenSeq(s) \o (x \o y)
<1>1. FlattenSeq(s) \in Seq(D)
  BY FlattenType
<1>2. FlattenSeq(Append(s, x)) = FlattenSeq(s) \o x
  BY FlattenAppend
<1>3. (FlattenSeq(s) \o x) \o y = FlattenSeq(s) \o (x \o y)
  BY <1>1, ConcatAssociative
<1> QED BY <1>2, <1>3

\* A sequence that is not empty is its front and its last element.
LEMMA FrontOf ==
  ASSUME NEW E, NEW s \in Seq(E), s # <<>>
  PROVE  LET t == SubSeq(s, 1, Len(s) - 1)
         IN  /\ t \in Seq(E) /\ Len(t) = Len(s) - 1 /\ \A i \in 1..(Len(s) - 1) : t[i] = s[i]
             /\ s = Append(t, s[Len(s)]) /\ s[Len(s)] \in E /\ Len(s) \in Nat \ {0}
<1> DEFINE n == Len(s)
           t == SubSeq(s, 1, n - 1)
<1>1. n \in Nat \ {0} /\ s[n] \in E /\ \A i \in 1..(n - 1) : s[i] \in E
  BY EmptySeq, ElementOfSeq
<1>2. t \in Seq(E) /\ Len(t) = n - 1 /\ \A i \in 1..(n - 1) : t[i] = s[i]
  <2>1. n - 1 \in Int /\ 1 \in Int /\ n \in Int /\ n >= 1
    BY <1>1
  <2> HIDE DEF n
  <2>2. /\ t \in Seq(E) /\ Len(t) = IF 1 <= n - 1 THEN (n - 1) - 1 + 1 ELSE 0
        /\ \A i \in 1..((n - 1) - 1 + 1) : t[i] = s[1 + i - 1]
    BY <1>1, <2>1, SubSeqProperties
  <2>3. Len(t) = n - 1
    BY <2>1, <2>2
  <2>4. ASSUME NEW i \in 1..(n - 1) PROVE t[i] = s[i]
    <3>1. i \in 1..((n - 1) - 1 + 1) /\ 1 + i - 1 = i
      BY <2>1
    <3> QED BY <2>2, <3>1
  <2> QED BY <2>2, <2>3, <2>4
<1> HIDE DEF t
<1>3. /\ Append(t, s[n]) \in Seq(E) /\ Len(Append(t, s[n])) = n
      /\ \A i \in 1..n : Append(t, s[n])[i] = s[i]
  BY <1>1, <1>2, AppendProperties
<1>4. s = Append(t, s[n])
  BY <1>3, SeqEqual
<1> QED BY <1>1, <1>2, <1>4 DEF t

\* Such a front and last element exist.
LEMMA FrontAndLast ==
  ASSUME NEW E, NEW s \in Seq(E), s # <<>>
  PROVE  \E t \in Seq(E), x \in E : s = Append(t, x) /\ Len(s) = Len(t) + 1
<1> DEFINE n == Len(s)
           t == SubSeq(s, 1, n - 1)
<1>1. t \in Seq(E) /\ Len(t) = n - 1 /\ s = Append(t, s[n]) /\ s[n] \in E /\ n \in Nat \ {0}
  BY FrontOf
<1> HIDE DEF t, n
<1>2. n = Len(t) + 1
  BY <1>1
<1> QED BY <1>1, <1>2 DEF n

\* Flattening two sequences of pieces together.
LEMMA FlattenConcat ==
  ASSUME NEW D, NEW a \in Seq(Seq(D)), NEW b \in Seq(Seq(D))
  PROVE  FlattenSeq(a \o b) = FlattenSeq(a) \o FlattenSeq(b)
<1> DEFINE E == Seq(D)
           Holds(t) == FlattenSeq(a \o t) = FlattenSeq(a) \o FlattenSeq(t)
           S == Seq(E)
           size == [t \in S |-> Len(t)]
           P == {t \in S : Holds(t)}
<1>1. size \in [S -> Nat]
  BY LenProperties
<1>2. FlattenSeq(a) \in Seq(D) /\ \A t \in S : FlattenSeq(t) \in Seq(D)
  BY FlattenType
<1>3. ASSUME NEW t \in S, \A u \in S : size[u] < size[t] => u \in P
      PROVE  t \in P
  <2>1. CASE t = <<>>
    <3>1. a \o t = a /\ FlattenSeq(a) \o <<>> = FlattenSeq(a)
      BY <1>2, <2>1, ConcatEmptySeq
    <3> QED BY <2>1, <3>1, FlattenEmpty
  <2>2. CASE t # <<>>
    <3>1. PICK u \in S, x \in E : t = Append(u, x) /\ Len(t) = Len(u) + 1
      BY <2>2, FrontAndLast
    <3>2. u \in P
      <4>1. Len(u) \in Nat /\ Len(u) < Len(t)
        BY <3>1, LenProperties
      <4> QED BY <1>3, <4>1
    <3>3. a \o t = Append(a \o u, x) /\ a \o u \in S
      BY <3>1, ConcatAppend, SMTT(30)
    <3>4. FlattenSeq(a \o t) = FlattenSeq(a \o u) \o x
      BY <3>3, FlattenAppend
    <3>5. FlattenSeq(t) = FlattenSeq(u) \o x
      BY <3>1, FlattenAppend
    <3>6. (FlattenSeq(a) \o FlattenSeq(u)) \o x = FlattenSeq(a) \o (FlattenSeq(u) \o x)
      <4>1. FlattenSeq(u) \in Seq(D) /\ x \in Seq(D)
        BY <1>2
      <4>2. \A p, q, r \in Seq(D) : (p \o q) \o r = p \o (q \o r)
        <5> HIDE DEF S, E, P, size
        <5> TAKE p, q, r \in Seq(D)
        <5> QED BY ConcatAssociative, SMTT(30)
      <4> QED BY <1>2, <4>1, <4>2, ZenonT(30)
    <3> QED BY <3>2, <3>4, <3>5, <3>6
  <2> QED BY <2>1, <2>2
<1>4. \A t \in S : t \in P
  <2> HIDE DEF P, size, S
  <2> QED BY <1>1, <1>3, InductionOnSize
<1> QED BY <1>4

\* Flattening with one more piece at the front.
LEMMA FlattenCons ==
  ASSUME NEW D, NEW x \in Seq(D), NEW s \in Seq(Seq(D))
  PROVE  FlattenSeq(<<x>> \o s) = x \o FlattenSeq(s)
<1> DEFINE Holds(t) == FlattenSeq(<<x>> \o t) = x \o FlattenSeq(t)
           P == {n \in Nat : \A t \in Seq(Seq(D)) : Len(t) = n => Holds(t)}
<1>1. <<x>> \in Seq(Seq(D)) /\ <<>> \in Seq(Seq(D)) /\ <<>> \in Seq(D)
  BY EmptySeq
<1>2. FlattenSeq(<<x>>) = x
  <2>1. Append(<<>>, x) = <<x>>
    OBVIOUS
  <2>2. FlattenSeq(Append(<<>>, x)) = <<>> \o x
    BY <1>1, FlattenAppend, FlattenEmpty
  <2> QED BY <2>1, <2>2, ConcatEmptySeq
<1>3. 0 \in P
  <2>1. ASSUME NEW t \in Seq(Seq(D)), Len(t) = 0
        PROVE  Holds(t)
    <3>1. t = <<>>
      BY <2>1, EmptySeq
    <3>2. <<x>> \o t = <<x>> /\ x \o <<>> = x
      BY <1>1, <3>1, ConcatEmptySeq
    <3> QED BY <1>2, <3>1, <3>2, FlattenEmpty
  <2> HIDE DEF Holds
  <2> QED BY <2>1
<1>4. ASSUME NEW n \in Nat, n \in P PROVE n + 1 \in P
  <2>1. ASSUME NEW t \in Seq(Seq(D)), Len(t) = n + 1
        PROVE  Holds(t)
    <3>1. t # <<>>
      BY <2>1, EmptySeq
    <3>2. PICK u \in Seq(Seq(D)), y \in Seq(D) : t = Append(u, y) /\ Len(t) = Len(u) + 1
      BY <3>1, FrontAndLast
    <3>3. Len(u) = n
      BY <2>1, <3>2, LenProperties
    <3>4. FlattenSeq(<<x>> \o u) = x \o FlattenSeq(u)
      BY <1>4, <3>3
    <3>5. <<x>> \o u \in Seq(Seq(D)) /\ <<x>> \o t = Append(<<x>> \o u, y)
      BY <1>1, <3>2, ConcatProperties, SMTT(30)
    <3>6. FlattenSeq(<<x>> \o t) = (x \o FlattenSeq(u)) \o y
      BY <3>4, <3>5, FlattenAppend
    <3>7. FlattenSeq(u) \in Seq(D) /\ FlattenSeq(t) = FlattenSeq(u) \o y
      BY <3>2, FlattenType, FlattenAppend
    <3>8. (x \o FlattenSeq(u)) \o y = x \o (FlattenSeq(u) \o y)
      BY <3>7, ConcatAssociative, SMTT(30)
    <3> QED BY <3>6, <3>7, <3>8
  <2> HIDE DEF Holds
  <2> QED BY <2>1
<1>5. \A n \in Nat : n \in P
  <2> HIDE DEF P
  <2> QED BY <1>3, <1>4, Induction
<1> QED BY <1>5, LenProperties

\* Sequences that are all empty.
LEMMA FlattenEmpties ==
  ASSUME NEW D
  PROVE  \A h \in Seq(Seq(D)) : (\A i \in 1..Len(h) : h[i] = <<>>) => FlattenSeq(h) = <<>>
<1> DEFINE S == Seq(Seq(D))
           size == [h \in S |-> Len(h)]
           Empties(h) == \A i \in 1..Len(h) : h[i] = <<>>
           P == {h \in S : Empties(h) => FlattenSeq(h) = <<>>}
<1>1. size \in [S -> Nat]
  BY LenProperties
<1>2. ASSUME NEW h \in S, \A u \in S : size[u] < size[h] => u \in P
      PROVE  h \in P
  <2> SUFFICES ASSUME Empties(h) PROVE FlattenSeq(h) = <<>>
    OBVIOUS
  <2>1. CASE h = <<>>
    BY <2>1, FlattenEmpty
  <2>2. CASE h # <<>>
    <3>1. PICK u \in S, x \in Seq(D) : h = Append(u, x) /\ Len(h) = Len(u) + 1
      BY <2>2, FrontAndLast
    <3>2. Len(u) \in Nat /\ h[Len(u) + 1] = x /\ \A i \in 1..Len(u) : h[i] = u[i]
      BY <3>1, AppendProperties, LenProperties
    <3>3. Len(u) + 1 \in 1..Len(h) /\ \A i \in 1..Len(u) : i \in 1..Len(h)
      BY <3>1, <3>2
    <3>4. x = <<>> /\ Empties(u)
      BY <3>2, <3>3
    <3>5. u \in P
      BY <1>2, <3>1, <3>2
    <3>6. FlattenSeq(h) = FlattenSeq(u) \o x
      BY <3>1, FlattenAppend
    <3>7. FlattenSeq(u) = <<>> /\ <<>> \in Seq(D)
      BY <3>4, <3>5, EmptySeq
    <3> QED BY <3>4, <3>6, <3>7, ConcatEmptySeq
  <2> QED BY <2>1, <2>2
<1>3. \A h \in S : h \in P
  <2> HIDE DEF P, size, S
  <2> QED BY <1>1, <1>2, InductionOnSize
<1> QED BY <1>3

\* Flattening each of them first makes no difference.
LEMMA FlattenTwice ==
  ASSUME NEW D
  PROVE  \A g \in Seq(Seq(Seq(D))) :
           FlattenSeq([i \in 1..Len(g) |-> FlattenSeq(g[i])]) = FlattenSeq(FlattenSeq(g))
<1> DEFINE B == Seq(D)
           C == Seq(B)
           S == Seq(C)
           Each(g) == [i \in 1..Len(g) |-> FlattenSeq(g[i])]
           size == [g \in S |-> Len(g)]
           P == {g \in S : FlattenSeq(Each(g)) = FlattenSeq(FlattenSeq(g))}
<1>1. size \in [S -> Nat]
  BY LenProperties
<1>2. \A x \in C : FlattenSeq(x) \in B
  BY FlattenType
<1>3. ASSUME NEW g \in S PROVE Each(g) \in C /\ Len(Each(g)) = Len(g)
  <2>1. Len(g) \in Nat /\ \A i \in 1..Len(g) : g[i] \in C
    BY ElementOfSeq, LenProperties
  <2>2. \A i \in 1..Len(g) : FlattenSeq(g[i]) \in B
    BY <1>2, <2>1
  <2> HIDE DEF B
  <2> QED BY <2>1, <2>2
<1>4. ASSUME NEW u \in S, NEW x \in C
      PROVE  Each(Append(u, x)) = Append(Each(u), FlattenSeq(x))
  <2> DEFINE n == Len(u)
             t == Append(u, x)
             v == Each(t)
             y == Each(u)
             z == FlattenSeq(x)
  <2>1. /\ t \in S /\ Len(t) = n + 1 /\ n \in Nat
        /\ t[n + 1] = x /\ \A i \in 1..n : t[i] = u[i]
    BY AppendProperties, LenProperties
  <2>2. v \in C /\ Len(v) = n + 1 /\ y \in C /\ Len(y) = n
    BY <1>3, <2>1
  <2>3. /\ \A i \in 1..n : v[i] = FlattenSeq(u[i]) /\ y[i] = FlattenSeq(u[i])
        /\ v[n + 1] = z /\ z \in B
    BY <1>2, <2>1
  <2> HIDE DEF n, v, y, z, B
  <2>4. /\ Append(y, z) \in C /\ Len(Append(y, z)) = n + 1
        /\ Append(y, z)[n + 1] = z /\ \A i \in 1..n : Append(y, z)[i] = y[i]
    BY <2>2, <2>3, AppendProperties
  <2>5. \A i \in 1..(n + 1) : i \in 1..n \/ i = n + 1
    BY <2>1
  <2>6. v = Append(y, z)
    BY <2>2, <2>3, <2>4, <2>5, SeqEqual
  <2> QED BY <2>6 DEF v, y, z
<1> HIDE DEF Each
<1>5. ASSUME NEW g \in S, \A u \in S : size[u] < size[g] => u \in P
      PROVE  g \in P
  <2>1. CASE g = <<>>
    <3>1. Each(<<>>) = <<>>
      BY DEF Each
    <3> QED BY <2>1, <3>1, FlattenEmpty
  <2>2. CASE g # <<>>
    <3>1. PICK u \in S, x \in C : g = Append(u, x) /\ Len(g) = Len(u) + 1
      BY <2>2, FrontAndLast
    <3>2. u \in P
      <4>1. Len(u) \in Nat /\ Len(u) < Len(g)
        BY <3>1, LenProperties
      <4> QED BY <1>5, <4>1
    <3>3. Each(g) = Append(Each(u), FlattenSeq(x)) /\ Each(u) \in C /\ FlattenSeq(x) \in B
      BY <1>2, <1>3, <1>4, <3>1
    <3>4. FlattenSeq(Each(g)) = FlattenSeq(Each(u)) \o FlattenSeq(x)
      BY <3>3, FlattenAppend
    <3>5. FlattenSeq(g) = FlattenSeq(u) \o x /\ FlattenSeq(u) \in C
      <4>1. \A y \in S : FlattenSeq(y) \in Seq(B)
        BY FlattenType
      <4> QED BY <3>1, <4>1, FlattenAppend
    <3>6. FlattenSeq(FlattenSeq(u) \o x) = FlattenSeq(FlattenSeq(u)) \o FlattenSeq(x)
      BY <3>5, FlattenConcat
    <3> QED BY <3>2, <3>4, <3>5, <3>6
  <2> QED BY <2>1, <2>2
<1>6. \A g \in S : g \in P
  <2> HIDE DEF P, size, S
  <2> QED BY <1>1, <1>5, InductionOnSize
<1> QED BY <1>6 DEF Each

-----------------------------------------------------------------------------
(* Reverse. *)

\* Element i of a reversed sequence is the i-th from the end.
LEMMA ReverseType ==
  ASSUME NEW E, NEW s \in Seq(E)
  PROVE  /\ Reverse(s) \in Seq(E) /\ Len(Reverse(s)) = Len(s)
         /\ \A i \in 1..Len(s) : Reverse(s)[i] = s[Len(s) - i + 1]
<1>1. Len(s) \in Nat /\ \A i \in 1..Len(s) : s[i] \in E
  BY ElementOfSeq, LenProperties
<1>2. \A i \in 1..Len(s) : s[Len(s) - i + 1] \in E
  <2>1. ASSUME NEW i \in 1..Len(s) PROVE Len(s) - i + 1 \in 1..Len(s)
    BY <1>1
  <2> QED BY <1>1, <2>1
<1>3. Reverse(s) = [i \in 1..Len(s) |-> s[Len(s) - i + 1]]
  BY DEF Reverse
<1> QED BY <1>1, <1>2, <1>3

\* Reversing two sequences together reverses each, and their order.
LEMMA ReverseConcat ==
  ASSUME NEW E, NEW s \in Seq(E), NEW r \in Seq(E)
  PROVE  Reverse(s \o r) = Reverse(r) \o Reverse(s)
<1> DEFINE n == Len(s)
           m == Len(r)
           both == s \o r
           ends == Reverse(s)
           starts == Reverse(r)
           left == Reverse(both)
           right == starts \o ends
<1>0. /\ \A x \in Seq(E) : /\ Reverse(x) \in Seq(E) /\ Len(Reverse(x)) = Len(x)
                           /\ \A i \in 1..Len(x) : Reverse(x)[i] = x[Len(x) - i + 1]
      /\ \A x, y \in Seq(E) : /\ x \o y \in Seq(E) /\ Len(x \o y) = Len(x) + Len(y)
                              /\ \A i \in 1..(Len(x) + Len(y)) :
                                   (x \o y)[i] = IF i <= Len(x) THEN x[i] ELSE y[i - Len(x)]
  BY ReverseType, ConcatProperties
<1>1. n \in Nat /\ m \in Nat
  BY LenProperties
<1>2. /\ both \in Seq(E) /\ Len(both) = n + m
      /\ \A i \in 1..(n + m) : both[i] = IF i <= n THEN s[i] ELSE r[i - n]
  BY <1>0
<1>4. /\ ends \in Seq(E) /\ Len(ends) = n /\ \A i \in 1..n : ends[i] = s[n - i + 1]
      /\ starts \in Seq(E) /\ Len(starts) = m /\ \A i \in 1..m : starts[i] = r[m - i + 1]
  BY <1>0
<1> HIDE DEF n, m, both, ends, starts
<1>3. left \in Seq(E) /\ Len(left) = n + m /\ \A i \in 1..(n + m) : left[i] = both[n + m - i + 1]
  <2>1. /\ left \in Seq(E) /\ Len(left) = Len(both)
        /\ \A i \in 1..Len(both) : left[i] = both[Len(both) - i + 1]
    BY <1>0, <1>2, Zenon
  <2> HIDE DEF left
  <2> QED BY <1>1, <1>2, <2>1
<1>5. /\ right \in Seq(E) /\ Len(right) = m + n
      /\ \A i \in 1..(m + n) : right[i] = IF i <= m THEN starts[i] ELSE ends[i - m]
  BY <1>0, <1>4
<1> HIDE DEF left, right
<1>6. ASSUME NEW i \in 1..(n + m) PROVE left[i] = right[i]
  <2>1. n + m - i + 1 \in 1..(n + m) /\ i \in 1..(m + n)
    BY <1>1
  <2>2. CASE i <= m
    <3>1. i \in 1..m /\ ~(n + m - i + 1 <= n) /\ (n + m - i + 1) - n = m - i + 1
      BY <1>1, <2>2
    <3>2. left[i] = r[m - i + 1]
      BY <1>2, <1>3, <2>1, <3>1
    <3>3. right[i] = r[m - i + 1]
      BY <1>4, <1>5, <2>1, <2>2, <3>1
    <3> QED BY <3>2, <3>3
  <2>3. CASE i > m
    <3>1. i - m \in 1..n /\ n + m - i + 1 <= n /\ ~(i <= m) /\ n - (i - m) + 1 = n + m - i + 1
      BY <1>1, <2>3
    <3>2. left[i] = s[n + m - i + 1]
      BY <1>2, <1>3, <2>1, <3>1
    <3>3. right[i] = s[n - (i - m) + 1]
      BY <1>4, <1>5, <2>1, <3>1
    <3> QED BY <3>1, <3>2, <3>3
  <2>4. i <= m \/ i > m
    BY <1>1
  <2> QED BY <2>2, <2>3, <2>4
<1>7. left = right
  <2>1. Len(left) = Len(right) /\ \A i \in 1..Len(left) : left[i] = right[i]
    BY <1>1, <1>3, <1>5, <1>6
  <2> QED BY <1>3, <1>5, <2>1, SeqEqual
<1> QED BY <1>7 DEF left, right, both, ends, starts

\* Reversing with one more element at the end.
LEMMA ReverseAppend ==
  ASSUME NEW E, NEW s \in Seq(E), NEW x \in E
  PROVE  Reverse(Append(s, x)) = <<x>> \o Reverse(s)
<1>1. Append(s, x) = s \o <<x>> /\ <<x>> \in Seq(E) /\ Len(<<x>>) = 1 /\ <<x>>[1] = x
  BY AppendIsConcat
<1>2. Reverse(<<x>>) = <<x>>
  <2>1. Reverse(<<x>>) = [i \in 1..1 |-> <<x>>[1 - i + 1]]
    BY <1>1 DEF Reverse
  <2>2. \A i \in 1..1 : <<x>>[1 - i + 1] = x
    OBVIOUS
  <2> QED BY <2>1, <2>2
<1>3. Reverse(s \o <<x>>) = Reverse(<<x>>) \o Reverse(s)
  BY <1>1, ReverseConcat
<1> QED BY <1>1, <1>2, <1>3

\* What a sequence ends with.
LEMMA SuffixOfConcat ==
  ASSUME NEW E, NEW s \in Seq(E), NEW r \in Seq(E)
  PROVE  IsSuffix(r, s \o r)
<1>1. Reverse(s) \in Seq(E) /\ Reverse(r) \in Seq(E)
  BY ReverseType
<1>2. IsPrefix(Reverse(r), Reverse(r) \o Reverse(s))
  BY <1>1, PrefixOfConcat
<1>3. Reverse(s \o r) = Reverse(r) \o Reverse(s)
  BY ReverseConcat
<1> QED BY <1>2, <1>3 DEF IsSuffix

-----------------------------------------------------------------------------
(* Sums over finite sets. *)

\* The sum of the values that a function has on a set.
SumOver(g, S) == MapThenSumSet(LAMBDA x : g[x], S)

\* The function that MapThenFoldSet makes of the subsets of a set.
SumBody(g, f, S) ==
  [s \in SUBSET S |-> IF s = {} THEN 0
                      ELSE LET x == CHOOSE x \in s : TRUE IN g[x] + f[s \ {x}]]

\* It exists.
LEMMA SumRecursion ==
  ASSUME NEW S, IsFiniteSet(S), NEW g, \A x \in S : g[x] \in Nat
  PROVE  \E f \in [SUBSET S -> Nat] : f = SumBody(g, f, S) /\ SumOver(g, S) = f[S]
<1> DEFINE D == SUBSET S
           size == [s \in D |-> Cardinality(s)]
           Base == {{}}
           base == [s \in Base |-> 0]
           first(s) == CHOOSE x \in s : TRUE
           smaller == [s \in D \ Base |-> s \ {first(s)}]
           step == [s \in D \ Base |-> [v \in Nat |-> g[first(s)] + v]]
<1>1. \A s \in D \ Base : first(s) \in s
  OBVIOUS
<1>2. size \in [D -> Nat] /\ Base \in SUBSET D /\ base \in [Base -> Nat]
  <2>1. \A s \in D : Cardinality(s) \in Nat
    BY FS_Subset, FS_CardinalityType
  <2> QED BY <2>1
<1>3. smaller \in [D \ Base -> D]
  OBVIOUS
<1>4. \A s \in D \ Base : size[smaller[s]] < size[s]
  <2> SUFFICES ASSUME NEW s \in D \ Base PROVE size[smaller[s]] < size[s]
    OBVIOUS
  <2>1. IsFiniteSet(s) /\ first(s) \in s /\ Cardinality(s) \in Nat
    BY <1>1, FS_Subset, FS_CardinalityType
  <2> HIDE DEF first
  <2>2. Cardinality(s \ {first(s)}) = Cardinality(s) - 1
    BY <2>1, FS_RemoveElement
  <2>3. smaller[s] = s \ {first(s)} /\ smaller[s] \in D
    OBVIOUS
  <2> QED BY <2>1, <2>2, <2>3
<1>5. step \in [D \ Base -> [Nat -> Nat]]
  <2>1. \A s \in D \ Base : g[first(s)] \in Nat
    BY <1>1
  <2> HIDE DEF first
  <2>2. \A s \in D \ Base, v \in Nat : g[first(s)] + v \in Nat
    BY <2>1
  <2> QED BY <2>2
<1>6. PICK f \in [D -> Nat] : Recursive(f, D, Base, base, smaller, step)
  <2>1. RecursionOn(D, Nat, size, Base, base, smaller, step)
    <3> HIDE DEF D, size, Base, base, smaller, step
    <3> QED BY <1>2, <1>3, <1>4, <1>5 DEF RecursionOn
  <2> HIDE DEF D, size, Base, base, smaller, step
  <2> QED BY <2>1, RecursiveFunctionExists
<1>7. f = SumBody(g, f, S)
  <2>1. \A s \in D : f[s] = IF s \in Base THEN base[s] ELSE step[s][f[smaller[s]]]
    BY <1>6 DEF Recursive
  <2>2. ASSUME NEW s \in D, s # {} PROVE f[s] = g[first(s)] + f[s \ {first(s)}]
    <3>1. s \notin Base /\ smaller[s] = s \ {first(s)} /\ s \ {first(s)} \in D
      BY <2>2
    <3>2. f[s] = step[s][f[s \ {first(s)}]]
      BY <2>1, <3>1
    <3>3. f[s \ {first(s)}] \in Nat
      BY <1>6, <3>1
    <3> QED BY <3>1, <3>2, <3>3
  <2>3. f[{}] = 0
    BY <2>1
  <2>4. \A s \in D : f[s] = IF s = {} THEN 0 ELSE g[first(s)] + f[s \ {first(s)}]
    BY <2>2, <2>3
  <2>5. f = [s \in D |-> f[s]]
    BY <1>6
  <2> QED BY <2>4, <2>5 DEF SumBody
<1> DEFINE chosen == CHOOSE h : h = SumBody(g, h, S)
<1>8. chosen = SumBody(g, chosen, S)
  <2>1. \E h : h = SumBody(g, h, S)
    BY <1>7
  <2> QED BY <2>1, Zenon
<1>9. SumOver(g, S) = chosen[S]
  BY DEF SumOver, MapThenSumSet, MapThenFoldSet, SumBody
<1> HIDE DEF chosen
<1>10. \A s \in D : chosen[s] = f[s]
  <2> DEFINE P == {s \in D : chosen[s] = f[s]}
  <2>1. ASSUME NEW s \in D, \A r \in D : size[r] < size[s] => r \in P PROVE s \in P
    <3>1. CASE s = {}
      <4>1. chosen[s] = 0
        BY <1>8, <3>1 DEF SumBody
      <4>2. f[s] = 0
        BY <1>7, <3>1 DEF SumBody
      <4> QED BY <4>1, <4>2
    <3>2. CASE s # {}
      <4>1. chosen[s] = g[first(s)] + chosen[s \ {first(s)}]
        BY <1>8, <3>2 DEF SumBody
      <4>2. f[s] = g[first(s)] + f[s \ {first(s)}]
        BY <1>7, <3>2 DEF SumBody
      <4>3. s \ {first(s)} \in D /\ size[s \ {first(s)}] < size[s]
        <5>1. s \in D \ Base
          BY <3>2
        <5>2. smaller[s] = s \ {first(s)}
          BY <5>1
        <5> QED BY <1>4, <5>1, <5>2
      <4> QED BY <2>1, <4>1, <4>2, <4>3
    <3> QED BY <3>1, <3>2
  <2> HIDE DEF P, D, size
  <2>2. \A s \in D : s \in P
    BY <1>2, <2>1, InductionOnSize
  <2> QED BY <2>2 DEF P
<1>11. chosen = f
  <2>1. chosen = [s \in D |-> chosen[s]]
    BY <1>8 DEF SumBody
  <2>2. f = [s \in D |-> f[s]]
    BY <1>6
  <2> HIDE DEF D
  <2> QED BY <1>10, <2>1, <2>2
<1> QED BY <1>6, <1>7, <1>9, <1>11

\* The sum over nothing, and over a set in terms of the element that is taken first.
LEMMA SumOfFirst ==
  ASSUME NEW S, IsFiniteSet(S), NEW g, \A x \in S : g[x] \in Nat
  PROVE  /\ SumOver(g, S) \in Nat
         /\ S = {} => SumOver(g, S) = 0
         /\ S # {} => LET x == CHOOSE x \in S : TRUE
                      IN  SumOver(g, S) = g[x] + SumOver(g, S \ {x})
<1> PICK f \in [SUBSET S -> Nat] : f = SumBody(g, f, S) /\ SumOver(g, S) = f[S]
  BY SumRecursion
<1>1. SumOver(g, S) \in Nat /\ (S = {} => SumOver(g, S) = 0)
  BY DEF SumBody
<1>2. ASSUME NEW T \in SUBSET S PROVE SumOver(g, T) = f[T]
  <2>1. IsFiniteSet(T) /\ \A x \in T : g[x] \in Nat
    BY FS_Subset
  <2>2. PICK h \in [SUBSET T -> Nat] : h = SumBody(g, h, T) /\ SumOver(g, T) = h[T]
    BY <2>1, SumRecursion
  <2> DEFINE D == SUBSET T
             first(s) == CHOOSE x \in s : TRUE
             size == [s \in D |-> Cardinality(s)]
             P == {s \in D : h[s] = f[s]}
  <2>3. \A s \in D : IsFiniteSet(s) /\ Cardinality(s) \in Nat
    BY <2>1, FS_Subset, FS_CardinalityType
  <2>4. size \in [D -> Nat]
    BY <2>3
  <2>5. ASSUME NEW s \in D, \A r \in D : size[r] < size[s] => r \in P PROVE s \in P
    <3>1. CASE s = {}
      BY <2>2, <3>1 DEF SumBody
    <3>2. CASE s # {}
      <4>1. h[s] = g[first(s)] + h[s \ {first(s)}]
        BY <2>2, <3>2 DEF SumBody
      <4>2. f[s] = g[first(s)] + f[s \ {first(s)}]
        BY <3>2 DEF SumBody
      <4>3. first(s) \in s
        BY <3>2
      <4> HIDE DEF first
      <4>4. s \ {first(s)} \in D /\ Cardinality(s \ {first(s)}) = Cardinality(s) - 1
        BY <2>3, <4>3, FS_RemoveElement
      <4>5. size[s \ {first(s)}] < size[s]
        BY <2>3, <4>4
      <4> HIDE DEF size, D
      <4> QED BY <2>5, <4>1, <4>2, <4>4, <4>5
    <3> QED BY <3>1, <3>2
  <2> HIDE DEF P, D, size
  <2>6. \A s \in D : s \in P
    BY <2>4, <2>5, InductionOnSize
  <2> QED BY <2>2, <2>6 DEF P, D
<1>3. ASSUME S # {}
      PROVE  LET x == CHOOSE x \in S : TRUE IN SumOver(g, S) = g[x] + SumOver(g, S \ {x})
  <2> DEFINE x == CHOOSE x \in S : TRUE
  <2>1. f[S] = g[x] + f[S \ {x}]
    BY <1>3 DEF SumBody
  <2>2. S \ {x} \in SUBSET S
    OBVIOUS
  <2>3. SumOver(g, S \ {x}) = f[S \ {x}]
    BY <1>2, <2>2
  <2> QED BY <2>1, <2>3
<1> QED BY <1>1, <1>3

\* Whichever element is taken out.
LEMMA SumRemove ==
  ASSUME NEW S, IsFiniteSet(S), NEW g, \A x \in S : g[x] \in Nat, NEW x \in S
  PROVE  SumOver(g, S) = g[x] + SumOver(g, S \ {x})
<1> DEFINE D == SUBSET S
           size == [s \in D |-> Cardinality(s)]
           P == {s \in D : \A y \in s : SumOver(g, s) = g[y] + SumOver(g, s \ {y})}
<1>1. \A s \in D : IsFiniteSet(s) /\ Cardinality(s) \in Nat /\ \A y \in s : g[y] \in Nat
  BY FS_Subset, FS_CardinalityType
<1>2. size \in [D -> Nat]
  BY <1>1
<1>3. \A s \in D : \A y \in s : s \ {y} \in D /\ size[s \ {y}] < size[s]
  <2> SUFFICES ASSUME NEW s \in D, NEW y \in s
               PROVE  s \ {y} \in D /\ size[s \ {y}] < size[s]
    OBVIOUS
  <2>1. s \ {y} \in D /\ Cardinality(s \ {y}) = Cardinality(s) - 1
    BY <1>1, FS_RemoveElement
  <2> QED BY <1>1, <2>1
<1>4. \A s \in D : SumOver(g, s) \in Nat
  BY <1>1, SumOfFirst
<1>5. ASSUME NEW s \in D, \A r \in D : size[r] < size[s] => r \in P PROVE s \in P
  <2> SUFFICES ASSUME NEW y \in s PROVE SumOver(g, s) = g[y] + SumOver(g, s \ {y})
    OBVIOUS
  <2> DEFINE z == CHOOSE z \in s : TRUE
  <2>1. z \in s /\ SumOver(g, s) = g[z] + SumOver(g, s \ {z})
    BY <1>1, SumOfFirst
  <2> HIDE DEF z
  <2>2. CASE y = z
    BY <2>1, <2>2
  <2>3. CASE y # z
    <3>1. y \in s \ {z} /\ z \in s \ {y} /\ (s \ {z}) \ {y} = (s \ {y}) \ {z}
      BY <2>1, <2>3
    <3>2. s \ {z} \in P /\ s \ {y} \in P
      <4> HIDE DEF size, P
      <4> QED BY <1>3, <1>5, <2>1
    <3>3. /\ SumOver(g, s \ {z}) = g[y] + SumOver(g, (s \ {z}) \ {y})
          /\ SumOver(g, s \ {y}) = g[z] + SumOver(g, (s \ {y}) \ {z})
      BY <3>1, <3>2
    <3>4. g[y] \in Nat /\ g[z] \in Nat /\ (s \ {y}) \ {z} \in D
      BY <1>1, <2>1
    <3>5. SumOver(g, (s \ {y}) \ {z}) \in Nat
      BY <1>4, <3>4
    <3> HIDE DEF D, size, P
    <3>6. \A a, b, c \in Nat : a + (b + c) = b + (a + c)
      OBVIOUS
    <3> QED BY <2>1, <3>1, <3>3, <3>4, <3>5, <3>6
  <2> QED BY <2>2, <2>3
<1> HIDE DEF P, size
<1>6. \A s \in D : s \in P
  <2> HIDE DEF D
  <2> QED BY <1>2, <1>5, InductionOnSize
<1> QED BY <1>6 DEF P

\* One element more.
LEMMA SumAdd ==
  ASSUME NEW S, IsFiniteSet(S), NEW x, x \notin S, NEW g, \A y \in S \cup {x} : g[y] \in Nat
  PROVE  SumOver(g, S \cup {x}) = SumOver(g, S) + g[x]
<1>1. IsFiniteSet(S \cup {x}) /\ (S \cup {x}) \ {x} = S
  BY FS_AddElement
<1>2. SumOver(g, S \cup {x}) = g[x] + SumOver(g, S)
  BY <1>1, SumRemove
<1>3. SumOver(g, S) \in Nat /\ g[x] \in Nat
  BY SumOfFirst
<1> QED BY <1>2, <1>3

\* Only the values on the set matter.
LEMMA SumSame ==
  ASSUME NEW S, IsFiniteSet(S), NEW g, NEW h, \A x \in S : g[x] \in Nat /\ g[x] = h[x]
  PROVE  SumOver(g, S) = SumOver(h, S)
<1> DEFINE D == SUBSET S
           size == [s \in D |-> Cardinality(s)]
           P == {s \in D : SumOver(g, s) = SumOver(h, s)}
<1>1. \A s \in D : IsFiniteSet(s) /\ Cardinality(s) \in Nat
                    /\ \A y \in s : g[y] \in Nat /\ h[y] \in Nat
  BY FS_Subset, FS_CardinalityType
<1>2. size \in [D -> Nat]
  BY <1>1
<1>3. ASSUME NEW s \in D, \A r \in D : size[r] < size[s] => r \in P PROVE s \in P
  <2>1. CASE s = {}
    BY <1>1, <2>1, SumOfFirst
  <2>2. CASE s # {}
    <3> PICK y \in s : TRUE
      BY <2>2
    <3>1. s \ {y} \in D /\ Cardinality(s \ {y}) = Cardinality(s) - 1
      BY <1>1, FS_RemoveElement
    <3>2. size[s \ {y}] < size[s]
      BY <1>1, <3>1
    <3>3. SumOver(g, s \ {y}) = SumOver(h, s \ {y})
      BY <1>3, <3>1, <3>2
    <3>4. /\ SumOver(g, s) = g[y] + SumOver(g, s \ {y})
          /\ SumOver(h, s) = h[y] + SumOver(h, s \ {y})
      BY <1>1, SumRemove
    <3> QED BY <3>3, <3>4
  <2> QED BY <2>1, <2>2
<1> HIDE DEF P, size
<1>4. \A s \in D : s \in P
  <2> HIDE DEF D
  <2> QED BY <1>2, <1>3, InductionOnSize
<1> QED BY <1>4 DEF P
=============================================================================
