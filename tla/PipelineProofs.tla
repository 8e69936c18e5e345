--------------------------- MODULE PipelineProofs ----------------------------
(***************************************************************************)
(* What `filter FILE... | sponge` makes of its inputs, for every set of    *)
(* commands, targets and files and every size of the blocks.               *)
(***************************************************************************)
EXTENDS Pipeline, DataLemmas

\* A function on 1..n is a sequence.
LEMMA ListOf ==
  ASSUME NEW T, NEW n \in Nat, NEW f, f = [i \in 1..n |-> f[i]], \A i \in 1..n : f[i] \in T
  PROVE  f \in Seq(T) /\ Len(f) = n
OBVIOUS

\* Three sequences, in either order of joining them.
SameJoin(a, b, c) == a \o (b \o c) = (a \o b) \o c

\* Sequences can be joined in either order.
LEMMA JoinThree == \A E : \A a, b, c \in Seq(E) : SameJoin(a, b, c)
<1> SUFFICES ASSUME NEW E, NEW a \in Seq(E), NEW b \in Seq(E), NEW c \in Seq(E)
             PROVE  a \o (b \o c) = (a \o b) \o c
  BY DEF SameJoin
<1> QED BY ConcatAssociative

\* What is made of two parts.
IsJoin(s, a, b) == s = a \o b

\* Two parts of a sequence that follow one another are one part.
LEMMA PartsJoin ==
  ASSUME NEW E, NEW s \in Seq(E), NEW m \in 0..Len(s), NEW k \in m..Len(s), NEW n \in k..Len(s)
  PROVE  IsJoin(SubSeq(s, m + 1, n), SubSeq(s, m + 1, k), SubSeq(s, k + 1, n))
<1>1. SubSeq(s, m + 1, k) \o SubSeq(s, k + 1, n) = SubSeq(s, m + 1, n)
  BY AdjacentParts
<1> QED BY <1>1 DEF IsJoin

\* A sequence that is cut into pieces from the front: as long as it is not in End, it
\* gives some pieces and is cut after cut[s] elements.
Splitter(f, B, End, cut, piece) ==
  f = [s \in Seq(B) |-> IF s \in End THEN piece[s]
                        ELSE piece[s] \o f[SubSeq(s, cut[s] + 1, Len(s))]]
SplitOn(B, End, cut, piece) ==
  /\ piece \in [Seq(B) -> Seq(Seq(B))]
  /\ \A s \in Seq(B) : s \in End \/ cut[s] \in 1..Len(s)

\* What is left after a cut is a shorter sequence.
LEMMA RestIsShorter ==
  ASSUME NEW B, NEW s \in Seq(B), NEW k \in 1..Len(s)
  PROVE  /\ SubSeq(s, k + 1, Len(s)) \in Seq(B) /\ Len(SubSeq(s, k + 1, Len(s))) < Len(s)
         /\ SubSeq(s, 1, k) \in Seq(B) /\ Len(SubSeq(s, 1, k)) = k
         /\ SubSeq(s, 1, k) \o SubSeq(s, k + 1, Len(s)) = s
<1>1. Len(s) \in Nat /\ k \in 0..Len(s)
  BY LenProperties
<1>2. /\ SubSeq(s, k + 1, Len(s)) \in Seq(B) /\ Len(SubSeq(s, k + 1, Len(s))) = Len(s) - k
      /\ SubSeq(s, 1, k) \in Seq(B) /\ Len(SubSeq(s, 1, k)) = k
      /\ SubSeq(s, 1, k) \o SubSeq(s, k + 1, Len(s)) = s
  BY <1>1, CutInTwo
<1> QED BY <1>1, <1>2

\* There is a function that cuts like that.
LEMMA SplitterExists ==
  ASSUME NEW B, NEW End, NEW cut, NEW piece, SplitOn(B, End, cut, piece)
  PROVE  \E f : Splitter(f, B, End, cut, piece)
<1> DEFINE S == Seq(B)
           V == Seq(Seq(B))
           size == [s \in S |-> Len(s)]
           Base == S \cap End
           base == [s \in Base |-> piece[s]]
           smaller == [s \in S \ Base |-> SubSeq(s, cut[s] + 1, Len(s))]
           step == [s \in S \ Base |-> [v \in V |-> piece[s] \o v]]
<1>1. ASSUME NEW s \in S \ Base
      PROVE  smaller[s] \in S /\ Len(smaller[s]) < Len(s)
  <2>1. cut[s] \in 1..Len(s) /\ s \in Seq(B)
    BY DEF SplitOn
  <2> QED BY <2>1, RestIsShorter
<1>2. RecursionOn(S, V, size, Base, base, smaller, step)
  <2>1. size \in [S -> Nat] /\ Base \in SUBSET S
    BY LenProperties
  <2>2. base \in [Base -> V]
    BY DEF SplitOn
  <2>3. smaller \in [S \ Base -> S] /\ \A s \in S \ Base : size[smaller[s]] < size[s]
    <3> HIDE DEF Base
    <3>1. \A s \in S \ Base : smaller[s] \in S /\ Len(smaller[s]) < Len(s)
      BY <1>1
    <3> QED BY <3>1
  <2>4. ASSUME NEW s \in S \ Base, NEW v \in V PROVE piece[s] \o v \in V
    <3>1. piece[s] \in V
      BY DEF SplitOn
    <3> QED BY <3>1, ConcatProperties
  <2>5. step \in [S \ Base -> [V -> V]]
    BY <2>4
  <2> HIDE DEF S, V, size, Base, base, smaller, step
  <2> QED BY <2>1, <2>2, <2>3, <2>5 DEF RecursionOn
<1>3. PICK f \in [S -> V] : Recursive(f, S, Base, base, smaller, step)
  <2> HIDE DEF S, V, size, Base, base, smaller, step
  <2> QED BY <1>2, RecursiveFunctionExists
<1>4. ASSUME NEW s \in S
      PROVE  f[s] = IF s \in End THEN piece[s] ELSE piece[s] \o f[SubSeq(s, cut[s] + 1, Len(s))]
  <2>1. CASE s \in End
    BY <1>3, <2>1 DEF Recursive
  <2>2. CASE s \notin End
    <3>1. f[s] = step[s][f[smaller[s]]] /\ f[smaller[s]] \in V
      BY <1>1, <1>3, <2>2 DEF Recursive
    <3>2. smaller[s] = SubSeq(s, cut[s] + 1, Len(s))
      BY <2>2
    <3>3. step[s][f[smaller[s]]] = piece[s] \o f[smaller[s]]
      <4> HIDE DEF smaller, V
      <4> QED BY <2>2, <3>1
    <3> QED BY <2>2, <3>1, <3>2, <3>3
  <2> QED BY <2>1, <2>2
<1>5. Splitter(f, B, End, cut, piece)
  BY <1>3, <1>4 DEF Splitter
<1> QED BY <1>5

\* Its values are sequences of pieces.
LEMMA SplitterType ==
  ASSUME NEW B, NEW End, NEW cut, NEW piece, SplitOn(B, End, cut, piece),
         NEW f, Splitter(f, B, End, cut, piece)
  PROVE  \A s \in Seq(B) : f[s] \in Seq(Seq(B))
<1> DEFINE S == Seq(B)
           V == Seq(Seq(B))
           size == [s \in S |-> Len(s)]
           P == {s \in S : f[s] \in V}
<1>1. size \in [S -> Nat]
  BY LenProperties
<1>2. ASSUME NEW s \in S, \A t \in S : size[t] < size[s] => t \in P
      PROVE  s \in P
  <2>1. CASE s \in End
    BY <2>1 DEF Splitter, SplitOn
  <2>2. CASE s \notin End
    <3> DEFINE r == SubSeq(s, cut[s] + 1, Len(s))
    <3>1. r \in S /\ Len(r) < Len(s)
      BY <2>2, RestIsShorter DEF SplitOn
    <3> HIDE DEF r
    <3>2. f[r] \in V /\ piece[s] \in V
      BY <1>2, <3>1 DEF SplitOn
    <3>3. f[s] = piece[s] \o f[r]
      BY <2>2 DEF Splitter, r
    <3> QED BY <3>2, <3>3, ConcatProperties
  <2> QED BY <2>1, <2>2
<1> HIDE DEF P, size, S
<1>3. \A s \in S : s \in P
  BY <1>1, <1>2, InductionOnSize
<1> QED BY <1>3 DEF P, S

-----------------------------------------------------------------------------
(* Lines. *)

NewlineAt(s) == SelectInSeq(s, LAMBDA b : b = "nl")

FilterNewline(s) == Filter!SelectInSeq(s, LAMBDA b : b = "nl")

\* The filter uses the library operators of these names.
LEMMA SameOperators ==
  /\ \A s : Filter!FlattenSeq(s) = FlattenSeq(s)
  /\ \A s, x : Filter!Contains(s, x) <=> Contains(s, x)
  /\ \A T : Filter!Min(T) = Min(T) /\ Filter!Max(T) = Max(T)
  /\ \A s : FilterNewline(s) = NewlineAt(s)
<1>1. \A s : Filter!FlattenSeq(s) = FlattenSeq(s)
  BY DEF Filter!FlattenSeq, FlattenSeq
<1>2. \A s, x : Filter!Contains(s, x) <=> Contains(s, x)
  BY DEF Filter!Contains, Contains
<1>3. \A T : Filter!Min(T) = Min(T) /\ Filter!Max(T) = Max(T)
  BY DEF Filter!Min, Min, Filter!Max, Max
<1>4. \A s : FilterNewline(s) = NewlineAt(s)
  BY <1>3 DEF FilterNewline, Filter!SelectInSeq, SelectInSeq, NewlineAt
<1> QED BY <1>1, <1>2, <1>3, <1>4

\* It is the place of the first newline, or 0.
LEMMA NewlinePlace ==
  ASSUME NEW B, NEW s \in Seq(B)
  PROVE  /\ NewlineAt(s) \in 0..Len(s)
         /\ NewlineAt(s) = 0 <=> ~ Contains(s, "nl")
         /\ NewlineAt(s) > 0 => s[NewlineAt(s)] = "nl" /\ \A i \in 1..(NewlineAt(s) - 1) : s[i] # "nl"
<1> DEFINE I == {i \in 1..Len(s) : s[i] = "nl"}
<1>1. NewlineAt(s) = IF I # {} THEN Min(I) ELSE 0
  BY DEF NewlineAt, SelectInSeq
<1>2. I \subseteq Nat /\ Len(s) \in Nat
  BY LenProperties
<1>3. I # {} => Min(I) \in I /\ \A i \in I : Min(I) <= i
  <2> HIDE DEF I
  <2> QED BY <1>2, MinIsLeast
<1>4. I = {} <=> ~ Contains(s, "nl")
  BY DEF Contains
<1>5. CASE I = {}
  BY <1>1, <1>2, <1>4, <1>5
<1>6. CASE I # {}
  <2> DEFINE k == Min(I)
  <2>1. k \in I /\ NewlineAt(s) = k /\ \A i \in I : k <= i
    BY <1>1, <1>3, <1>6
  <2> HIDE DEF k
  <2>2. k \in 1..Len(s) /\ s[k] = "nl" /\ \A i \in 1..(k - 1) : s[i] # "nl"
    BY <1>2, <2>1
  <2> QED BY <1>2, <1>4, <1>6, <2>1, <2>2
<1> QED BY <1>5, <1>6

\* Up to and with the first newline, or all.
FirstCut(s) == IF NewlineAt(s) = 0 THEN Len(s) ELSE NewlineAt(s)
LinesIn(used) ==
  IF Contains(Filter!LineIn(used), "bad") THEN <<>> ELSE <<Filter!LineIn(used)>>

\* A line is a sequence of bytes.
LEMMA LineInType ==
  ASSUME NEW u \in Seq(Byte)
  PROVE  Filter!LineIn(u) \in Seq(Byte) /\ LinesIn(u) \in Seq(Seq(Byte))
<1>1. Len(u) \in Nat
  BY LenProperties
<1>2. CASE ~ Contains(u, "nl")
  <2>1. Filter!LineIn(u) = u
    BY <1>2, SameOperators DEF Filter!LineIn
  <2> QED BY <2>1, EmptySeq DEF LinesIn
<1>3. CASE Contains(u, "nl")
  <2>1. Len(u) > 0
    BY <1>1, <1>3 DEF Contains
  <2>2. Len(u) - 1 \in 0..Len(u) /\ (Len(u) > 1 => Len(u) - 2 \in 0..Len(u))
    BY <1>1, <2>1
  <2>3. SubSeq(u, 1, Len(u) - 1) \in Seq(Byte) /\ (Len(u) > 1 => SubSeq(u, 1, Len(u) - 2) \in Seq(Byte))
    BY <2>2, CutInTwo
  <2>4. Filter!LineIn(u) \in Seq(Byte)
    BY <1>3, <2>3, SameOperators DEF Filter!LineIn
  <2> QED BY <2>4, EmptySeq DEF LinesIn
<1> QED BY <1>2, <1>3

\* The equation of the lines of an input.
LEMMA LinesDefined ==
  /\ \A s \in Seq(Byte) : Filter!LinesOf(s) \in Seq(Seq(Byte))
  /\ Filter!LinesOf(<<>>) = <<>>
  /\ \A s \in Seq(Byte) : s # <<>> =>
       Filter!LinesOf(s) = LinesIn(SubSeq(s, 1, FirstCut(s)))
                             \o Filter!LinesOf(SubSeq(s, FirstCut(s) + 1, Len(s)))
<1> DEFINE S == Seq(Byte)
           End == {<<>>}
           cut == [s \in S |-> FirstCut(s)]
           piece == [s \in S |-> IF s = <<>> THEN <<>> ELSE LinesIn(SubSeq(s, 1, FirstCut(s)))]
           Is(f) == f = [s \in S |->
                          LET k == FilterNewline(s)
                              used == IF k = 0 THEN s ELSE SubSeq(s, 1, k)
                              line == Filter!LineIn(used)
                          IN  IF s = <<>> THEN <<>>
                              ELSE (IF Filter!Contains(line, "bad") THEN <<>> ELSE <<line>>)
                                     \o f[SubSeq(s, Len(used) + 1, Len(s))]]
           lines_of == CHOOSE f : Is(f)
<1>1. ASSUME NEW s \in S, s # <<>>
      PROVE  FirstCut(s) \in 1..Len(s)
  <2>1. Len(s) \in Nat \ {0}
    BY <1>1, EmptySeq, LenProperties
  <2> QED BY <2>1, NewlinePlace DEF FirstCut
<1>2. ASSUME NEW s \in S
      PROVE  LET used == IF NewlineAt(s) = 0 THEN s ELSE SubSeq(s, 1, NewlineAt(s))
             IN  used = SubSeq(s, 1, FirstCut(s)) /\ used \in S /\ Len(used) = FirstCut(s)
  <2>1. FirstCut(s) \in 0..Len(s)
    BY NewlinePlace, LenProperties DEF FirstCut
  <2>2. SubSeq(s, 1, FirstCut(s)) \in S /\ Len(SubSeq(s, 1, FirstCut(s))) = FirstCut(s)
    BY <2>1, CutInTwo
  <2>3. SubSeq(s, 1, Len(s)) = s
    BY SubSeqFull
  <2> QED BY <2>2, <2>3 DEF FirstCut
<1>3. SplitOn(Byte, End, cut, piece)
  <2>1. \A s \in S : s # <<>> => LinesIn(SubSeq(s, 1, FirstCut(s))) \in Seq(Seq(Byte))
    BY <1>2, LineInType
  <2>2. <<>> \in Seq(Seq(Byte))
    BY EmptySeq
  <2> QED BY <1>1, <2>1, <2>2 DEF SplitOn
<1>4. ASSUME NEW f PROVE Is(f) <=> Splitter(f, Byte, End, cut, piece)
  <2> DEFINE L(s) == LET k == FilterNewline(s)
                         used == IF k = 0 THEN s ELSE SubSeq(s, 1, k)
                         line == Filter!LineIn(used)
                     IN  IF s = <<>> THEN <<>>
                         ELSE (IF Filter!Contains(line, "bad") THEN <<>> ELSE <<line>>)
                                \o f[SubSeq(s, Len(used) + 1, Len(s))]
             R(s) == IF s \in End THEN piece[s] ELSE piece[s] \o f[SubSeq(s, cut[s] + 1, Len(s))]
  <2>1. ASSUME NEW s \in S PROVE L(s) = R(s)
    <3>1. CASE s = <<>>
      BY <3>1
    <3>2. CASE s # <<>>
      <4> DEFINE used == IF NewlineAt(s) = 0 THEN s ELSE SubSeq(s, 1, NewlineAt(s))
      <4>1. used = SubSeq(s, 1, FirstCut(s)) /\ Len(used) = FirstCut(s)
        BY <1>2
      <4>2. L(s) = LinesIn(used) \o f[SubSeq(s, Len(used) + 1, Len(s))]
        BY <3>2, SameOperators DEF LinesIn
      <4> HIDE DEF used
      <4>3. R(s) = LinesIn(SubSeq(s, 1, FirstCut(s))) \o f[SubSeq(s, FirstCut(s) + 1, Len(s))]
        BY <3>2
      <4> HIDE DEF L, R
      <4> QED BY <4>1, <4>2, <4>3
    <3> QED BY <3>1, <3>2
  <2>2. Is(f) <=> f = [s \in S |-> L(s)]
    OBVIOUS
  <2>3. Splitter(f, Byte, End, cut, piece) <=> f = [s \in S |-> R(s)]
    BY DEF Splitter
  <2> HIDE DEF L, R, S
  <2>4. [s \in S |-> L(s)] = [s \in S |-> R(s)]
    BY <2>1
  <2> HIDE DEF Is, cut, piece, End
  <2> QED BY <2>2, <2>3, <2>4
<1> HIDE DEF Is
<1>5. Is(lines_of) /\ Splitter(lines_of, Byte, End, cut, piece)
  <2>1. PICK f : Splitter(f, Byte, End, cut, piece)
    <3> HIDE DEF cut, piece, End
    <3> QED BY <1>3, SplitterExists
  <2>2. Is(f)
    BY <1>4, <2>1
  <2>3. Is(lines_of)
    BY <2>2
  <2> HIDE DEF lines_of
  <2> QED BY <1>4, <2>3
<1>6. \A s \in S : Filter!LinesOf(s) = lines_of[s]
  BY DEF Filter!LinesOf, Is, FilterNewline
<1> HIDE DEF lines_of
<1>7. \A s \in S : lines_of[s] \in Seq(Seq(Byte))
  <2> HIDE DEF cut, piece, End
  <2> QED BY <1>3, <1>5, SplitterType
<1>8. <<>> \in S
  BY EmptySeq
<1>9. lines_of[<<>>] = <<>>
  <2>1. lines_of[<<>>] = piece[<<>>]
    BY <1>5, <1>8 DEF Splitter
  <2> QED BY <1>8, <2>1
<1>10. ASSUME NEW s \in S, s # <<>>
       PROVE  lines_of[s] = LinesIn(SubSeq(s, 1, FirstCut(s)))
                              \o lines_of[SubSeq(s, FirstCut(s) + 1, Len(s))]
  BY <1>5, <1>10 DEF Splitter
<1>11. \A s \in S : s # <<>> => SubSeq(s, FirstCut(s) + 1, Len(s)) \in S
  BY <1>1, RestIsShorter
<1> HIDE DEF S
<1>12. \A s \in S : s # <<>> =>
         Filter!LinesOf(s) = LinesIn(SubSeq(s, 1, FirstCut(s)))
                               \o Filter!LinesOf(SubSeq(s, FirstCut(s) + 1, Len(s)))
  BY <1>6, <1>10, <1>11
<1> QED BY <1>6, <1>7, <1>8, <1>9, <1>12 DEF S

EndsLine(s) == s = <<>> \/ s[Len(s)] = "nl"

\* What ends a line, cut after its first line, still does.
LEMMA FirstLineOf ==
  ASSUME NEW u \in Seq(Byte), NEW w \in Seq(Byte), u # <<>>, EndsLine(u)
  PROVE  LET k == FirstCut(u)
             f == SubSeq(u, 1, k)
             r == SubSeq(u, k + 1, Len(u))
         IN  /\ f \in Seq(Byte) /\ r \in Seq(Byte) /\ Len(r) < Len(u) /\ EndsLine(r)
             /\ u \o w # <<>> /\ FirstCut(u \o w) = k
             /\ SubSeq(u \o w, 1, k) = f
             /\ SubSeq(u \o w, k + 1, Len(u \o w)) = r \o w
<1> DEFINE n == Len(u)
           k == NewlineAt(u)
           t == u \o w
<1>1. n \in Nat \ {0} /\ u[n] = "nl" /\ Len(w) \in Nat
  BY EmptySeq, LenProperties DEF EndsLine
<1>2. Contains(u, "nl")
  BY <1>1 DEF Contains
<1>3. k \in 1..n /\ u[k] = "nl" /\ \A i \in 1..(k - 1) : u[i] # "nl"
  BY <1>2, NewlinePlace
<1>4. FirstCut(u) = k
  BY <1>3 DEF FirstCut
<1>5. t \in Seq(Byte) /\ Len(t) = n + Len(w) /\ \A i \in 1..n : t[i] = u[i]
  <2>1. /\ t \in Seq(Byte) /\ Len(t) = n + Len(w)
        /\ \A i \in 1..(n + Len(w)) : t[i] = IF i <= n THEN u[i] ELSE w[i - n]
    BY ConcatProperties
  <2> HIDE DEF t, n
  <2>2. \A i \in 1..n : i \in 1..(n + Len(w)) /\ i <= n
    BY <1>1
  <2> QED BY <2>1, <2>2
<1> HIDE DEF t
<1>6. NewlineAt(t) = k /\ t # <<>>
  <2> DEFINE j == NewlineAt(t)
  <2>1. Contains(t, "nl")
    BY <1>1, <1>5 DEF Contains
  <2>2. j \in 1..Len(t) /\ t[j] = "nl" /\ \A i \in 1..(j - 1) : t[i] # "nl"
    BY <1>5, <2>1, NewlinePlace
  <2> HIDE DEF j, k, n
  <2>3. t[k] = "nl" /\ k \in 1..Len(t)
    BY <1>1, <1>3, <1>5
  <2>4. ~ (k < j)
    BY <2>2, <2>3
  <2>5. ~ (j < k)
    BY <1>1, <1>3, <1>5, <2>2
  <2>6. j = k
    BY <2>2, <2>3, <2>4, <2>5
  <2>7. t # <<>>
    BY <2>3, EmptySeq
  <2> QED BY <2>6, <2>7 DEF j
<1> HIDE DEF k
<1>7. FirstCut(t) = k
  BY <1>3, <1>6 DEF FirstCut
<1> DEFINE r == SubSeq(u, k + 1, n)
<1>8. SubSeq(u, 1, k) \in Seq(Byte) /\ r \in Seq(Byte) /\ Len(r) < n
  BY <1>3, RestIsShorter
<1>9. EndsLine(r)
  <2>1. CASE k = n
    BY <1>1, <2>1, SubSeqEmpty DEF EndsLine
  <2>2. CASE k < n
    <3>1. Len(r) = n - k /\ \A i \in 1..(n - k) : r[i] = u[k + i]
      <4>1. k \in 0..Len(u)
        BY <1>1, <1>3
      <4> QED BY <4>1, CutInTwo
    <3>2. r[Len(r)] = u[n]
      <4> HIDE DEF r, n
      <4>1. n - k \in 1..(n - k) /\ k + (n - k) = n
        BY <1>1, <1>3, <2>2
      <4> QED BY <3>1, <4>1
    <3> QED BY <1>1, <3>2 DEF EndsLine
  <2> QED BY <1>1, <1>3, <2>1, <2>2
<1>10. SubSeq(t, 1, k) = SubSeq(u, 1, k) /\ SubSeq(t, k + 1, Len(t)) = r \o w
  <2>1. k \in 0..Len(u)
    BY <1>1, <1>3
  <2> QED BY <2>1, CutOfConcat DEF t
<1> QED BY <1>4, <1>6, <1>7, <1>8, <1>9, <1>10 DEF t

\* Nothing more and nothing less: the lines of an input that is cut at the end of a line
\* are those of its parts.
LEMMA LinesConcat ==
  ASSUME NEW w \in Seq(Byte)
  PROVE  \A u \in Seq(Byte) : EndsLine(u) =>
           Filter!LinesOf(u \o w) = Filter!LinesOf(u) \o Filter!LinesOf(w)
<1> DEFINE S == Seq(Byte)
           size == [u \in S |-> Len(u)]
           Holds(u) == Filter!LinesOf(u \o w) = Filter!LinesOf(u) \o Filter!LinesOf(w)
           P == {u \in S : EndsLine(u) => Holds(u)}
<1>1. size \in [S -> Nat]
  BY LenProperties
<1>2. ASSUME NEW u \in S, \A v \in S : size[v] < size[u] => v \in P
      PROVE  u \in P
  <2> SUFFICES ASSUME EndsLine(u) PROVE Holds(u)
    OBVIOUS
  <2>1. CASE u = <<>>
    BY <2>1, LinesDefined, ConcatEmptySeq
  <2>2. CASE u # <<>>
    <3> DEFINE k == FirstCut(u)
               f == SubSeq(u, 1, k)
               r == SubSeq(u, k + 1, Len(u))
               a == LinesIn(f)
               b == Filter!LinesOf(r)
               c == Filter!LinesOf(w)
    <3>1. /\ f \in S /\ r \in S /\ Len(r) < Len(u) /\ EndsLine(r)
          /\ u \o w # <<>> /\ FirstCut(u \o w) = k
          /\ SubSeq(u \o w, 1, k) = f /\ SubSeq(u \o w, k + 1, Len(u \o w)) = r \o w
      BY <2>2, FirstLineOf
    <3>2. u \o w \in S
      BY ConcatProperties
    <3>3. Filter!LinesOf(u \o w) = a \o Filter!LinesOf(r \o w)
      <4>1. Filter!LinesOf(u \o w) = LinesIn(SubSeq(u \o w, 1, FirstCut(u \o w)))
              \o Filter!LinesOf(SubSeq(u \o w, FirstCut(u \o w) + 1, Len(u \o w)))
        BY <3>1, <3>2, LinesDefined
      <4> HIDE DEF f, r, k
      <4> QED BY <3>1, <4>1
    <3>4. Filter!LinesOf(u) = a \o b
      BY <2>2, LinesDefined
    <3> HIDE DEF k, f, r
    <3>5. Filter!LinesOf(r \o w) = b \o c
      BY <1>2, <3>1
    <3>6. a \in Seq(Seq(Byte)) /\ b \in Seq(Seq(Byte)) /\ c \in Seq(Seq(Byte))
      BY <3>1, LineInType, LinesDefined
    <3> HIDE DEF a, b, c
    <3>7. SameJoin(a, b, c)
      BY <3>6, JoinThree
    <3> QED BY <3>3, <3>4, <3>5, <3>7 DEF SameJoin, c
  <2> QED BY <2>1, <2>2
<1> HIDE DEF P, size, S
<1>3. \A u \in S : u \in P
  BY <1>1, <1>2, InductionOnSize
<1> QED BY <1>3 DEF P, S

\* One line, with its newline or at the end of the input.
LEMMA LinesOfOne ==
  ASSUME NEW l \in Seq(Byte), l # <<>>, FirstCut(l) = Len(l)
  PROVE  Filter!LinesOf(l) = LinesIn(l)
<1>1. Len(l) \in Nat
  BY LenProperties
<1>2. SubSeq(l, 1, Len(l)) = l /\ SubSeq(l, Len(l) + 1, Len(l)) = <<>>
  BY <1>1, SubSeqFull, SubSeqEmpty
<1>3. Filter!LinesOf(l) = LinesIn(l) \o <<>>
  BY <1>2, LinesDefined
<1> QED BY <1>3, LineInType, ConcatEmptySeq

-----------------------------------------------------------------------------
(* What is made of lines. *)

\* The first n values of a function on 1..(n + m), and the last m.
FirstValues(f, n) == [i \in 1..n |-> f[i]]
LastValues(f, n, m) == [j \in 1..m |-> f[n + j]]

\* A sequence that is given by a function, in two parts.
LEMMA TwoParts ==
  ASSUME NEW E, NEW n \in Nat, NEW m \in Nat, NEW f \in [1..(n + m) -> E]
  PROVE  /\ FirstValues(f, n) \in Seq(E) /\ LastValues(f, n, m) \in Seq(E)
         /\ f = FirstValues(f, n) \o LastValues(f, n, m)
<1> DEFINE a == [i \in 1..n |-> f[i]]
           b == [j \in 1..m |-> f[n + j]]
<1>1. a \in Seq(E) /\ Len(a) = n
  <2>1. \A i \in 1..n : f[i] \in E
    OBVIOUS
  <2> QED BY <2>1, IsASeq
<1>2. b \in Seq(E) /\ Len(b) = m
  <2>1. \A j \in 1..m : f[n + j] \in E
    OBVIOUS
  <2> QED BY <2>1, IsASeq
<1>3. f \in Seq(E) /\ Len(f) = n + m
  <2>1. n + m \in Nat /\ f = [i \in 1..(n + m) |-> f[i]] /\ \A i \in 1..(n + m) : f[i] \in E
    OBVIOUS
  <2> QED BY <2>1, IsASeq
<1>4. /\ a \o b \in Seq(E) /\ Len(a \o b) = n + m
      /\ \A i \in 1..(n + m) : (a \o b)[i] = IF i <= n THEN a[i] ELSE b[i - n]
  <2> HIDE DEF a, b
  <2> QED BY <1>1, <1>2, ConcatProperties
<1>5. \A i \in 1..(n + m) : (a \o b)[i] = f[i]
  <2> DEFINE c == a \o b
  <2>1. \A i \in 1..n : a[i] = f[i]
    OBVIOUS
  <2>2. \A j \in 1..m : b[j] = f[n + j]
    OBVIOUS
  <2>3. \A i \in 1..(n + m) : c[i] = IF i <= n THEN a[i] ELSE b[i - n]
    BY <1>4
  <2> HIDE DEF a, b, c
  <2>4. ASSUME NEW i \in 1..(n + m) PROVE c[i] = f[i]
    <3>1. CASE i <= n
      <4>1. i \in 1..n
        BY <3>1
      <4> QED BY <2>1, <2>3, <3>1, <4>1
    <3>2. CASE n < i
      <4>1. i - n \in 1..m /\ n + (i - n) = i /\ ~ (i <= n)
        BY <3>2
      <4> QED BY <2>2, <2>3, <4>1
    <3> QED BY <3>1, <3>2
  <2> QED BY <2>4 DEF c
<1> HIDE DEF a, b
<1> QED BY <1>1, <1>2, <1>3, <1>4, <1>5, SeqEqual DEF a, b, FirstValues, LastValues

\* Flattened, too.
LEMMA FlattenTwoParts ==
  ASSUME NEW D, NEW n \in Nat, NEW m \in Nat, NEW f \in [1..(n + m) -> Seq(D)]
  PROVE  /\ FlattenSeq(FirstValues(f, n)) \in Seq(D) /\ FlattenSeq(LastValues(f, n, m)) \in Seq(D)
         /\ FlattenSeq(f) = FlattenSeq(FirstValues(f, n)) \o FlattenSeq(LastValues(f, n, m))
<1> DEFINE a == FirstValues(f, n)
           b == LastValues(f, n, m)
           E == Seq(D)
<1>1. a \in Seq(E) /\ b \in Seq(E) /\ f = a \o b
  <2>1. f \in [1..(n + m) -> E]
    OBVIOUS
  <2> HIDE DEF E
  <2>2. \A g \in [1..(n + m) -> E] :
          FirstValues(g, n) \in Seq(E) /\ LastValues(g, n, m) \in Seq(E)
            /\ g = FirstValues(g, n) \o LastValues(g, n, m)
    BY TwoParts
  <2> QED BY <2>1, <2>2
<1> HIDE DEF a, b
<1> QED BY <1>1, FlattenConcat, FlattenType DEF a, b

\* Those of a range of the pieces, and nothing of the others.
LEMMA FlattenMasked ==
  ASSUME NEW D, NEW u \in Seq(Seq(D)), NEW m \in 0..Len(u), NEW k \in m..Len(u)
  PROVE  FlattenSeq([i \in 1..Len(u) |-> IF i \in (m + 1)..k THEN u[i] ELSE <<>>])
           = FlattenSeq(SubSeq(u, m + 1, k))
<1> DEFINE n == Len(u)
           h == [i \in 1..n |-> IF i \in (m + 1)..k THEN u[i] ELSE <<>>]
<1>1. n \in Nat /\ m \in Nat /\ k \in Nat /\ m <= k /\ k <= n /\ <<>> \in Seq(D)
  BY LenProperties, EmptySeq
<1>2. \A i \in 1..n : u[i] \in Seq(D)
  BY ElementOfSeq
<1> HIDE DEF n
<1>3. h \in [1..n -> Seq(D)]
  BY <1>1, <1>2
<1> DEFINE a == FirstValues(h, m)
           t == LastValues(h, m, n - m)
           b == FirstValues(t, k - m)
           c == LastValues(t, k - m, n - k)
<1>4. FlattenSeq(h) = FlattenSeq(a) \o FlattenSeq(t) /\ FlattenSeq(t) \in Seq(D) /\ a \in Seq(Seq(D))
  <2>1. n - m \in Nat /\ m + (n - m) = n
    BY <1>1
  <2>2. h \in [1..(m + (n - m)) -> Seq(D)]
    BY <1>3, <2>1
  <2> HIDE DEF h
  <2> HIDE DEF n
  <2>0. m \in Nat /\ n - m \in Nat
    BY <1>1, <2>1
  <2>3. /\ FlattenSeq(t) \in Seq(D) /\ FlattenSeq(h) = FlattenSeq(a) \o FlattenSeq(t)
    BY <2>0, <2>2, FlattenTwoParts, Zenon
  <2>4. a \in Seq(Seq(D))
    BY <1>1, <2>1, <2>2, TwoParts, Zenon
  <2> QED BY <2>3, <2>4
<1>5. t \in [1..(n - m) -> Seq(D)]
  <2>1. \A j \in 1..(n - m) : m + j \in 1..n
    BY <1>1
  <2> HIDE DEF h
  <2> QED BY <1>3, <2>1 DEF LastValues
<1>6. FlattenSeq(t) = FlattenSeq(b) \o FlattenSeq(c) /\ b \in Seq(Seq(D)) /\ c \in Seq(Seq(D))
  <2>1. k - m \in Nat /\ n - k \in Nat /\ (k - m) + (n - k) = n - m
    BY <1>1
  <2>2. t \in [1..((k - m) + (n - k)) -> Seq(D)]
    BY <1>5, <2>1
  <2> HIDE DEF t
  <2>3. FlattenSeq(t) = FlattenSeq(b) \o FlattenSeq(c)
    BY <2>1, <2>2, FlattenTwoParts, Zenon
  <2>4. b \in Seq(Seq(D)) /\ c \in Seq(Seq(D))
    BY <2>1, <2>2, TwoParts, Zenon
  <2> QED BY <2>3, <2>4
<1>7. FlattenSeq(a) = <<>>
  <2>1. \A i \in 1..m : a[i] = <<>>
    <3>1. \A i \in 1..m : i \in 1..n /\ i \notin (m + 1)..k
      BY <1>1
    <3> QED BY <3>1 DEF FirstValues
  <2>2. Len(a) = m
    BY <1>1 DEF FirstValues
  <2> HIDE DEF a
  <2> QED BY <1>4, <2>1, <2>2, FlattenEmpties
<1>8. FlattenSeq(c) = <<>>
  <2>1. \A j \in 1..(n - k) : c[j] = <<>>
    <3>1. \A j \in 1..(n - k) : /\ (k - m) + j \in 1..(n - m) /\ m + ((k - m) + j) \in 1..n
                                /\ m + ((k - m) + j) \notin (m + 1)..k
      BY <1>1
    <3> QED BY <3>1 DEF LastValues
  <2>2. Len(c) = n - k
    BY <1>1 DEF LastValues
  <2> HIDE DEF c
  <2> QED BY <1>6, <2>1, <2>2, FlattenEmpties
<1>9. b = SubSeq(u, m + 1, k)
  <2> DEFINE s == SubSeq(u, m + 1, k)
  <2>1. s \in Seq(Seq(D)) /\ Len(s) = k - m
    <3>1. n \in n..n
      BY <1>1
    <3> QED BY AdjacentParts DEF n
  <2>2. \A i \in 1..(k - m) : s[i] = u[m + i]
    <3>1. m + 1 \in Int /\ k \in Int
      BY <1>1
    <3> QED BY <1>1, SubSeqProperties DEF n
  <2>3. \A i \in 1..(k - m) : b[i] = u[m + i]
    <3>1. \A i \in 1..(k - m) : i \in 1..(n - m) /\ m + i \in 1..n /\ m + i \in (m + 1)..k
      BY <1>1
    <3> QED BY <3>1 DEF FirstValues, LastValues
  <2>4. Len(b) = k - m
    BY <1>1 DEF FirstValues
  <2> HIDE DEF b, s
  <2>5. b = s
    BY <1>6, <2>1, <2>2, <2>3, <2>4, SeqEqual
  <2> QED BY <2>5 DEF s
<1> HIDE DEF a, b, c, t, h
<1>10. FlattenSeq(b) \in Seq(D)
  BY <1>6, FlattenType
<1>11. FlattenSeq(h) = FlattenSeq(b)
  BY <1>4, <1>6, <1>7, <1>8, <1>10, ConcatEmptySeq
<1> QED BY <1>9, <1>11 DEF h, n

TabAt(s) == Filter!SelectInSeq(s, LAMBDA b : b = "tab")
CharacterEnd(s) == Filter!SelectInSeq(SubSeq(s, 2, Len(s)), LAMBDA b : b # "cont")

\* These are places in the line, before its last byte for the second.
LEMMA PlacesInLine ==
  ASSUME NEW s \in Seq(Byte)
  PROVE  /\ TabAt(s) \in 0..Len(s)
         /\ CharacterEnd(s) \in 0..Len(s) /\ (CharacterEnd(s) # 0 => CharacterEnd(s) < Len(s))
<1> DEFINE t == SubSeq(s, 2, Len(s))
           I == {i \in 1..Len(s) : s[i] = "tab"}
           J == {i \in 1..Len(t) : t[i] # "cont"}
<1>1. Len(s) \in Nat /\ \A i \in 2..Len(s) : s[i] \in Byte
  BY LenProperties, ElementOfSeq
<1>2. Len(t) = IF 2 <= Len(s) THEN Len(s) - 1 ELSE 0
  <2>1. Len(t) = IF 2 <= Len(s) THEN Len(s) - 2 + 1 ELSE 0
    BY <1>1, SubSeqProperties
  <2> HIDE DEF t
  <2> QED BY <1>1, <2>1
<1>3. I \subseteq Nat /\ J \subseteq Nat
  BY <1>1, <1>2
<1>4. TabAt(s) = IF I # {} THEN Min(I) ELSE 0
  BY SameOperators DEF TabAt, Filter!SelectInSeq
<1>5. CharacterEnd(s) = IF J # {} THEN Min(J) ELSE 0
  BY SameOperators DEF CharacterEnd, Filter!SelectInSeq
<1>6. /\ I # {} => Min(I) \in I
      /\ J # {} => Min(J) \in J
  <2> HIDE DEF I, J
  <2> QED BY <1>3, MinIsLeast
<1> HIDE DEF t
<1>7. TabAt(s) \in 0..Len(s)
  BY <1>1, <1>4, <1>6
<1>8. CharacterEnd(s) \in 0..Len(t)
  BY <1>1, <1>2, <1>5, <1>6
<1> QED BY <1>1, <1>2, <1>7, <1>8

\* What a function that cuts a line gives.
LEMMA CutsALine ==
  ASSUME NEW End, NEW cut, NEW piece, SplitOn(Byte, End, cut, piece)
  PROVE  LET f == CHOOSE f : Splitter(f, Byte, End, cut, piece)
         IN  \A s \in Seq(Byte) : f[s] \in Seq(Seq(Byte))
<1> DEFINE f == CHOOSE f : Splitter(f, Byte, End, cut, piece)
<1>1. Splitter(f, Byte, End, cut, piece)
  BY SplitterExists
<1> HIDE DEF f
<1>2. \A s \in Seq(Byte) : f[s] \in Seq(Seq(Byte))
  BY <1>1, SplitterType
<1> QED BY <1>2 DEF f

\* The fields of a line.
LEMMA FieldsType ==
  ASSUME NEW line \in Seq(Byte)
  PROVE  Filter!Fields(line) \in Seq(Seq(Byte))
<1> DEFINE S == Seq(Byte)
           End == {s \in S : TabAt(s) = 0}
           cut == [s \in S |-> TabAt(s)]
           piece == [s \in S |-> IF TabAt(s) = 0 THEN <<s>> ELSE <<SubSeq(s, 1, TabAt(s) - 1)>>]
           Is(f) == f = [s \in S |->
                          LET k == TabAt(s)
                          IN  IF k = 0 THEN <<s>>
                              ELSE <<SubSeq(s, 1, k - 1)>> \o f[SubSeq(s, k + 1, Len(s))]]
<1>1. SplitOn(Byte, End, cut, piece)
  <2>1. ASSUME NEW s \in S PROVE piece[s] \in Seq(Seq(Byte)) /\ (s \in End \/ cut[s] \in 1..Len(s))
    <3>1. TabAt(s) \in 0..Len(s) /\ Len(s) \in Nat
      BY PlacesInLine, LenProperties
    <3>2. TabAt(s) # 0 => SubSeq(s, 1, TabAt(s) - 1) \in S
      <4>1. TabAt(s) # 0 => TabAt(s) - 1 \in 0..Len(s)
        BY <3>1
      <4> QED BY <4>1, CutInTwo
    <3>3. piece[s] \in Seq(Seq(Byte))
      BY <3>2
    <3> QED BY <3>1, <3>3
  <2> HIDE DEF End, cut
  <2>2. piece \in [S -> Seq(Seq(Byte))]
    <3>1. \A s \in S : piece[s] \in Seq(Seq(Byte))
      BY <2>1
    <3> QED BY <3>1
  <2> HIDE DEF piece
  <2> QED BY <2>1, <2>2 DEF SplitOn
<1>2. ASSUME NEW f PROVE Is(f) <=> Splitter(f, Byte, End, cut, piece)
  <2> DEFINE L(s) == IF TabAt(s) = 0 THEN <<s>>
                     ELSE <<SubSeq(s, 1, TabAt(s) - 1)>> \o f[SubSeq(s, TabAt(s) + 1, Len(s))]
             R(s) == IF s \in End THEN piece[s] ELSE piece[s] \o f[SubSeq(s, cut[s] + 1, Len(s))]
  <2>1. \A s \in S : L(s) = R(s)
    OBVIOUS
  <2>2. Is(f) <=> f = [s \in S |-> L(s)]
    OBVIOUS
  <2>3. Splitter(f, Byte, End, cut, piece) <=> f = [s \in S |-> R(s)]
    BY DEF Splitter
  <2> HIDE DEF L, R, S
  <2>4. [s \in S |-> L(s)] = [s \in S |-> R(s)]
    BY <2>1
  <2> HIDE DEF Is, cut, piece, End
  <2> QED BY <2>2, <2>3, <2>4
<1>3. (CHOOSE f : Is(f)) = CHOOSE f : Splitter(f, Byte, End, cut, piece)
  <2> HIDE DEF Is, cut, piece, End
  <2> QED BY <1>2
<1>4. Filter!Fields(line) = (CHOOSE f : Is(f))[line]
  BY DEF Filter!Fields, TabAt
<1>5. (CHOOSE f : Splitter(f, Byte, End, cut, piece))[line] \in Seq(Seq(Byte))
  <2> HIDE DEF cut, piece, End
  <2> QED BY <1>1, CutsALine
<1> HIDE DEF Is, cut, piece, End
<1> QED BY <1>3, <1>4, <1>5

\* The characters of a line.
LEMMA CharactersType ==
  ASSUME NEW line \in Seq(Byte)
  PROVE  Filter!Characters(line) \in Seq(Seq(Byte))
<1> DEFINE S == Seq(Byte)
           End == {s \in S : CharacterEnd(s) = 0}
           cut == [s \in S |-> CharacterEnd(s)]
           piece == [s \in S |-> IF CharacterEnd(s) = 0 THEN <<s>>
                                 ELSE <<SubSeq(s, 1, CharacterEnd(s))>>]
           Is(f) == f = [s \in S |->
                          LET k == CharacterEnd(s)
                          IN  IF k = 0 THEN <<s>>
                              ELSE <<SubSeq(s, 1, k)>> \o f[SubSeq(s, k + 1, Len(s))]]
<1>1. SplitOn(Byte, End, cut, piece)
  <2>1. ASSUME NEW s \in S PROVE piece[s] \in Seq(Seq(Byte)) /\ (s \in End \/ cut[s] \in 1..Len(s))
    <3>1. CharacterEnd(s) \in 0..Len(s) /\ Len(s) \in Nat
      BY PlacesInLine, LenProperties
    <3>2. SubSeq(s, 1, CharacterEnd(s)) \in S
      BY <3>1, CutInTwo
    <3>3. piece[s] \in Seq(Seq(Byte))
      BY <3>2
    <3> QED BY <3>1, <3>3
  <2> HIDE DEF End, cut
  <2>2. piece \in [S -> Seq(Seq(Byte))]
    <3>1. \A s \in S : piece[s] \in Seq(Seq(Byte))
      BY <2>1
    <3> QED BY <3>1
  <2> HIDE DEF piece
  <2> QED BY <2>1, <2>2 DEF SplitOn
<1>2. ASSUME NEW f PROVE Is(f) <=> Splitter(f, Byte, End, cut, piece)
  <2> DEFINE L(s) == IF CharacterEnd(s) = 0 THEN <<s>>
                     ELSE <<SubSeq(s, 1, CharacterEnd(s))>>
                            \o f[SubSeq(s, CharacterEnd(s) + 1, Len(s))]
             R(s) == IF s \in End THEN piece[s] ELSE piece[s] \o f[SubSeq(s, cut[s] + 1, Len(s))]
  <2>1. \A s \in S : L(s) = R(s)
    OBVIOUS
  <2>2. Is(f) <=> f = [s \in S |-> L(s)]
    OBVIOUS
  <2>3. Splitter(f, Byte, End, cut, piece) <=> f = [s \in S |-> R(s)]
    BY DEF Splitter
  <2> HIDE DEF L, R, S
  <2>4. [s \in S |-> L(s)] = [s \in S |-> R(s)]
    BY <2>1
  <2> HIDE DEF Is, cut, piece, End
  <2> QED BY <2>2, <2>3, <2>4
<1>3. (CHOOSE f : Is(f)) = CHOOSE f : Splitter(f, Byte, End, cut, piece)
  <2> HIDE DEF Is, cut, piece, End
  <2> QED BY <1>2
<1>4. Filter!Characters(line) = IF line = <<>> THEN <<>> ELSE (CHOOSE f : Is(f))[line]
  BY DEF Filter!Characters, CharacterEnd
<1>5. (CHOOSE f : Splitter(f, Byte, End, cut, piece))[line] \in Seq(Seq(Byte))
  <2> HIDE DEF cut, piece, End
  <2> QED BY <1>1, CutsALine
<1>6. <<>> \in Seq(Seq(Byte))
  BY EmptySeq
<1> HIDE DEF Is, cut, piece, End
<1> QED BY <1>3, <1>4, <1>5, <1>6

UnitNames == {"byte", "character", "field"}

\* The units of a line.
LEMMA UnitsType ==
  ASSUME NEW line \in Seq(Byte), NEW unit \in UnitNames
  PROVE  Filter!Units(line, unit) \in Seq(Seq(Byte))
<1>1. CASE unit = "byte"
  <2>1. \A i \in 1..Len(line) : <<line[i]>> \in Seq(Byte)
    BY ElementOfSeq
  <2>2. [i \in 1..Len(line) |-> <<line[i]>>] \in Seq(Seq(Byte))
    BY <2>1, LenProperties
  <2> QED BY <1>1, <2>2 DEF Filter!Units
<1>2. CASE unit = "character"
  BY <1>2, CharactersType DEF Filter!Units
<1>3. CASE unit = "field"
  <2> DEFINE f == Filter!Fields(line)
  <2>1. f \in Seq(Seq(Byte)) /\ <<"tab">> \in Seq(Byte)
    BY FieldsType, BytesAssumption
  <2> HIDE DEF f
  <2>2. \A i \in 1..Len(f) : f[i] \o <<"tab">> \in Seq(Byte)
    BY <2>1, ElementOfSeq, ConcatProperties
  <2>3. [i \in 1..Len(f) |-> f[i] \o <<"tab">>] \in Seq(Seq(Byte))
    BY <2>1, <2>2, LenProperties
  <2>4. Filter!Units(line, unit) = [i \in 1..Len(f) |-> f[i] \o <<"tab">>]
    BY <1>3 DEF Filter!Units, f
  <2> QED BY <2>3, <2>4
<1> QED BY <1>1, <1>2, <1>3 DEF UnitNames

\* A range as main() parses it.
IsRange(range) ==
  /\ range.form \in {"N", "N-", "-M", "N-M"}
  /\ range.form # "-M" => range.n \in 0..MaxUsize
  /\ range.form \in {"-M", "N-M"} => range.m \in 0..MaxUsize

\* The positions that are taken are those that are named, if the range starts at one.
LEMMA NamedUnits ==
  ASSUME NEW range, IsRange(range), Filter!CountsFromOne(range), NEW n \in Nat
  PROVE  LET first == Filter!SaturatingSub(Filter!Bounds(range)[1], 1)
             count == Filter!SaturatingSub(Filter!OnePast(Filter!Bounds(range)[2]),
                                           Filter!Bounds(range)[1])
             last == Filter!Min({first + count, n})
         IN  /\ first \in Nat /\ last \in 0..n
             /\ \A i \in 1..n : i \in Filter!Named(range) <=> i \in (first + 1)..last
<1> DEFINE a == Filter!Bounds(range)[1]
           b == Filter!Bounds(range)[2]
           first == Filter!SaturatingSub(a, 1)
           count == Filter!SaturatingSub(Filter!OnePast(b), a)
           last == Filter!Min({first + count, n})
<1>1. a \in 0..MaxUsize /\ b \in 0..MaxUsize
  <2>1. MaxUsize - 1 \in 0..MaxUsize /\ 0 \in 0..MaxUsize
    BY MaxUsizeAssumption
  <2>2. \/ range.form = "N" /\ a = range.n /\ b = range.n
        \/ range.form = "N-" /\ a = range.n /\ b = MaxUsize - 1
        \/ range.form = "-M" /\ a = 0 /\ b = range.m
        \/ range.form = "N-M" /\ a = range.n /\ b = range.m
    BY DEF IsRange, Filter!Bounds
  <2> HIDE DEF a, b
  <2> QED BY <2>1, <2>2 DEF IsRange
<1>2. Filter!Named(range) = a..b /\ a # 0 /\ b # MaxUsize
  <2>1. a # 0 /\ b # MaxUsize
    BY DEF Filter!CountsFromOne, Filter!Overflows
  <2>2. range.form # "-M"
    BY <2>1 DEF Filter!Bounds
  <2>3. CASE range.form = "N"
    <3>1. a = range.n /\ b = range.n /\ Filter!Named(range) = {range.n}
      BY <2>3 DEF Filter!Bounds, Filter!Named
    <3> HIDE DEF a, b
    <3> QED BY <1>1, <2>1, <3>1, MaxUsizeAssumption
  <2>4. CASE range.form \in {"N-", "N-M"}
    BY <2>1, <2>4 DEF Filter!Bounds, Filter!Named
  <2> QED BY <2>2, <2>3, <2>4 DEF IsRange
<1> HIDE DEF a, b
<1>3. first = (IF a > 1 THEN a - 1 ELSE 0) /\ first \in Nat
  BY <1>1, MaxUsizeAssumption DEF Filter!SaturatingSub
<1>4. Filter!OnePast(b) = IF b = MaxUsize THEN 0 ELSE b + 1
  <2>1. CASE b = MaxUsize
    <3>1. (b + 1) % (MaxUsize + 1) = 0
      BY <1>1, <2>1, MaxUsizeAssumption
    <3> QED BY <2>1, <3>1 DEF Filter!OnePast
  <2>2. CASE b # MaxUsize
    <3>1. (b + 1) % (MaxUsize + 1) = b + 1
      BY <1>1, <2>2, MaxUsizeAssumption
    <3> QED BY <2>2, <3>1 DEF Filter!OnePast
  <2> QED BY <2>1, <2>2
<1>5. count = (IF b # MaxUsize /\ b + 1 > a THEN (b + 1) - a ELSE 0) /\ count \in Nat
  BY <1>1, <1>4, MaxUsizeAssumption DEF Filter!SaturatingSub
<1> HIDE DEF first, count
<1>6. last = IF first + count <= n THEN first + count ELSE n
  <2> DEFINE T == {first + count, n}
  <2>1. T \subseteq Nat /\ T # {}
    BY <1>3, <1>5
  <2>2. Min(T) \in T /\ \A y \in T : Min(T) <= y
    <3> HIDE DEF T
    <3> QED BY <2>1, MinIsLeast
  <2>3. Filter!Min(T) = Min(T)
    BY SameOperators
  <2> QED BY <1>3, <1>5, <2>2, <2>3
<1> HIDE DEF last
<1>7. last \in 0..n
  BY <1>3, <1>5, <1>6
<1>8. ASSUME NEW i \in 1..n
      PROVE  i \in Filter!Named(range) <=> i \in (first + 1)..last
  BY <1>1, <1>2, <1>3, <1>5, <1>6
<1> QED BY <1>3, <1>7, <1>8 DEF first, count, last, a, b

\* cut() takes of a line what the range names, if that starts at a position.
LEMMA CutAgrees ==
  ASSUME NEW line \in Seq(Byte), NEW unit \in UnitNames, NEW range, IsRange(range),
         Filter!CountsFromOne(range)
  PROVE  Filter!CutLine(line, unit, range) = Filter!CutReference(line, unit, range)
<1> DEFINE u == Filter!Units(line, unit)
           n == Len(u)
           first == Filter!SaturatingSub(Filter!Bounds(range)[1], 1)
           count == Filter!SaturatingSub(Filter!OnePast(Filter!Bounds(range)[2]),
                                         Filter!Bounds(range)[1])
           last == Filter!Min({first + count, n})
           h == [i \in 1..n |-> IF i \in Filter!Named(range) THEN u[i] ELSE <<>>]
           chosen == SubSeq(u, first + 1, last)
<1>1. u \in Seq(Seq(Byte)) /\ n \in Nat
  BY UnitsType, LenProperties
<1>2. Filter!CutLine(line, unit, range) = FlattenSeq(chosen) \o <<"nl">>
  BY SameOperators DEF Filter!CutLine, Filter!Selected
<1>3. Filter!CutReference(line, unit, range) = FlattenSeq(h) \o <<"nl">>
  BY SameOperators DEF Filter!CutReference
<1> HIDE DEF u
<1>4. /\ first \in Nat /\ last \in 0..n
      /\ \A i \in 1..n : i \in Filter!Named(range) <=> i \in (first + 1)..last
  <2> HIDE DEF n
  <2> QED BY <1>1, NamedUnits
<1> HIDE DEF n, first, last
<1>5. h = [i \in 1..n |-> IF i \in (first + 1)..last THEN u[i] ELSE <<>>]
  BY <1>4
<1>6. FlattenSeq(h) = FlattenSeq(chosen)
  <2>1. CASE first <= last
    <3>1. first \in 0..Len(u) /\ last \in first..Len(u)
      BY <1>1, <1>4, <2>1 DEF n
    <3>2. FlattenSeq([i \in 1..Len(u) |-> IF i \in (first + 1)..last THEN u[i] ELSE <<>>])
            = FlattenSeq(chosen)
      BY <1>1, <3>1, FlattenMasked
    <3> QED BY <1>5, <3>2 DEF n
  <2>2. CASE last < first
    <3>1. chosen = <<>>
      <4>1. first + 1 \in Int /\ last \in Int /\ last < first + 1
        BY <1>1, <1>4, <2>2
      <4> QED BY <4>1, SubSeqEmpty
    <3>2. \A i \in 1..n : h[i] = <<>>
      BY <1>1, <1>4, <1>5, <2>2
    <3>3. h \in Seq(Seq(Byte)) /\ Len(h) = n
      <4>1. \A i \in 1..n : u[i] \in Seq(Byte) /\ <<>> \in Seq(Byte)
        BY <1>1, ElementOfSeq, EmptySeq DEF n
      <4>2. \A i \in 1..n : h[i] \in Seq(Byte)
        BY <4>1
      <4>3. h = [i \in 1..n |-> h[i]]
        OBVIOUS
      <4> HIDE DEF h
      <4> QED BY <1>1, <4>2, <4>3, ListOf
    <3> HIDE DEF h
    <3>4. FlattenSeq(h) = <<>>
      BY <3>2, <3>3, FlattenEmpties
    <3> QED BY <3>1, <3>4, FlattenEmpty
  <2> QED BY <1>1, <1>4, <2>1, <2>2
<1> HIDE DEF h, chosen
<1> QED BY <1>2, <1>3, <1>6

\* What cut() takes of a line consists of bytes, for every range.
LEMMA CutLineType ==
  ASSUME NEW line \in Seq(Byte), NEW unit \in UnitNames, NEW range, IsRange(range)
  PROVE  Filter!CutLine(line, unit, range) \in Seq(Byte)
<1> DEFINE u == Filter!Units(line, unit)
           n == Len(u)
           a == Filter!Bounds(range)[1]
           b == Filter!Bounds(range)[2]
           first == Filter!SaturatingSub(a, 1)
           count == Filter!SaturatingSub(Filter!OnePast(b), a)
           last == Filter!Min({first + count, n})
           chosen == SubSeq(u, first + 1, last)
<1>1. u \in Seq(Seq(Byte)) /\ n \in Nat
  BY UnitsType, LenProperties
<1>2. Filter!CutLine(line, unit, range) = FlattenSeq(chosen) \o <<"nl">>
  BY SameOperators DEF Filter!CutLine, Filter!Selected
<1> HIDE DEF u
<1>3. a \in Nat /\ b \in Nat
  <2>1. MaxUsize - 1 \in Nat
    BY MaxUsizeAssumption
  <2>2. \/ range.form = "N" /\ a = range.n /\ b = range.n
        \/ range.form = "N-" /\ a = range.n /\ b = MaxUsize - 1
        \/ range.form = "-M" /\ a = 0 /\ b = range.m
        \/ range.form = "N-M" /\ a = range.n /\ b = range.m
    BY DEF IsRange, Filter!Bounds
  <2> HIDE DEF a, b
  <2> QED BY <2>1, <2>2, MaxUsizeAssumption DEF IsRange
<1> HIDE DEF a, b, n
<1>4. first \in Nat /\ count \in Nat
  <2>1. Filter!OnePast(b) \in Nat
    BY <1>3, MaxUsizeAssumption DEF Filter!OnePast
  <2> QED BY <1>3, <2>1 DEF Filter!SaturatingSub
<1> HIDE DEF first, count
<1>5. last \in Nat /\ last <= n
  <2> DEFINE T == {first + count, n}
  <2>1. T \subseteq Nat /\ T # {} /\ n \in T
    BY <1>1, <1>4
  <2>2. Min(T) \in T /\ \A y \in T : Min(T) <= y
    <3> HIDE DEF T
    <3> QED BY <2>1, MinIsLeast
  <2>3. Filter!Min(T) = Min(T)
    BY SameOperators
  <2> QED BY <2>1, <2>2, <2>3
<1> HIDE DEF last
<1>6. chosen \in Seq(Seq(Byte))
  <2>1. \A i \in (first + 1)..last : i \in 1..Len(u)
    BY <1>1, <1>4, <1>5 DEF n
  <2> QED BY <1>1, <1>4, <1>5, <2>1, SubSeqProperties DEF n
<1> HIDE DEF chosen
<1>7. FlattenSeq(chosen) \in Seq(Byte)
  BY <1>6, FlattenType
<1>8. <<"nl">> \in Seq(Byte)
  BY BytesAssumption
<1>9. FlattenSeq(chosen) \o <<"nl">> \in Seq(Byte)
  BY <1>7, <1>8, ConcatProperties
<1> QED BY <1>2, <1>9

\* What the filter can write: bytes, and the numbers of lines.
Symbol == Byte \cup {Filter!ToString(n) : n \in Nat}

LineWise(c) == c.program \in {"number", "cut"}

\* What command c makes of the n-th line of an input, and of an input.
MadeOf(c, n, line) ==
  IF c.program = "number" THEN <<Filter!ToString(n)>> \o line \o <<"nl">>
  ELSE Filter!CutLine(line, c.unit, c.range)
MadeOfLines(c, all) == FlattenSeq([i \in 1..Len(all) |-> MadeOf(c, i, all[i])])
ReferenceOf(c, bytes) ==
  IF LineWise(c) THEN MadeOfLines(c, Filter!LinesOf(bytes)) ELSE bytes

\* What has been made of the inputs when b has been read and not been used.
UsedPart(t, b) == SubSeq(t, 1, Len(t) - Len(b))
DoneOf(c, t, b) ==
  FlattenSeq([i \in 1..Len(t) |-> ReferenceOf(c, IF i = Len(t) THEN UsedPart(t[i], b) ELSE t[i])])

\* A command is well formed.
LEMMA CommandParts ==
  ASSUME NEW c \in Commands
  PROVE  /\ c.program \in {"cat", "number", "cut", "pv", "tee"}
         /\ c.unit \in UnitNames /\ IsRange(c.range)
BY CommandsAssumption DEF UnitNames, IsRange

\* What is made of a line consists of symbols.
LEMMA MadeType ==
  ASSUME NEW c \in Commands, NEW n \in Nat, NEW line \in Seq(Byte)
  PROVE  MadeOf(c, n, line) \in Seq(Symbol)
<1>1. Byte \subseteq Symbol /\ <<Filter!ToString(n)>> \in Seq(Symbol)
  <2>1. Filter!ToString(n) \in Symbol
    BY DEF Symbol
  <2> QED BY <2>1 DEF Symbol
<1>2. \A s \in Seq(Byte) : s \in Seq(Symbol)
  BY <1>1, SeqMonotonic
<1>3. <<"nl">> \in Seq(Symbol)
  BY <1>1, BytesAssumption
<1>4. Filter!CutLine(line, c.unit, c.range) \in Seq(Symbol)
  BY <1>2, CommandParts, CutLineType
<1> DEFINE x == <<Filter!ToString(n)>>
<1> HIDE DEF x
<1>5. x \o line \in Seq(Symbol)
  BY <1>1, <1>2, ConcatProperties DEF x
<1>6. (x \o line) \o <<"nl">> \in Seq(Symbol)
  BY <1>3, <1>5, ConcatProperties
<1> QED BY <1>4, <1>6 DEF MadeOf, x

\* So does what is made of an input.
LEMMA ReferenceType ==
  ASSUME NEW c \in Commands
  PROVE  /\ \A all \in Seq(Seq(Byte)) : MadeOfLines(c, all) \in Seq(Symbol)
         /\ \A s \in Seq(Byte) : ReferenceOf(c, s) \in Seq(Symbol)
<1>1. ASSUME NEW all \in Seq(Seq(Byte)) PROVE MadeOfLines(c, all) \in Seq(Symbol)
  <2> DEFINE f == [i \in 1..Len(all) |-> MadeOf(c, i, all[i])]
  <2>1. \A i \in 1..Len(all) : MadeOf(c, i, all[i]) \in Seq(Symbol)
    BY MadeType, ElementOfSeq, LenProperties
  <2>2. f \in Seq(Seq(Symbol))
    BY <2>1, LenProperties
  <2> HIDE DEF f
  <2> QED BY <2>2, FlattenType DEF MadeOfLines, f
<1>2. \A s \in Seq(Byte) : s \in Seq(Symbol)
  <2>1. Byte \subseteq Symbol
    BY DEF Symbol
  <2> QED BY <2>1, SeqMonotonic
<1> QED BY <1>1, <1>2, LinesDefined DEF ReferenceOf

\* Nothing is made of nothing.
LEMMA ReferenceOfNothing ==
  ASSUME NEW c PROVE ReferenceOf(c, <<>>) = <<>>
<1>1. MadeOfLines(c, <<>>) = FlattenSeq(<<>>)
  BY DEF MadeOfLines
<1> QED BY <1>1, LinesDefined, FlattenEmpty DEF ReferenceOf

\* What is made of some lines and then others.
LEMMA MadeOfMoreLines ==
  ASSUME NEW c \in Commands, NEW a \in Seq(Seq(Byte)), NEW b \in Seq(Seq(Byte))
  PROVE  LET more == FlattenSeq([j \in 1..Len(b) |-> MadeOf(c, Len(a) + j, b[j])])
         IN  /\ more \in Seq(Symbol)
             /\ MadeOfLines(c, a \o b) = MadeOfLines(c, a) \o more
<1> DEFINE n == Len(a)
           m == Len(b)
           t == a \o b
           f == [i \in 1..(n + m) |-> MadeOf(c, i, t[i])]
           g == [i \in 1..n |-> MadeOf(c, i, a[i])]
           h == [j \in 1..m |-> MadeOf(c, n + j, b[j])]
<1>1. n \in Nat /\ m \in Nat
  BY LenProperties
<1>2. /\ t \in Seq(Seq(Byte)) /\ Len(t) = n + m
      /\ \A i \in 1..(n + m) : t[i] = IF i <= n THEN a[i] ELSE b[i - n]
  BY ConcatProperties
<1> HIDE DEF t
<1>3. f \in [1..(n + m) -> Seq(Symbol)]
  <2>1. \A i \in 1..(n + m) : t[i] \in Seq(Byte)
    BY <1>2, ElementOfSeq
  <2> HIDE DEF n, m
  <2>2. \A i \in 1..(n + m) : MadeOf(c, i, t[i]) \in Seq(Symbol)
    BY <1>1, <2>1, MadeType
  <2> QED BY <2>2
<1> HIDE DEF n, m
<1>4. FirstValues(f, n) = g
  <2>1. \A i \in 1..n : i \in 1..(n + m) /\ t[i] = a[i]
    BY <1>1, <1>2
  <2> QED BY <2>1 DEF FirstValues
<1>5. LastValues(f, n, m) = h
  <2>1. \A j \in 1..m : n + j \in 1..(n + m) /\ ~ (n + j <= n) /\ (n + j) - n = j
    BY <1>1
  <2>2. \A j \in 1..m : t[n + j] = b[j]
    BY <1>2, <2>1
  <2> QED BY <2>1, <2>2 DEF LastValues
<1> HIDE DEF f, g, h
<1>6. FlattenSeq(h) \in Seq(Symbol) /\ FlattenSeq(f) = FlattenSeq(g) \o FlattenSeq(h)
  BY <1>1, <1>3, <1>4, <1>5, FlattenTwoParts
<1>7. MadeOfLines(c, t) = FlattenSeq(f) /\ MadeOfLines(c, a) = FlattenSeq(g)
  BY <1>2 DEF MadeOfLines, f, g, n
<1> QED BY <1>6, <1>7 DEF h, n, m, t

\* More of an input, when it was cut at the end of a line, adds to what is made of it.
LEMMA ReferenceGrows ==
  ASSUME NEW c \in Commands, NEW u \in Seq(Byte), NEW w \in Seq(Byte),
         LineWise(c) => EndsLine(u) \/ w = <<>>
  PROVE  \E x \in Seq(Symbol) : ReferenceOf(c, u \o w) = ReferenceOf(c, u) \o x
<1>1. CASE ~ LineWise(c)
  <2>1. w \in Seq(Symbol)
    <3>1. Byte \subseteq Symbol
      BY DEF Symbol
    <3> QED BY <3>1, SeqMonotonic
  <2> QED BY <1>1, <2>1 DEF ReferenceOf
<1>2. CASE w = <<>>
  <2>1. ReferenceOf(c, u) \in Seq(Symbol) /\ <<>> \in Seq(Symbol) /\ u \o w = u
    BY <1>2, ReferenceType, EmptySeq, ConcatEmptySeq
  <2> QED BY <2>1, ConcatEmptySeq
<1>3. CASE LineWise(c) /\ EndsLine(u)
  <2>1. Filter!LinesOf(u \o w) = Filter!LinesOf(u) \o Filter!LinesOf(w)
    BY <1>3, LinesConcat
  <2>2. Filter!LinesOf(u) \in Seq(Seq(Byte)) /\ Filter!LinesOf(w) \in Seq(Seq(Byte))
    BY LinesDefined
  <2> DEFINE a == Filter!LinesOf(u)
             b == Filter!LinesOf(w)
             x == FlattenSeq([j \in 1..Len(b) |-> MadeOf(c, Len(a) + j, b[j])])
  <2> HIDE DEF a, b
  <2>3. x \in Seq(Symbol) /\ MadeOfLines(c, a \o b) = MadeOfLines(c, a) \o x
    BY <2>2, MadeOfMoreLines DEF a, b
  <2> HIDE DEF x
  <2> QED BY <1>3, <2>1, <2>3 DEF ReferenceOf, a, b
<1> QED BY <1>1, <1>2, <1>3

\* One more line adds what is made of it, if it is one.
LEMMA ReferenceOfLine ==
  ASSUME NEW c \in Commands, LineWise(c), NEW u \in Seq(Byte), EndsLine(u),
         NEW l \in Seq(Byte), l # <<>>, FirstCut(l) = Len(l)
  PROVE  LET n == Len(Filter!LinesOf(u))
             line == Filter!LineIn(l)
         IN  /\ n \in Nat /\ line \in Seq(Byte)
             /\ Contains(line, "bad") =>
                  /\ ReferenceOf(c, u \o l) = ReferenceOf(c, u)
                  /\ Filter!LinesOf(u \o l) = Filter!LinesOf(u)
             /\ ~ Contains(line, "bad") =>
                  /\ ReferenceOf(c, u \o l) = ReferenceOf(c, u) \o MadeOf(c, n + 1, line)
                  /\ Len(Filter!LinesOf(u \o l)) = n + 1
<1> DEFINE a == Filter!LinesOf(u)
           line == Filter!LineIn(l)
           n == Len(a)
<1>1. a \in Seq(Seq(Byte)) /\ n \in Nat /\ line \in Seq(Byte)
  BY LinesDefined, LenProperties, LineInType
<1>2. Filter!LinesOf(u \o l) = a \o LinesIn(l)
  BY LinesConcat, LinesOfOne
<1>3. CASE Contains(line, "bad")
  <2>1. LinesIn(l) = <<>>
    BY <1>3 DEF LinesIn
  <2>2. Filter!LinesOf(u \o l) = a
    BY <1>1, <1>2, <2>1, ConcatEmptySeq
  <2> QED BY <1>1, <1>3, <2>2 DEF ReferenceOf
<1>4. CASE ~ Contains(line, "bad")
  <2>1. LinesIn(l) = <<line>>
    BY <1>4 DEF LinesIn
  <2> HIDE DEF a, line
  <2> DEFINE b == <<line>>
             f == [j \in 1..Len(b) |-> MadeOf(c, Len(a) + j, b[j])]
             x == MadeOf(c, n + 1, line)
  <2>2. b \in Seq(Seq(Byte)) /\ Len(b) = 1 /\ b[1] = line
    BY <1>1
  <2>3. MadeOfLines(c, a \o b) = MadeOfLines(c, a) \o FlattenSeq(f)
    BY <1>1, <2>2, MadeOfMoreLines
  <2>4. FlattenSeq(f) = x
    <3>1. x \in Seq(Symbol)
      BY <1>1, MadeType
    <3>2. f = <<x>>
      BY <2>2
    <3> HIDE DEF x, f
    <3>3. FlattenSeq(Append(<<>>, x)) = FlattenSeq(<<>>) \o x
      BY <3>1, FlattenAppend, EmptySeq
    <3>4. Append(<<>>, x) = <<x>>
      OBVIOUS
    <3> QED BY <3>1, <3>2, <3>3, <3>4, FlattenEmpty, ConcatEmptySeq
  <2>5. Len(a \o b) = n + 1
    <3> HIDE DEF b
    <3>1. Len(a \o b) = Len(a) + Len(b)
      BY <1>1, <2>2, ConcatProperties
    <3> QED BY <2>2, <3>1
  <2> HIDE DEF b, f, x, n
  <2>6. Filter!LinesOf(u \o l) = a \o b
    BY <1>2, <2>1 DEF b
  <2> QED BY <1>1, <1>4, <2>3, <2>4, <2>5, <2>6 DEF ReferenceOf, a, line, n, x
<1> QED BY <1>3, <1>4

\* What is made of the first inputs, each of them in full.
BeforeOf(c, t, k) == FlattenSeq([i \in 1..k |-> ReferenceOf(c, t[i])])

\* A part of an input that has been used is a part of the input.
LEMMA UsedType ==
  ASSUME NEW B, NEW t \in Seq(B), NEW b \in Seq(B)
  PROVE  UsedPart(t, b) \in Seq(B)
<1>1. Len(t) \in Nat /\ Len(b) \in Nat
  BY LenProperties
<1>2. CASE Len(b) <= Len(t)
  <2>1. Len(t) - Len(b) \in 0..Len(t)
    BY <1>1, <1>2
  <2> QED BY <2>1, CutInTwo DEF UsedPart
<1>3. CASE Len(t) < Len(b)
  <2>1. Len(t) - Len(b) \in Int /\ Len(t) - Len(b) < 1
    BY <1>1, <1>3
  <2> QED BY <2>1, SubSeqEmpty, EmptySeq DEF UsedPart
<1> QED BY <1>1, <1>2, <1>3

\* What is before what is left.
LEMMA UsedOfConcat ==
  ASSUME NEW B, NEW u \in Seq(B), NEW b \in Seq(B)
  PROVE  UsedPart(u \o b, b) = u
<1>1. Len(u \o b) = Len(u) + Len(b) /\ Len(u) \in Nat /\ Len(b) \in Nat
  BY ConcatProperties, LenProperties
<1>2. Len(u \o b) - Len(b) = Len(u) /\ Len(u) \in 0..Len(u)
  BY <1>1
<1>3. SubSeq(u \o b, 1, Len(u)) = SubSeq(u, 1, Len(u))
  BY <1>2, CutOfConcat
<1> QED BY <1>2, <1>3, SubSeqFull DEF UsedPart

\* Nothing is used of nothing, and everything when nothing is left.
LEMMA UsedOfNothing ==
  ASSUME NEW B, NEW t \in Seq(B), NEW b \in Seq(B)
  PROVE  UsedPart(<<>>, b) = <<>> /\ UsedPart(t, <<>>) = t
<1>1. Len(t) \in Nat /\ Len(b) \in Nat /\ Len(<<>>) = 0
  BY LenProperties
<1>2. UsedPart(<<>>, b) = <<>>
  <2>1. Len(<<>>) - Len(b) \in Int /\ Len(<<>>) - Len(b) < 1
    BY <1>1
  <2> QED BY <2>1, SubSeqEmpty DEF UsedPart
<1>3. UsedPart(t, <<>>) = SubSeq(t, 1, Len(t))
  BY <1>1 DEF UsedPart
<1> QED BY <1>2, <1>3, SubSeqFull

\* What has been made, of the earlier inputs and of the last one.
LEMMA DoneSplit ==
  ASSUME NEW c \in Commands, NEW t \in Seq(Seq(Byte)), NEW b \in Seq(Byte), t # <<>>
  PROVE  LET n == Len(t)
         IN  /\ n \in Nat \ {0} /\ BeforeOf(c, t, n - 1) \in Seq(Symbol)
             /\ DoneOf(c, t, b) = BeforeOf(c, t, n - 1) \o ReferenceOf(c, UsedPart(t[n], b))
             /\ ReferenceOf(c, UsedPart(t[n], b)) \in Seq(Symbol)
<1> DEFINE n == Len(t)
           f == [i \in 1..n |-> ReferenceOf(c, IF i = n THEN UsedPart(t[i], b) ELSE t[i])]
           last == ReferenceOf(c, UsedPart(t[n], b))
           g == [i \in 1..(n - 1) |-> ReferenceOf(c, t[i])]
<1>1. n \in Nat \ {0}
  BY EmptySeq
<1>2. \A i \in 1..n : t[i] \in Seq(Byte)
  BY ElementOfSeq
<1> HIDE DEF n
<1>3. last \in Seq(Symbol)
  BY <1>1, <1>2, UsedType, ReferenceType
<1>4. g \in Seq(Seq(Symbol))
  <2>1. \A i \in 1..(n - 1) : ReferenceOf(c, t[i]) \in Seq(Symbol)
    BY <1>1, <1>2, ReferenceType
  <2> QED BY <1>1, <2>1
<1>5. f = Append(g, last)
  <2>1. f \in Seq(Seq(Symbol)) /\ Len(f) = n
    <3>1. \A i \in 1..n : ReferenceOf(c, IF i = n THEN UsedPart(t[i], b) ELSE t[i]) \in Seq(Symbol)
      BY <1>2, <1>3, ReferenceType
    <3> QED BY <1>1, <3>1
  <2>2. f[n] = last /\ \A i \in 1..(n - 1) : f[i] = g[i]
    <3>1. n \in 1..n /\ \A i \in 1..(n - 1) : i \in 1..n /\ i # n
      BY <1>1
    <3> QED BY <3>1
  <2>3. Len(g) = n - 1
    BY <1>1
  <2> HIDE DEF f, g, last
  <2>4. /\ Append(g, last) \in Seq(Seq(Symbol)) /\ Len(Append(g, last)) = n
        /\ Append(g, last)[n] = last /\ \A i \in 1..(n - 1) : Append(g, last)[i] = g[i]
    <3>1. /\ Append(g, last) \in Seq(Seq(Symbol)) /\ Len(Append(g, last)) = Len(g) + 1
          /\ Append(g, last)[Len(g) + 1] = last
          /\ \A i \in 1..Len(g) : Append(g, last)[i] = g[i]
      BY <1>3, <1>4, AppendProperties
    <3> QED BY <1>1, <2>3, <3>1
  <2>5. \A i \in 1..n : f[i] = Append(g, last)[i]
    <3>1. \A i \in 1..n : i = n \/ i \in 1..(n - 1)
      BY <1>1
    <3> QED BY <2>2, <2>4, <3>1
  <2> QED BY <2>1, <2>4, <2>5, SeqEqual
<1> HIDE DEF f, g, last
<1>6. FlattenSeq(f) = FlattenSeq(g) \o last /\ FlattenSeq(g) \in Seq(Symbol)
  BY <1>3, <1>4, <1>5, FlattenAppend, FlattenType
<1>7. DoneOf(c, t, b) = FlattenSeq(f) /\ BeforeOf(c, t, n - 1) = FlattenSeq(g)
  BY DEF DoneOf, BeforeOf, f, g, n
<1> QED BY <1>1, <1>3, <1>6, <1>7 DEF last, n

\* The same, told by the length.
LEMMA DoneJoin ==
  ASSUME NEW c \in Commands, NEW t \in Seq(Seq(Byte)), NEW b \in Seq(Byte), t # <<>>
  PROVE  /\ IsJoin(DoneOf(c, t, b), BeforeOf(c, t, Len(t) - 1), ReferenceOf(c, UsedPart(t[Len(t)], b)))
         /\ BeforeOf(c, t, Len(t) - 1) \in Seq(Symbol)
<1> DEFINE before_last == BeforeOf(c, t, Len(t) - 1)
           last == ReferenceOf(c, UsedPart(t[Len(t)], b))
<1>1. DoneOf(c, t, b) = before_last \o last /\ before_last \in Seq(Symbol)
  BY DoneSplit
<1> HIDE DEF before_last, last
<1>2. IsJoin(DoneOf(c, t, b), before_last, last)
  BY <1>1 DEF IsJoin
<1> QED BY <1>1, <1>2 DEF before_last, last

\* What has been made before any input was opened; its type.
LEMMA DoneType ==
  ASSUME NEW c \in Commands, NEW t \in Seq(Seq(Byte)), NEW b \in Seq(Byte)
  PROVE  DoneOf(c, t, b) \in Seq(Symbol) /\ DoneOf(c, <<>>, b) = <<>>
<1>1. DoneOf(c, <<>>, b) = <<>>
  BY FlattenEmpty DEF DoneOf
<1>2. CASE t = <<>>
  BY <1>1, <1>2, EmptySeq
<1>3. CASE t # <<>>
  <2> DEFINE p == BeforeOf(c, t, Len(t) - 1)
             q == ReferenceOf(c, UsedPart(t[Len(t)], b))
  <2>1. p \in Seq(Symbol) /\ q \in Seq(Symbol) /\ DoneOf(c, t, b) = p \o q
    BY <1>3, DoneSplit
  <2> HIDE DEF p, q
  <2>2. p \o q \in Seq(Symbol)
    BY <2>1, ConcatProperties
  <2> QED BY <1>1, <2>1, <2>2
<1> QED BY <1>1, <1>2, <1>3

\* A sequence of which the last value is replaced.
LastReplaced(s, t, y) == s = [t EXCEPT ![Len(t)] = y]

\* It is told by the earlier inputs and what has been used of the last one.
LEMMA DoneSame ==
  ASSUME NEW c \in Commands, NEW t \in Seq(Seq(Byte)), NEW b \in Seq(Byte), t # <<>>,
         NEW y \in Seq(Byte), NEW d \in Seq(Byte), UsedPart(y, d) = UsedPart(t[Len(t)], b),
         NEW s, LastReplaced(s, t, y)
  PROVE  DoneOf(c, s, d) = DoneOf(c, t, b)
<1> DEFINE n == Len(t)
<1>1. n \in Nat \ {0} /\ n \in 1..n
  BY EmptySeq
<1>2. s \in Seq(Seq(Byte)) /\ Len(s) = n /\ \A i \in 1..n : s[i] = IF i = n THEN y ELSE t[i]
  BY <1>1, ExceptSeq DEF LastReplaced
<1>3. s # <<>>
  BY <1>1, <1>2, EmptySeq
<1>4. DoneOf(c, s, d) = BeforeOf(c, s, n - 1) \o ReferenceOf(c, UsedPart(s[n], d))
  BY <1>2, <1>3, DoneSplit
<1>5. DoneOf(c, t, b) = BeforeOf(c, t, n - 1) \o ReferenceOf(c, UsedPart(t[n], b))
  BY DoneSplit
<1> HIDE DEF n
<1>6. BeforeOf(c, s, n - 1) = BeforeOf(c, t, n - 1)
  <2>1. \A i \in 1..(n - 1) : s[i] = t[i]
    BY <1>1, <1>2
  <2> QED BY <2>1 DEF BeforeOf
<1>7. s[n] = y
  BY <1>1, <1>2
<1> QED BY <1>4, <1>5, <1>6, <1>7 DEF n

\* When what is used of the last input grows by l, and the reference of it by x, so does
\* what has been made.
LEMMA DoneGrows ==
  ASSUME NEW c \in Commands, NEW t \in Seq(Seq(Byte)), t # <<>>,
         NEW u \in Seq(Byte), NEW l \in Seq(Byte), NEW r \in Seq(Byte),
         NEW m, IsJoin(m, l, r), NEW v, IsJoin(v, u, l), IsJoin(t[Len(t)], u, m),
         NEW x \in Seq(Symbol), IsJoin(ReferenceOf(c, v), ReferenceOf(c, u), x)
  PROVE  IsJoin(DoneOf(c, t, r), DoneOf(c, t, m), x)
<1> DEFINE n == Len(t)
           p == BeforeOf(c, t, n - 1)
           q == ReferenceOf(c, u)
<1>1. m \in Seq(Byte) /\ v \in Seq(Byte)
  BY ConcatProperties DEF IsJoin
<1>2. UsedPart(t[n], m) = u
  BY <1>1, UsedOfConcat DEF IsJoin
<1>3. UsedPart(t[n], r) = v
  <2>1. t[n] = v \o r
    <3>1. SameJoin(u, l, r)
      BY JoinThree
    <3> QED BY <3>1 DEF SameJoin, IsJoin
  <2> QED BY <1>1, <2>1, UsedOfConcat
<1>4. DoneOf(c, t, m) = p \o q /\ p \in Seq(Symbol) /\ q \in Seq(Symbol)
  <2>1. DoneOf(c, t, m) = p \o ReferenceOf(c, UsedPart(t[n], m)) /\ p \in Seq(Symbol)
    BY <1>1, DoneSplit
  <2>2. q \in Seq(Symbol)
    BY ReferenceType
  <2> QED BY <1>2, <2>1, <2>2
<1>5. DoneOf(c, t, r) = p \o (q \o x)
  <2>1. DoneOf(c, t, r) = p \o ReferenceOf(c, UsedPart(t[n], r))
    BY DoneSplit
  <2>2. ReferenceOf(c, v) = q \o x
    BY DEF IsJoin
  <2> QED BY <1>3, <2>1, <2>2
<1> HIDE DEF p, q
<1>6. p \o (q \o x) = (p \o q) \o x
  <2>1. p \in Seq(Symbol) /\ q \in Seq(Symbol)
    BY <1>4
  <2>2. SameJoin(p, q, x)
    BY <2>1, JoinThree
  <2> QED BY <2>2 DEF SameJoin
<1> QED BY <1>4, <1>5, <1>6 DEF IsJoin

\* The next input adds nothing by itself, and the last one is done with: if anything of
\* it has not been used, what is made of that is in what is to be made.
LEMMA DoneNext ==
  ASSUME NEW c \in Commands, NEW t \in Seq(Seq(Byte)), NEW b \in Seq(Byte), NEW d \in Seq(Byte),
         t = <<>> \/ t[Len(t)] = <<>> \/ t[Len(t)] = UsedPart(t[Len(t)], b) \o b,
         t # <<>> /\ LineWise(c) => EndsLine(UsedPart(t[Len(t)], b)) \/ b = <<>>
  PROVE  \E x \in Seq(Symbol) :
           /\ DoneOf(c, Append(t, <<>>), d) = DoneOf(c, t, b) \o x
           /\ b = <<>> => x = <<>>
<1> DEFINE n == Len(t)
           s == Append(t, <<>>)
<1>1. <<>> \in Seq(Byte) /\ n \in Nat /\ <<>> \in Seq(Symbol)
  BY EmptySeq, LenProperties
<1>2. s \in Seq(Seq(Byte)) /\ s # <<>> /\ Len(s) = n + 1 /\ s[n + 1] = <<>>
      /\ \A i \in 1..n : s[i] = t[i]
  <2> DEFINE E == Seq(Byte)
             x == <<>>
  <2>1. t \in Seq(E) /\ x \in E
    BY <1>1
  <2> HIDE DEF E, x
  <2>2. /\ Append(t, x) \in Seq(E) /\ Append(t, x) # <<>> /\ Len(Append(t, x)) = Len(t) + 1
        /\ Append(t, x)[Len(t) + 1] = x /\ \A i \in 1..Len(t) : Append(t, x)[i] = t[i]
    BY <2>1, AppendProperties
  <2> QED BY <2>2 DEF E, x
<1> HIDE DEF s
<1>3. DoneOf(c, s, d) = BeforeOf(c, t, n)
  <2>1. BeforeOf(c, s, n) = BeforeOf(c, t, n)
    BY <1>2 DEF BeforeOf
  <2>2. (n + 1) - 1 = n
    BY <1>1
  <2>3. DoneOf(c, s, d) = BeforeOf(c, s, n) \o ReferenceOf(c, UsedPart(<<>>, d))
        /\ BeforeOf(c, s, n) \in Seq(Symbol)
    <3> HIDE DEF n
    <3>1. /\ IsJoin(DoneOf(c, s, d), BeforeOf(c, s, Len(s) - 1), ReferenceOf(c, UsedPart(s[Len(s)], d)))
          /\ BeforeOf(c, s, Len(s) - 1) \in Seq(Symbol)
      BY <1>2, DoneJoin
    <3>2. Len(s) - 1 = n /\ s[Len(s)] = <<>>
      BY <1>2, <2>2
    <3> QED BY <3>1, <3>2 DEF IsJoin
  <2>4. ReferenceOf(c, UsedPart(<<>>, d)) = <<>>
    BY <1>1, UsedOfNothing, ReferenceOfNothing
  <2> QED BY <2>1, <2>3, <2>4, ConcatEmptySeq
<1>4. CASE t = <<>>
  <2>1. n = 0
    BY <1>4
  <2>2. BeforeOf(c, t, 0) = <<>> 
    BY FlattenEmpty DEF BeforeOf
  <2>3. DoneOf(c, t, b) = <<>>
    BY <1>4, DoneType
  <2>4. <<>> = <<>> \o <<>>
    BY <1>1, ConcatEmptySeq
  <2> QED BY <1>1, <1>3, <2>1, <2>2, <2>3, <2>4 DEF s
<1>5. CASE t # <<>>
  <2> DEFINE y == t[n]
             u == UsedPart(y, b)
             p == BeforeOf(c, t, n - 1)
  <2>1. n \in Nat \ {0} /\ y \in Seq(Byte)
    BY <1>5, EmptySeq, ElementOfSeq
  <2>2. u \in Seq(Byte) /\ p \in Seq(Symbol) /\ DoneOf(c, t, b) = p \o ReferenceOf(c, u)
    BY <1>5, <2>1, UsedType, DoneSplit
  <2>3. BeforeOf(c, t, n) = p \o ReferenceOf(c, y)
    <3>1. DoneOf(c, t, <<>>) = p \o ReferenceOf(c, UsedPart(y, <<>>))
      BY <1>1, <1>5, DoneSplit
    <3>2. UsedPart(y, <<>>) = y
      BY <1>1, <2>1, UsedOfNothing
    <3>3. DoneOf(c, t, <<>>) = BeforeOf(c, t, n)
      <4>1. \A i \in 1..n : t[i] \in Seq(Byte) /\ UsedPart(t[i], <<>>) = t[i]
        BY <1>1, ElementOfSeq, UsedOfNothing
      <4> QED BY <4>1 DEF DoneOf, BeforeOf
    <3> QED BY <3>1, <3>2, <3>3
  <2>4. \E x \in Seq(Symbol) : ReferenceOf(c, y) = ReferenceOf(c, u) \o x /\ (b = <<>> => x = <<>>)
    <3>1. CASE y = <<>>
      <4>1. u = <<>>
        BY <1>1, <3>1, UsedOfNothing
      <4>2. ReferenceOf(c, y) = ReferenceOf(c, u) \o <<>>
        BY <1>1, <3>1, <4>1, ReferenceOfNothing, ConcatEmptySeq
      <4> QED BY <1>1, <4>2
    <3>2. CASE y = u \o b /\ b # <<>>
      <4>1. PICK x \in Seq(Symbol) : ReferenceOf(c, u \o b) = ReferenceOf(c, u) \o x
        <5> HIDE DEF u
        <5>1. LineWise(c) => EndsLine(u) \/ b = <<>>
          BY <1>5 DEF u
        <5> QED BY <2>2, <5>1, ReferenceGrows
      <4> QED BY <3>2, <4>1
    <3>3. CASE y = u \o b /\ b = <<>>
      <4>1. y = u
        BY <2>2, <3>3, ConcatEmptySeq
      <4>2. ReferenceOf(c, u) = ReferenceOf(c, u) \o <<>>
        BY <2>2, ReferenceType, ConcatEmptySeq
      <4> QED BY <1>1, <4>1, <4>2
    <3> QED BY <1>5, <3>1, <3>2, <3>3
  <2>5. PICK x \in Seq(Symbol) : ReferenceOf(c, y) = ReferenceOf(c, u) \o x /\ (b = <<>> => x = <<>>)
    BY <2>4
  <2>6. ReferenceOf(c, u) \in Seq(Symbol)
    BY <2>2, ReferenceType
  <2> HIDE DEF u, y, p
  <2>7. p \o (ReferenceOf(c, u) \o x) = (p \o ReferenceOf(c, u)) \o x
    <3> DEFINE q == ReferenceOf(c, u)
    <3>1. p \in Seq(Symbol) /\ q \in Seq(Symbol)
      BY <2>2, <2>6
    <3> HIDE DEF q
    <3>2. SameJoin(p, q, x)
      BY <3>1, JoinThree
    <3> QED BY <3>2 DEF q, SameJoin
  <2> QED BY <1>3, <2>2, <2>3, <2>5, <2>7 DEF s
<1> QED BY <1>4, <1>5 DEF s

-----------------------------------------------------------------------------
(* The steps, in the terms of the invariant. *)

Alive == main \notin {"success", "failure"}
Over == stage \in {"success", "failure"}
Final == Len(command.outputs) + 1
InputName == command.inputs[input]

WithOpened(f, name, append) ==
  [n \in DOMAIN f \cup {name} |->
     IF n # name THEN f[n] ELSE IF append /\ name \in DOMAIN f THEN f[name] ELSE <<>>]
WithGrown(f, name, data) == [f EXCEPT ![name] = @ \o data]

outputVars == <<writing, next, offset>>

OpensFile ==
  /\ stage = "open" /\ opened < Len(command.outputs)
  /\ files' = WithOpened(files, command.outputs[opened + 1], command.append)
  /\ opened' = opened + 1
  /\ UNCHANGED <<pipe, stage, input, position, buffered, lines, outputVars, held, taken, skipped>>

Ends ==
  /\ ~Over /\ stage' \in {"success", "failure"} /\ held' = <<>>
  /\ \/ pipe' = pipe /\ (stage' = "success" => ~Alive)
     \/ pipe' = pipe \o held /\ Alive
  /\ stage' = "success" => stage = "open" /\ opened = Len(command.outputs)
                             /\ input = Len(command.inputs)
  /\ UNCHANGED <<files, opened, input, position, buffered, lines, outputVars, taken, skipped>>

OpensInput ==
  /\ stage = "open" /\ opened = Len(command.outputs) /\ input < Len(command.inputs)
  /\ command.inputs[input + 1] \in DOMAIN files
  /\ stage' = "read" /\ input' = input + 1 /\ position' = 0 /\ buffered' = <<>>
  /\ lines' = 0 /\ taken' = Append(taken, <<>>)
  /\ UNCHANGED <<files, pipe, opened, outputVars, held, skipped>>

SkipsInput ==
  /\ stage = "open" /\ opened = Len(command.outputs) /\ input < Len(command.inputs)
  /\ command.program \in {"cat", "number"}
  /\ input' = input + 1 /\ taken' = Append(taken, <<>>) /\ skipped' = TRUE
  /\ UNCHANGED <<files, pipe, stage, opened, position, buffered, lines, outputVars, held>>

Reads ==
  /\ stage = "read" /\ (LineWise(command) \/ buffered = <<>>)
  /\ \E n \in Nat \ {0} :
       /\ position + n <= Len(files[InputName]) /\ position' = position + n
       /\ LET data == SubSeq(files[InputName], position + 1, position + n)
          IN  buffered' = buffered \o data /\ taken' = [taken EXCEPT ![input] = @ \o data]
  /\ UNCHANGED <<files, pipe, stage, opened, input, lines, outputVars, held, skipped>>

DropsPart ==
  /\ stage = "read" /\ LineWise(command)
  /\ taken' = [taken EXCEPT ![input] = UsedPart(@, buffered)]
  /\ buffered' = <<>> /\ skipped' = TRUE
  /\ UNCHANGED <<files, pipe, stage, opened, input, position, lines, outputVars, held>>

LeavesInput ==
  /\ stage' = "open"
  /\ \/ /\ stage = "read" /\ buffered = <<>> /\ position >= Len(files[InputName])
        /\ UNCHANGED skipped
     \/ /\ skipped' = TRUE /\ command.program \in {"cat", "number"}
        /\ (stage = "read" /\ buffered = <<>>) \/ (stage = "write" /\ ~Alive)
  /\ UNCHANGED <<files, pipe, opened, input, position, buffered, lines, outputVars, held, taken>>

UsesLine ==
  /\ stage = "read" /\ LineWise(command)
  /\ \E l, r \in Seq(Byte) :
       /\ l # <<>> /\ FirstCut(l) = Len(l) /\ buffered = l \o r /\ buffered' = r
       /\ EndsLine(l) \/ (r = <<>> /\ position >= Len(files[InputName]))
       /\ \/ /\ Contains(Filter!LineIn(l), "bad")
             /\ skipped' = TRUE /\ UNCHANGED <<stage, outputVars, lines>>
          \/ /\ ~Contains(Filter!LineIn(l), "bad")
             /\ writing' = MadeOf(command, lines + 1, Filter!LineIn(l)) /\ lines' = lines + 1
             /\ stage' = "write" /\ next' = 1 /\ offset' = 0 /\ UNCHANGED skipped
  /\ UNCHANGED <<files, pipe, opened, input, position, held, taken>>

UsesBlock ==
  /\ stage = "read" /\ ~LineWise(command) /\ buffered # <<>>
  /\ writing' = buffered /\ buffered' = <<>> /\ stage' = "write" /\ next' = 1 /\ offset' = 0
  /\ UNCHANGED <<files, pipe, opened, input, position, lines, held, taken, skipped>>

WritesFile ==
  /\ stage = "write" /\ next < Final
  /\ \E n \in 1..(Len(writing) - offset) :
       /\ files' = WithGrown(files, command.outputs[next], SubSeq(writing, offset + 1, offset + n))
       /\ \/ offset + n = Len(writing) /\ next' = next + 1 /\ offset' = 0
          \/ offset + n # Len(writing) /\ offset' = offset + n /\ UNCHANGED next
  /\ UNCHANGED <<pipe, stage, opened, input, position, buffered, lines, writing, held, taken, skipped>>

WritesStdout ==
  /\ stage = "write" /\ next = Final
  /\ ~Alive => Filter!Flushed(held \o writing) = <<>>
  /\ pipe' = pipe \o Filter!Flushed(held \o writing) /\ held' = Filter!Kept(held \o writing)
  /\ stage' = "read"
  /\ UNCHANGED <<files, opened, input, position, buffered, lines, outputVars, taken, skipped>>

FilterMoves ==
  /\ UNCHANGED <<command, target, main, buffer, written, before>>
  /\ \/ OpensFile \/ Ends \/ OpensInput \/ SkipsInput \/ Reads \/ DropsPart \/ LeavesInput
     \/ UsesLine \/ UsesBlock \/ WritesFile \/ WritesStdout

OpensTarget ==
  /\ main = "open" /\ main' = "read"
  /\ \/ target.name = "stdout" /\ UNCHANGED files
     \/ target.name # "stdout" /\ files' = WithOpened(files, target.name, target.append)
  /\ UNCHANGED <<pipe, buffer, written>>

Takes ==
  /\ main = "read" /\ buffer' = buffer \o pipe /\ pipe' = <<>>
  /\ UNCHANGED <<files, main, written>>

Changes ==
  /\ \/ main \in {"open", "read", "write"} /\ main' = "failure"
     \/ main = "read" /\ pipe = <<>> /\ Over /\ main' = "write"
     \/ main = "write" /\ target.name # "stdout" /\ written = Len(buffer) /\ main' = "success"
  /\ UNCHANGED <<files, pipe, buffer, written>>

Writes ==
  /\ main = "write" /\ target.name # "stdout"
  /\ \E n \in Nat :
       /\ written + n <= Len(buffer) /\ written' = written + n
       /\ files' = WithGrown(files, target.name, SubSeq(buffer, written + 1, written + n))
  /\ UNCHANGED <<main, pipe, buffer>>

Shows ==
  /\ main = "write" /\ target.name = "stdout"
  /\ \E shown \in {Sponge!Flushed(buffer), buffer} :
       files' = WithGrown(files, "stdout", shown) /\ written' = Len(shown)
  /\ main' = "success" /\ UNCHANGED <<pipe, buffer>>

SpongeMoves ==
  /\ UNCHANGED <<filterVars, target, before>>
  /\ OpensTarget \/ Takes \/ Changes \/ Writes \/ Shows

\* The filter ends.
LEMMA ExitEnds ==
  ASSUME NEW status \in {"success", "failure"}, ~Over, Filter!Exit(status),
         UNCHANGED <<files, opened, input, position, buffered, lines, outputVars, taken, skipped>>,
         status = "success" => stage = "open" /\ opened = Len(command.outputs)
                                 /\ input = Len(command.inputs)
  PROVE  Ends
BY DEF Ends, Filter!Exit, Alive, outputVars

\* A panic ends the filter.
LEMMA PanicEnds ==
  ASSUME ~Over, Filter!Panic,
         UNCHANGED <<files, opened, input, position, buffered, lines, outputVars, taken, skipped>>
  PROVE  Ends
BY DEF Ends, Filter!Panic, Alive, outputVars

\* It gives up.
LEMMA GivesUp ==
  ASSUME ~Over, Filter!GiveUp,
         UNCHANGED <<files, opened, input, position, buffered, lines, outputVars, taken>>,
         (stage = "read" /\ buffered = <<>>) \/ (stage = "write" /\ ~Alive)
  PROVE  Ends \/ LeavesInput
<1>1. CASE command.program \in {"cat", "number"}
  <2>1. stage' = "open" /\ skipped' = TRUE /\ UNCHANGED <<pipe, held>>
    BY <1>1 DEF Filter!GiveUp
  <2> QED BY <1>1, <2>1 DEF LeavesInput, outputVars
<1>2. CASE command.program = "cut"
  <2>1. Filter!Panic /\ UNCHANGED skipped
    BY <1>2 DEF Filter!GiveUp
  <2> QED BY <2>1, PanicEnds DEF outputVars
<1>3. CASE command.program \notin {"cat", "number", "cut"}
  <2>1. Filter!Exit("failure") /\ UNCHANGED skipped
    BY <1>3 DEF Filter!GiveUp
  <2> QED BY <2>1, ExitEnds DEF outputVars
<1> QED BY <1>1, <1>2, <1>3

\* What is used next, and what is left.
LEMMA NextLine ==
  ASSUME NEW s \in Seq(Byte), s # <<>>
  PROVE  LET k == FirstCut(s)
             l == SubSeq(s, 1, k)
             r == SubSeq(s, k + 1, Len(s))
         IN  /\ l \in Seq(Byte) /\ r \in Seq(Byte) /\ s = l \o r /\ l # <<>> /\ FirstCut(l) = Len(l)
             /\ Contains(s, "nl") => EndsLine(l)
             /\ ~Contains(s, "nl") => r = <<>>
<1> DEFINE k == FirstCut(s)
           l == SubSeq(s, 1, k)
           r == SubSeq(s, k + 1, Len(s))
<1>1. Len(s) \in Nat \ {0}
  BY EmptySeq, LenProperties
<1>2. k \in 1..Len(s) /\ (~Contains(s, "nl") => k = Len(s))
      /\ (Contains(s, "nl") => s[k] = "nl" /\ \A i \in 1..(k - 1) : s[i] # "nl")
  BY <1>1, NewlinePlace DEF FirstCut
<1>3. l \in Seq(Byte) /\ r \in Seq(Byte) /\ s = l \o r /\ Len(l) = k
  BY <1>2, RestIsShorter
<1>4. \A i \in 1..k : l[i] = s[i]
  <2>1. k \in 0..Len(s)
    BY <1>1, <1>2
  <2> QED BY <2>1, CutInTwo
<1>5. l # <<>>
  BY <1>1, <1>2, <1>3, EmptySeq
<1>6. CASE Contains(s, "nl")
  <2> HIDE DEF l, k
  <2>1. l[k] = "nl" /\ \A i \in 1..(k - 1) : l[i] # "nl"
    BY <1>1, <1>2, <1>4, <1>6
  <2>2. Contains(l, "nl")
    BY <1>1, <1>2, <1>3, <2>1 DEF Contains
  <2>3. NewlineAt(l) \in 0..Len(l) /\ NewlineAt(l) # 0 /\ l[NewlineAt(l)] = "nl"
    <3>1. /\ NewlineAt(l) \in 0..Len(l) /\ (NewlineAt(l) = 0 <=> ~Contains(l, "nl"))
          /\ NewlineAt(l) > 0 => l[NewlineAt(l)] = "nl"
      BY <1>3, NewlinePlace
    <3> QED BY <1>1, <1>2, <1>3, <2>2, <3>1
  <2>4. NewlineAt(l) = k
    BY <1>1, <1>2, <1>3, <2>1, <2>3
  <2> QED BY <1>1, <1>2, <1>3, <1>5, <1>6, <2>1, <2>4 DEF FirstCut, EndsLine, l, k
<1>7. CASE ~Contains(s, "nl")
  <2>1. k = Len(s)
    BY <1>2, <1>7
  <2>2. l = s
    BY <2>1, SubSeqFull
  <2>3. r = <<>>
    BY <1>1, <2>1, SubSeqEmpty
  <2> QED BY <1>3, <1>5, <1>7, <2>1, <2>2, <2>3
<1> QED BY <1>6, <1>7

\* What the filter does is one of the steps.
LEMMA FilterDoes ==
  ASSUME buffered \in Seq(Byte), taken \in Seq(Seq(Byte)),
         command \in Commands,
         FilterStep
  PROVE  FilterMoves
<1>0. UNCHANGED <<command, target, main, buffer, written, before>> /\ Filter!Next
  BY DEF FilterStep, spongeVars, Filter!Next
<1>1. LineWise(command) <=> Filter!ByLine
  BY DEF LineWise, Filter!ByLine
<1>2. Filter!Contents = files[InputName]
  BY DEF Filter!Contents, InputName
<1>3. ASSUME Filter!OpenOutput PROVE OpensFile
  BY <1>3 DEF Filter!OpenOutput, OpensFile, Filter!Opened, WithOpened, Filter!output, outputVars
<1>4. ASSUME Filter!OpenOutputFails PROVE Ends
  <2>1. UNCHANGED <<files, opened, input, position, buffered, lines, outputVars, taken, skipped>>
        /\ ~Over /\ Filter!Exit("failure")
    BY <1>4 DEF Filter!OpenOutputFails, Filter!output, Filter!reading, outputVars, Over
  <2> QED BY <2>1, ExitEnds
<1>5. ASSUME Filter!OpenInput PROVE OpensInput
  BY <1>5 DEF Filter!OpenInput, OpensInput, Filter!output, outputVars
<1>6. ASSUME Filter!OpenInputFails PROVE SkipsInput \/ Ends
  <2>1. CASE command.program \in {"cat", "number"}
    BY <1>6, <2>1 DEF Filter!OpenInputFails, SkipsInput, Filter!output, outputVars
  <2>2. CASE command.program \notin {"cat", "number"}
    <3>1. UNCHANGED <<files, opened, input, position, buffered, lines, outputVars, taken, skipped>>
          /\ ~Over /\ Filter!Exit("failure")
      BY <1>6, <2>2 DEF Filter!OpenInputFails, Filter!output, outputVars, Over
    <3> QED BY <3>1, ExitEnds
  <2> QED BY <2>1, <2>2
<1>7. ASSUME Filter!AllRead PROVE Ends
  <2>1. UNCHANGED <<files, opened, input, position, buffered, lines, outputVars, taken, skipped>>
        /\ ~Over /\ Filter!Exit("success")
        /\ stage = "open" /\ opened = Len(command.outputs) /\ input = Len(command.inputs)
    BY <1>7 DEF Filter!AllRead, Filter!output, Filter!reading, outputVars, Over
  <2> QED BY <2>1, ExitEnds
<1>8. ASSUME Filter!Read PROVE Reads
  <2>1. LineWise(command) \/ buffered = <<>>
    BY <1>1, <1>8 DEF Filter!Read, Filter!NeedsMore
  <2>2. PICK n \in 1..Block :
          /\ position + n <= Len(Filter!Contents) /\ position' = position + n
          /\ LET data == SubSeq(Filter!Contents, position + 1, position + n)
             IN  buffered' = buffered \o data /\ taken' = [taken EXCEPT ![input] = @ \o data]
    BY <1>8 DEF Filter!Read
  <2>3. n \in Nat \ {0}
    BY PipeBlockAssumption
  <2>4. stage = "read"
        /\ UNCHANGED <<files, pipe, stage, opened, input, lines, outputVars, held, skipped>>
    BY <1>8 DEF Filter!Read, Filter!output, outputVars
  <2> QED BY <1>2, <2>1, <2>2, <2>3, <2>4 DEF Reads
<1>9. ASSUME Filter!ReadFails PROVE DropsPart \/ LeavesInput \/ Ends
  <2>1. CASE Filter!ByLine
    <3>1. taken' = [taken EXCEPT ![input] = UsedPart(@, buffered)]
      BY <1>9, <2>1 DEF Filter!ReadFails, UsedPart
    <3>2. /\ stage = "read" /\ buffered' = <<>> /\ skipped' = TRUE
          /\ UNCHANGED <<files, pipe, stage, opened, input, position, lines, outputVars, held>>
      BY <1>9, <2>1 DEF Filter!ReadFails, Filter!output, outputVars
    <3> QED BY <1>1, <2>1, <3>1, <3>2 DEF DropsPart
  <2>2. CASE ~Filter!ByLine
    <3>1. /\ Filter!GiveUp /\ stage = "read" /\ buffered = <<>>
          /\ UNCHANGED <<files, opened, input, position, buffered, lines, outputVars, taken>>
      BY <1>9, <2>2 DEF Filter!ReadFails, Filter!NeedsMore, Filter!output, outputVars
    <3>2. ~Over
      BY <3>1 DEF Over
    <3> QED BY <3>1, <3>2, GivesUp
  <2> QED BY <2>1, <2>2
<1>10. ASSUME Filter!UseLine PROVE UsesLine
  <2> DEFINE k == FirstCut(buffered)
             l == SubSeq(buffered, 1, k)
             r == SubSeq(buffered, k + 1, Len(buffered))
  <2>1. /\ stage = "read" /\ Filter!ByLine /\ buffered # <<>>
        /\ Filter!NeedsMore => position >= Len(Filter!Contents)
    BY <1>10 DEF Filter!UseLine, Filter!AtEnd
  <2>2. Filter!Used = k
    <3>1. Filter!Used = IF Filter!Contains(buffered, "nl") THEN FilterNewline(buffered)
                        ELSE Len(buffered)
      BY <2>1 DEF Filter!Used, FilterNewline
    <3>2. NewlineAt(buffered) = 0 <=> ~Contains(buffered, "nl")
      BY NewlinePlace
    <3> QED BY <3>1, <3>2, SameOperators DEF FirstCut
  <2>3. /\ l \in Seq(Byte) /\ r \in Seq(Byte) /\ buffered = l \o r /\ l # <<>>
        /\ FirstCut(l) = Len(l) /\ (Contains(buffered, "nl") => EndsLine(l))
    BY <2>1, NextLine
  <2>4. ~Contains(buffered, "nl") => r = <<>> /\ position >= Len(files[InputName])
    <3>1. ~Contains(buffered, "nl") => r = <<>>
      BY <2>1, NextLine
    <3>2. ~Contains(buffered, "nl") => Filter!NeedsMore
      BY <2>1, SameOperators DEF Filter!NeedsMore
    <3> QED BY <1>2, <2>1, <3>1, <3>2
  <2> HIDE DEF k
  <2>5. /\ buffered' = r
        /\ UNCHANGED <<files, pipe, opened, input, position, held, taken>>
        /\ \/ /\ Filter!Contains(Filter!LineIn(l), "bad")
              /\ skipped' = TRUE /\ UNCHANGED <<stage, outputVars, lines>>
           \/ /\ ~Filter!Contains(Filter!LineIn(l), "bad")
              /\ writing' = Filter!Made(Filter!LineIn(l)) /\ lines' = lines + 1
              /\ stage' = "write" /\ next' = 1 /\ offset' = 0 /\ UNCHANGED skipped
    BY <1>10, <2>2 DEF Filter!UseLine, Filter!output, outputVars
  <2> DEFINE line == Filter!LineIn(l)
  <2> HIDE DEF l, r
  <2>6. Filter!Made(line) = MadeOf(command, lines + 1, line)
    <3>1. CASE command.program = "number"
      BY <3>1 DEF Filter!Made, MadeOf
    <3>2. CASE command.program = "cut"
      BY <3>2 DEF Filter!Made, MadeOf
    <3> QED BY <2>1, <3>1, <3>2 DEF Filter!ByLine
  <2> HIDE DEF line
  <2>7. \/ /\ Contains(line, "bad")
           /\ skipped' = TRUE /\ UNCHANGED <<stage, outputVars, lines>>
        \/ /\ ~Contains(line, "bad")
           /\ writing' = MadeOf(command, lines + 1, line) /\ lines' = lines + 1
           /\ stage' = "write" /\ next' = 1 /\ offset' = 0 /\ UNCHANGED skipped
    BY <2>5, <2>6, SameOperators DEF line
  <2>8. EndsLine(l) \/ (r = <<>> /\ position >= Len(files[InputName]))
    BY <2>3, <2>4
  <2>9. \E a, b \in Seq(Byte) :
          /\ a # <<>> /\ FirstCut(a) = Len(a) /\ buffered = a \o b /\ buffered' = b
          /\ EndsLine(a) \/ (b = <<>> /\ position >= Len(files[InputName]))
          /\ \/ /\ Contains(Filter!LineIn(a), "bad")
                /\ skipped' = TRUE /\ UNCHANGED <<stage, outputVars, lines>>
             \/ /\ ~Contains(Filter!LineIn(a), "bad")
                /\ writing' = MadeOf(command, lines + 1, Filter!LineIn(a)) /\ lines' = lines + 1
                /\ stage' = "write" /\ next' = 1 /\ offset' = 0 /\ UNCHANGED skipped
    <3>1. l \in Seq(Byte) /\ r \in Seq(Byte)
      BY <2>3
    <3> WITNESS l \in Seq(Byte), r \in Seq(Byte)
    <3> QED BY <2>3, <2>5, <2>7, <2>8 DEF line
  <2> QED BY <1>1, <2>1, <2>5, <2>9 DEF UsesLine
<1>11. ASSUME Filter!RangePanics PROVE Ends
  <2>1. UNCHANGED <<files, opened, input, position, buffered, lines, outputVars, taken, skipped>>
        /\ ~Over /\ Filter!Panic
    BY <1>11 DEF Filter!RangePanics, Filter!output, Filter!reading, outputVars, Over
  <2> QED BY <2>1, PanicEnds
<1>12. ASSUME Filter!UseBlock PROVE UsesBlock
  BY <1>1, <1>12 DEF Filter!UseBlock, UsesBlock
<1>13. ASSUME Filter!ClockPanics PROVE Ends
  <2>1. UNCHANGED <<files, opened, input, position, buffered, lines, outputVars, taken, skipped>>
        /\ ~Over /\ Filter!Panic
    BY <1>13 DEF Filter!ClockPanics, Filter!output, Filter!reading, outputVars, Over
  <2> QED BY <2>1, PanicEnds
<1>14. ASSUME Filter!EndOfInput PROVE LeavesInput
  BY <1>2, <1>14 DEF Filter!EndOfInput, Filter!AtEnd, LeavesInput, Filter!reading, Filter!output,
                     outputVars
<1>15. ASSUME Filter!WriteFile PROVE WritesFile
  <2>1. PICK n \in 1..(Len(writing) - offset) :
          /\ files' = Filter!Grown(files, command.outputs[next],
                                   SubSeq(writing, offset + 1, offset + n))
          /\ IF offset + n = Len(writing) THEN next' = next + 1 /\ offset' = 0
             ELSE offset' = offset + n /\ UNCHANGED next
    BY <1>15 DEF Filter!WriteFile
  <2>2. /\ stage = "write" /\ next < Final
        /\ UNCHANGED <<pipe, stage, opened, input, position, buffered, lines, writing, held, taken,
                       skipped>>
    BY <1>15 DEF Filter!WriteFile, Filter!reading, Filter!Stdout, Final
  <2>3. files' = WithGrown(files, command.outputs[next], SubSeq(writing, offset + 1, offset + n))
    BY <2>1 DEF Filter!Grown, WithGrown
  <2> QED BY <2>1, <2>2, <2>3 DEF WritesFile
<1>16. ASSUME Filter!WriteFileFails PROVE Ends
  <2>1. UNCHANGED <<files, opened, input, position, buffered, lines, outputVars, taken, skipped>>
        /\ ~Over /\ Filter!Exit("failure")
    BY <1>16 DEF Filter!WriteFileFails, Filter!output, Filter!reading, outputVars, Over
  <2> QED BY <2>1, ExitEnds
<1>17. ASSUME Filter!WriteStdout PROVE WritesStdout
  BY <1>17 DEF Filter!WriteStdout, WritesStdout, Filter!output, Filter!reading, outputVars, Final,
               Filter!Stdout, Alive
<1>18. ASSUME Filter!WriteStdoutFails PROVE Ends \/ LeavesInput
  <2>1. UNCHANGED <<files, opened, input, position, buffered, lines, outputVars, taken>>
        /\ stage = "write" /\ ~Alive /\ Filter!GiveUp
    BY <1>18 DEF Filter!WriteStdoutFails, Filter!output, Filter!reading, outputVars, Alive
  <2>2. ~Over
    BY <2>1 DEF Over
  <2> QED BY <2>1, <2>2, GivesUp
<1> QED BY <1>0, <1>3, <1>4, <1>5, <1>6, <1>7, <1>8, <1>9, <1>10, <1>11, <1>12, <1>13, <1>14,
           <1>15, <1>16, <1>17, <1>18 DEF Filter!Next, FilterMoves

\* What sponge does is one of the steps.
LEMMA SpongeDoes ==
  ASSUME SpongeStep
  PROVE  SpongeMoves
<1>0. UNCHANGED <<filterVars, target, before>> /\ Sponge!Next
  BY DEF SpongeStep, Sponge!Next
<1>1. ASSUME Sponge!Open PROVE OpensTarget \/ Changes
  BY <1>1 DEF Sponge!Open, OpensTarget, Changes, Sponge!Opened, WithOpened
<1>2. ASSUME Sponge!Read PROVE Takes \/ Changes
  BY <1>2 DEF Sponge!Read, Takes, Changes, Over
<1>3. ASSUME Sponge!ReadFails PROVE Changes
  BY <1>3 DEF Sponge!ReadFails, Changes
<1>4. ASSUME Sponge!Write PROVE Writes \/ Changes
  <2>1. CASE written = Len(buffer)
    BY <1>4, <2>1 DEF Sponge!Write, Changes
  <2>2. CASE written # Len(buffer)
    <3>1. PICK n \in 1..Block :
            /\ written + n <= Len(buffer) /\ written' = written + n
            /\ files' = Sponge!Grown(files, target.name, SubSeq(buffer, written + 1, written + n))
            /\ UNCHANGED main
      BY <1>4, <2>2 DEF Sponge!Write
    <3>2. n \in Nat
      BY PipeBlockAssumption
    <3>3. files' = WithGrown(files, target.name, SubSeq(buffer, written + 1, written + n))
      BY <3>1 DEF Sponge!Grown, WithGrown
    <3>4. main = "write" /\ target.name # "stdout" /\ UNCHANGED <<pipe, buffer>>
      BY <1>4 DEF Sponge!Write
    <3> QED BY <3>1, <3>2, <3>3, <3>4 DEF Writes
  <2> QED BY <2>1, <2>2
<1>5. ASSUME Sponge!WriteStdout PROVE Shows
  BY <1>5 DEF Sponge!WriteStdout, Shows, Sponge!Grown, WithGrown
<1>6. ASSUME Sponge!WriteFails PROVE Changes
  BY <1>6 DEF Sponge!WriteFails, Changes
<1> QED BY <1>0, <1>1, <1>2, <1>3, <1>4, <1>5, <1>6 DEF Sponge!Next, SpongeMoves

-----------------------------------------------------------------------------
(* The inductive invariant. *)

FilesHold(S) == /\ files = [name \in DOMAIN files |-> files[name]]
                /\ \A name \in DOMAIN files : files[name] \in Seq(S)

ValuesInv ==
  /\ command \in Commands /\ target \in Targets /\ before \in FileSystems
  /\ pipe \in Seq(Symbol) /\ held \in Seq(Symbol) /\ writing \in Seq(Symbol)
  /\ buffer \in Seq(Symbol) /\ buffered \in Seq(Byte) /\ taken \in Seq(Seq(Byte))

CountsInv ==
  /\ stage \in {"open", "read", "write", "success", "failure"}
  /\ main \in {"open", "read", "write", "success", "failure"} /\ skipped \in BOOLEAN
  /\ opened \in 0..Len(command.outputs) /\ input \in 0..Len(command.inputs)
  /\ position \in Nat /\ lines \in Nat /\ offset \in Nat /\ written \in Nat
  /\ next \in 1..Final

\* Where the filter is.
PlaceInv ==
  /\ Len(taken) = input
  /\ opened < Len(command.outputs) =>
       stage \in {"open", "failure"} /\ taken = <<>> /\ Sent = <<>> /\ held = <<>>
  /\ stage \in {"read", "write"} => input > 0 /\ InputName \in DOMAIN files
  /\ stage = "success" => input = Len(command.inputs) /\ opened = Len(command.outputs)
  /\ skipped => command.program \in {"cat", "number", "cut"}
  /\ stage = "write" => IF next = Final THEN offset = 0 ELSE offset < Len(writing)

\* sponge: it writes when it has everything.
SpongeInv ==
  /\ main \in {"write", "success"} \/ written > 0 => Over /\ pipe = <<>>
  /\ written <= Len(buffer)
  /\ main = "success" /\ target.name # "stdout" => written = Len(buffer)

\* The contents that a name has been opened with.
Untouched(name) ==
  /\ name \in DOMAIN files <=> name \in DOMAIN before
  /\ name \in DOMAIN files => files[name] = before[name]

Emptied(name) ==
  name = target.name /\ name \in DOMAIN files /\ files[name] = Kept(name, target.append)

TargetInv ==
  target.name # "stdout" =>
    \/ main \in {"open", "failure"} /\ written = 0 /\ Untouched(target.name)
    \/ /\ main # "open" /\ target.name \in DOMAIN files
       /\ files[target.name] = Kept(target.name, target.append) \o SubSeq(buffer, 1, written)

InputsInv ==
  ~Over => \A i \in 1..Len(command.inputs) :
             Untouched(command.inputs[i]) \/ Emptied(command.inputs[i])

\* What the filter has made, and what an output has of it and has still to get.
Due == DoneOf(command, taken, buffered)
OutputName(i) == command.outputs[i]
AtStart(i) == Kept(OutputName(i), command.append)
GotFile(i) == SubSeq(files[OutputName(i)], Len(AtStart(i)) + 1, Len(files[OutputName(i)]))
Rest(i) ==
  IF stage # "write" \/ i < next THEN <<>>
  ELSE IF i = next THEN SubSeq(writing, offset + 1, Len(writing))
  ELSE writing

FilesInv ==
  /\ FilesHold(Symbol)
  /\ \A i \in 1..Len(command.outputs) :
       IF i > opened THEN Untouched(OutputName(i))
       ELSE OutputName(i) \in DOMAIN files /\ files[OutputName(i)] = AtStart(i) \o GotFile(i)

\* No output has missed anything, unless an error of a write was passed over.
NoLine(s) == \A i \in 1..Len(s) : s[i] # "nl"
InStep == Alive \/ ~skipped

StdoutInv ==
  /\ IsPrefix(Sent, Due)
  /\ ~Over => EndsLine(Sent) /\ NoLine(held)
  /\ ~Over /\ InStep => (Sent \o held) \o Rest(Final) = Due
  /\ stage = "success" /\ ~skipped =>
       Sent = Due \/ (main = "failure" /\ Sent = Filter!Flushed(Due))

GotInv ==
  \A i \in 1..opened :
    /\ stage # "failure" => GotFile(i) \o Rest(i) = Due
    /\ IsPrefix(GotFile(i), Due) /\ Len(GotFile(i)) >= Len(Sent)

\* What has been read is what has been used and what has not.
UsedNow == UsedPart(taken[input], buffered)

ReadInv ==
  /\ input > 0 =>
       /\ taken[input] = UsedNow \o buffered \/ taken[input] = <<>>
       /\ LineWise(command) => EndsLine(UsedNow) \/ buffered = <<>>
  /\ stage \in {"read", "write"} =>
       /\ taken[input] = UsedNow \o buffered
       /\ LineWise(command) => /\ EndsLine(UsedNow) \/ position >= Len(files[InputName])
                               /\ lines = Len(Filter!LinesOf(UsedNow))
  /\ stage = "open" /\ InStep => buffered = <<>>
  /\ stage = "success" /\ ~skipped => buffered = <<>>

\* The inputs as they are to be read.
Original(i) == Kept(command.inputs[i], TRUE)

InputInv ==
  ~skipped /\ stage # "failure" /\ (Shared => target.append) =>
    /\ \A i \in 1..input : (stage \in {"read", "write"} /\ i = input) \/ taken[i] = Original(i)
    /\ stage \in {"read", "write"} =>
         position <= Len(Original(input)) /\ taken[input] = SubSeq(Original(input), 1, position)

PipelineInv ==
  /\ ValuesInv /\ CountsInv /\ PlaceInv /\ SpongeInv /\ TargetInv /\ InputsInv
  /\ FilesInv /\ StdoutInv /\ GotInv /\ ReadInv /\ InputInv

-----------------------------------------------------------------------------
(* Files, prefixes and lines. *)

IsFunction(f) == f = [n \in DOMAIN f |-> f[n]]

Started(f, name, append) == IF append /\ name \in DOMAIN f THEN f[name] ELSE <<>>

\* A file that is opened.
LEMMA OpenedFiles ==
  ASSUME NEW f, NEW name, NEW append
  PROVE  LET g == WithOpened(f, name, append)
         IN  /\ IsFunction(g) /\ \A n : n \in DOMAIN g <=> n \in DOMAIN f \/ n = name
             /\ \A n \in DOMAIN f : n # name => g[n] = f[n]
             /\ g[name] = Started(f, name, append)
BY DEF WithOpened, IsFunction, Started

\* One that grows.
LEMMA GrownFiles ==
  ASSUME NEW f, IsFunction(f), NEW name, NEW data
  PROVE  LET g == WithGrown(f, name, data)
         IN  /\ IsFunction(g) /\ DOMAIN g = DOMAIN f
             /\ \A n \in DOMAIN f : n # name => g[n] = f[n]
             /\ name \in DOMAIN f => g[name] = f[name] \o data
<1> DEFINE g == WithGrown(f, name, data)
<1>1. g = [n \in DOMAIN f |-> IF n = name THEN f[n] \o data ELSE f[n]]
  BY DEF WithGrown
<1>2. DOMAIN g = DOMAIN f
  BY <1>1
<1>3. \A n \in DOMAIN f : g[n] = IF n = name THEN f[n] \o data ELSE f[n]
  BY <1>1
<1> QED BY <1>1, <1>2, <1>3 DEF IsFunction

\* Prefixes.
LEMMA PrefixGrows ==
  ASSUME NEW E, NEW s \in Seq(E), NEW t \in Seq(E), NEW x \in Seq(E), IsPrefix(s, t)
  PROVE  IsPrefix(s, t \o x)
<1>1. Len(s) \in Nat /\ Len(t) \in Nat /\ Len(s) <= Len(t) /\ s = SubSeq(t, 1, Len(s))
  BY LenProperties DEF IsPrefix
<1>2. Len(s) \in 0..Len(t)
  BY <1>1
<1>3. SubSeq(t \o x, 1, Len(s)) = s
  BY <1>1, <1>2, CutOfConcat
<1>4. Len(t \o x) = Len(t) + Len(x) /\ Len(x) \in Nat
  BY ConcatProperties, LenProperties
<1>5. Len(s) <= Len(t \o x)
  BY <1>1, <1>4
<1> QED BY <1>3, <1>5 DEF IsPrefix

\* What there is to say of the last newline of a sequence.
LastNewline(s) == Filter!SelectLastInSeq(s, LAMBDA b : b = "nl")

\* It is a newline, and none comes after it; 0 if there is none.
LEMMA LastNewlinePlace ==
  ASSUME NEW B, NEW s \in Seq(B)
  PROVE  /\ LastNewline(s) \in 0..Len(s)
         /\ LastNewline(s) > 0 => s[LastNewline(s)] = "nl"
         /\ \A i \in (LastNewline(s) + 1)..Len(s) : s[i] # "nl"
<1> DEFINE I == {i \in 1..Len(s) : s[i] = "nl"}
<1>1. LastNewline(s) = IF I # {} THEN Max(I) ELSE 0
  BY SameOperators DEF LastNewline, Filter!SelectLastInSeq
<1>2. Len(s) \in Nat /\ I \subseteq 0..Len(s)
  BY LenProperties
<1>3. I # {} => Max(I) \in I /\ \A i \in I : i <= Max(I)
  <2> HIDE DEF I
  <2> QED BY <1>2, MaxIsGreatest
<1>4. CASE I = {}
  BY <1>1, <1>2, <1>4
<1>5. CASE I # {}
  <2> DEFINE k == Max(I)
  <2>1. k \in I /\ LastNewline(s) = k /\ \A i \in I : i <= k
    BY <1>1, <1>3, <1>5
  <2> HIDE DEF k
  <2> QED BY <1>2, <2>1
<1> QED BY <1>4, <1>5

\* What LineWriter passes on, and what it keeps.
LEMMA FlushedParts ==
  ASSUME NEW B, NEW s \in Seq(B)
  PROVE  /\ Filter!Flushed(s) \in Seq(B) /\ Filter!Kept(s) \in Seq(B)
         /\ Filter!Flushed(s) \o Filter!Kept(s) = s
         /\ EndsLine(Filter!Flushed(s)) /\ NoLine(Filter!Kept(s))
<1> DEFINE k == LastNewline(s)
           a == SubSeq(s, 1, k)
           b == SubSeq(s, k + 1, Len(s))
<1>1. Filter!Flushed(s) = a
  BY DEF Filter!Flushed, LastNewline
<1>2. k \in 0..Len(s) /\ Len(s) \in Nat
  BY LastNewlinePlace, LenProperties
<1>3. /\ a \in Seq(B) /\ Len(a) = k /\ \A i \in 1..k : a[i] = s[i]
      /\ b \in Seq(B) /\ Len(b) = Len(s) - k /\ \A i \in 1..(Len(s) - k) : b[i] = s[k + i]
      /\ a \o b = s
  BY <1>2, CutInTwo
<1>4. Filter!Kept(s) = b
  BY <1>1, <1>3 DEF Filter!Kept
<1>5. (k > 0 => s[k] = "nl") /\ \A i \in (k + 1)..Len(s) : s[i] # "nl"
  BY LastNewlinePlace
<1> HIDE DEF k, a, b
<1>6. EndsLine(a)
  <2>1. CASE k = 0
    BY <1>3, <2>1, EmptySeq DEF EndsLine
  <2>2. CASE k > 0
    BY <1>2, <1>3, <1>5, <2>2 DEF EndsLine
  <2> QED BY <1>2, <2>1, <2>2
<1>7. NoLine(b)
  <2>1. \A i \in 1..(Len(s) - k) : k + i \in (k + 1)..Len(s)
    BY <1>2
  <2> QED BY <1>3, <1>5, <2>1 DEF NoLine
<1> QED BY <1>1, <1>3, <1>4, <1>6, <1>7

\* Complete lines and an unfinished one are told apart.
LEMMA FlushedOf ==
  ASSUME NEW B, NEW a \in Seq(B), NEW h \in Seq(B), EndsLine(a), NoLine(h)
  PROVE  Filter!Flushed(a \o h) = a
<1> DEFINE s == a \o h
           k == LastNewline(s)
<1>1. /\ s \in Seq(B) /\ Len(s) = Len(a) + Len(h) /\ Len(a) \in Nat /\ Len(h) \in Nat
      /\ \A i \in 1..(Len(a) + Len(h)) : s[i] = IF i <= Len(a) THEN a[i] ELSE h[i - Len(a)]
  BY ConcatProperties, LenProperties
<1>2. k \in 0..Len(s) /\ (k > 0 => s[k] = "nl") /\ \A i \in (k + 1)..Len(s) : s[i] # "nl"
  BY <1>1, LastNewlinePlace
<1>3. Filter!Flushed(s) = SubSeq(s, 1, k)
  BY DEF Filter!Flushed, LastNewline
<1> HIDE DEF s, k
<1>4. \A i \in 1..Len(h) : h[i] # "nl"
  BY DEF NoLine
<1>5. ~(k > Len(a))
  <2>1. k > Len(a) => k \in 1..(Len(a) + Len(h)) /\ k - Len(a) \in 1..Len(h) /\ ~(k <= Len(a))
    BY <1>1, <1>2
  <2> QED BY <1>1, <1>2, <1>4, <2>1
<1>6. ~(k < Len(a))
  <2>1. SUFFICES ASSUME k < Len(a) PROVE FALSE
    OBVIOUS
  <2>2. a[Len(a)] = "nl"
    BY <1>1, <1>2, <2>1, EmptySeq DEF EndsLine
  <2>3. Len(a) \in (k + 1)..Len(s) /\ s[Len(a)] = a[Len(a)]
    BY <1>1, <1>2, <2>1
  <2> QED BY <1>2, <2>2, <2>3
<1>7. k = Len(a)
  BY <1>1, <1>2, <1>5, <1>6
<1>8. SubSeq(a \o h, 1, Len(a)) = SubSeq(a, 1, Len(a))
  <2>1. Len(a) \in 0..Len(a)
    BY <1>1
  <2> QED BY <2>1, CutOfConcat
<1> QED BY <1>3, <1>7, <1>8, SubSeqFull DEF s

SpongeNewline(s) == Sponge!SelectLastInSeq(s, LAMBDA b : b = "nl")

\* Both programs have the same LineWriter.
LEMMA SameFlushed == \A s : Sponge!Flushed(s) = Filter!Flushed(s)
<1>1. \A T : Sponge!Max(T) = Max(T)
  BY DEF Sponge!Max, Max
<1>2. \A s : SpongeNewline(s) = LastNewline(s)
  BY <1>1, SameOperators DEF SpongeNewline, LastNewline, Sponge!SelectLastInSeq,
                             Filter!SelectLastInSeq
<1> QED BY <1>2 DEF Sponge!Flushed, Filter!Flushed, SpongeNewline, LastNewline

\* Parts of a sequence.
LEMMA PartType ==
  ASSUME NEW E, NEW s \in Seq(E), NEW m \in Nat, NEW n \in Nat, m + n <= Len(s)
  PROVE  SubSeq(s, m + 1, m + n) \in Seq(E) /\ Len(SubSeq(s, m + 1, m + n)) = n
<1>1. Len(s) \in Nat /\ m \in 0..Len(s) /\ m + n \in m..Len(s) /\ m + n \in (m + n)..Len(s)
      /\ (m + n) - m = n
  BY LenProperties
<1> QED BY <1>1, AdjacentParts

\* What ends a line after something does so at the end.
LEMMA EndsLineConcat ==
  ASSUME NEW B, NEW a \in Seq(B), NEW b \in Seq(B), EndsLine(a), EndsLine(b)
  PROVE  EndsLine(a \o b)
<1>1. CASE b = <<>>
  BY <1>1, ConcatEmptySeq
<1>2. CASE b # <<>>
  <2>1. /\ Len(a) \in Nat /\ Len(b) \in Nat \ {0} /\ Len(a \o b) = Len(a) + Len(b)
        /\ \A i \in 1..(Len(a) + Len(b)) : (a \o b)[i] = IF i <= Len(a) THEN a[i] ELSE b[i - Len(a)]
    BY <1>2, ConcatProperties, LenProperties, EmptySeq
  <2>2. b[Len(b)] = "nl"
    BY <1>2 DEF EndsLine
  <2> DEFINE s == a \o b
  <2> HIDE DEF s
  <2>3. s[Len(s)] = b[Len(b)]
    BY <2>1 DEF s
  <2> QED BY <2>2, <2>3 DEF EndsLine, s
<1> QED BY <1>1, <1>2

-----------------------------------------------------------------------------
(* Types. *)

\* The names of a command and a target.
LEMMA NamesOf ==
  ASSUME NEW c \in Commands, NEW t \in Targets
  PROVE  /\ Len(c.outputs) \in Nat /\ Len(c.inputs) \in Nat
         /\ \A i \in 1..Len(c.inputs), j \in 1..Len(c.outputs) : c.inputs[i] # c.outputs[j]
         /\ \A i, j \in 1..Len(c.outputs) : c.outputs[i] = c.outputs[j] => i = j
         /\ \A j \in 1..Len(c.outputs) : c.outputs[j] # t.name
         /\ c.program # "tee" => Len(c.outputs) = 0
<1>1. /\ c.inputs \in Seq(STRING) /\ c.outputs \in Seq(STRING)
      /\ c.program # "tee" => c.outputs = <<>>
      /\ Range(c.inputs) \cap Range(c.outputs) = {} /\ t.name \notin Range(c.outputs)
      /\ \A i, j \in 1..Len(c.outputs) : c.outputs[i] = c.outputs[j] => i = j
  BY CommandsAssumption, TargetsAssumption
<1>2. /\ \A i \in 1..Len(c.inputs) : c.inputs[i] \in Range(c.inputs)
      /\ \A j \in 1..Len(c.outputs) : c.outputs[j] \in Range(c.outputs)
  BY <1>1, LenProperties DEF Range
<1>3. Len(c.outputs) \in Nat /\ Len(c.inputs) \in Nat
  BY <1>1, LenProperties
<1>4. \A i \in 1..Len(c.inputs), j \in 1..Len(c.outputs) : c.inputs[i] # c.outputs[j]
  BY <1>1, <1>2
<1>5. \A j \in 1..Len(c.outputs) : c.outputs[j] # t.name
  BY <1>1, <1>2
<1>6. c.program # "tee" => Len(c.outputs) = 0
  BY <1>1
<1> QED BY <1>1, <1>3, <1>4, <1>5, <1>6

\* Bytes are symbols.
LEMMA BytesAreSymbols ==
  /\ \A s \in Seq(Byte) : s \in Seq(Symbol)
  /\ <<>> \in Seq(Byte) /\ <<>> \in Seq(Symbol) /\ <<>> \in Seq(Seq(Byte))
<1>1. Byte \subseteq Symbol
  BY DEF Symbol
<1> QED BY <1>1, SeqMonotonic, EmptySeq

\* What a file is opened with.
LEMMA KeptType ==
  ASSUME before \in FileSystems
  PROVE  /\ \A name, append : Kept(name, append) \in Seq(Byte) /\ Kept(name, append) \in Seq(Symbol)
         /\ \A name \in DOMAIN before : before[name] \in Seq(Byte)
         /\ before = [name \in DOMAIN before |-> before[name]]
<1>1. /\ before = [name \in DOMAIN before |-> before[name]]
      /\ \A name \in DOMAIN before : before[name] \in Range(before)
      /\ Range(before) \subseteq Seq(Byte)
  BY FilesAssumption DEF Range
<1>2. \A name \in DOMAIN before : before[name] \in Seq(Byte)
  BY <1>1
<1>3. \A name, append : Kept(name, append) \in Seq(Byte)
  BY <1>2, BytesAreSymbols DEF Kept
<1> QED BY <1>1, <1>2, <1>3, BytesAreSymbols

\* The inputs hold bytes.
LEMMA InputBytes ==
  ASSUME ValuesInv, InputsInv, ~Over, NEW i \in 1..Len(command.inputs),
         command.inputs[i] \in DOMAIN files
  PROVE  files[command.inputs[i]] \in Seq(Byte)
<1> DEFINE name == command.inputs[i]
<1>1. before \in FileSystems
  BY DEF ValuesInv
<1>2. Untouched(name) \/ Emptied(name)
  BY DEF InputsInv
<1> HIDE DEF name
<1>3. name \in DOMAIN files
  BY DEF name
<1> QED BY <1>1, <1>2, <1>3, KeptType DEF Untouched, Emptied, name

\* What is read.
LEMMA DataType ==
  ASSUME ValuesInv, CountsInv, PlaceInv, InputsInv, stage = "read", NEW n \in Nat,
         position + n <= Len(files[InputName])
  PROVE  /\ SubSeq(files[InputName], position + 1, position + n) \in Seq(Byte)
         /\ Len(SubSeq(files[InputName], position + 1, position + n)) = n
         /\ files[InputName] \in Seq(Byte)
<1>1. InputName \in DOMAIN files /\ input \in 1..Len(command.inputs) /\ ~Over /\ position \in Nat
  <2>1. Len(command.inputs) \in Nat
    BY NamesOf DEF ValuesInv
  <2> QED BY <2>1 DEF PlaceInv, CountsInv, Over
<1>2. files[InputName] \in Seq(Byte)
  BY <1>1, InputBytes DEF InputName
<1> QED BY <1>1, <1>2, PartType

\* The last input that has been opened.
LEMMA LastTaken ==
  ASSUME ValuesInv, CountsInv, PlaceInv, input > 0
  PROVE  /\ taken # <<>> /\ Len(taken) = input /\ input \in 1..Len(taken) /\ input \in Nat
         /\ taken[input] \in Seq(Byte) /\ UsedNow \in Seq(Byte)
<1>1. Len(taken) = input /\ taken \in Seq(Seq(Byte)) /\ buffered \in Seq(Byte)
  BY DEF ValuesInv, PlaceInv
<1>2. input \in Nat
  BY <1>1, LenProperties
<1>3. input \in 1..Len(taken) /\ taken # <<>>
  BY <1>1, <1>2
<1>4. taken[input] \in Seq(Byte)
  BY <1>1, <1>3, ElementOfSeq
<1>5. UsedNow \in Seq(Byte)
  BY <1>1, <1>4, UsedType DEF UsedNow
<1> QED BY <1>1, <1>2, <1>3, <1>4, <1>5

Steps == FilterMoves \/ SpongeMoves

\* The values have their types.
LEMMA ValuesStep ==
  ASSUME PipelineInv, Steps
  PROVE  ValuesInv'
<1> USE DEF ValuesInv
<1>1. ValuesInv /\ CountsInv /\ PlaceInv /\ InputsInv
  BY DEF PipelineInv
<1>2. CASE FilterMoves
  <2>1. UNCHANGED <<command, target, before, buffer>>
    BY <1>2 DEF FilterMoves
  <2>2. CASE OpensFile
    BY <1>1, <2>1, <2>2 DEF OpensFile, outputVars
  <2>3. CASE Ends
    <3>1. pipe \o held \in Seq(Symbol)
      BY <1>1, ConcatProperties
    <3> QED BY <1>1, <2>1, <2>3, <3>1, BytesAreSymbols DEF Ends, outputVars
  <2>4. CASE OpensInput \/ SkipsInput
    <3>1. Append(taken, <<>>) \in Seq(Seq(Byte))
      <4> DEFINE E == Seq(Byte)
      <4>1. taken \in Seq(E) /\ <<>> \in E
        BY <1>1, BytesAreSymbols
      <4> HIDE DEF E
      <4>2. Append(taken, <<>>) \in Seq(E)
        BY <4>1, AppendProperties
      <4> QED BY <4>2 DEF E
    <3> QED BY <1>1, <2>1, <2>4, <3>1, BytesAreSymbols DEF OpensInput, SkipsInput, outputVars
  <2>5. CASE Reads
    <3>1. PICK n \in Nat \ {0} :
            /\ position + n <= Len(files[InputName])
            /\ LET data == SubSeq(files[InputName], position + 1, position + n)
               IN  buffered' = buffered \o data /\ taken' = [taken EXCEPT ![input] = @ \o data]
      BY <2>5 DEF Reads
    <3> DEFINE data == SubSeq(files[InputName], position + 1, position + n)
    <3>2. data \in Seq(Byte)
      BY <1>1, <2>5, <3>1, DataType DEF Reads
    <3>3. taken[input] \in Seq(Byte) /\ input \in 1..Len(taken)
      BY <1>1, <2>5, LastTaken DEF Reads, PlaceInv
    <3> HIDE DEF data
    <3>4. buffered \o data \in Seq(Byte) /\ taken[input] \o data \in Seq(Byte)
      BY <1>1, <3>2, <3>3, ConcatProperties
    <3>5. [taken EXCEPT ![input] = taken[input] \o data] \in Seq(Seq(Byte))
      BY <1>1, <3>3, <3>4, ExceptSeq
    <3> QED BY <1>1, <2>1, <2>5, <3>1, <3>4, <3>5 DEF Reads, outputVars, data
  <2>6. CASE DropsPart
    <3>1. UsedNow \in Seq(Byte) /\ input \in 1..Len(taken)
      BY <1>1, <2>6, LastTaken DEF DropsPart, PlaceInv
    <3>2. [taken EXCEPT ![input] = UsedNow] \in Seq(Seq(Byte))
      BY <1>1, <3>1, ExceptSeq
    <3> QED BY <1>1, <2>1, <2>6, <3>2, BytesAreSymbols DEF DropsPart, outputVars, UsedNow
  <2>7. CASE LeavesInput
    BY <1>1, <2>1, <2>7 DEF LeavesInput, outputVars
  <2>8. CASE UsesLine
    <3>1. PICK l, r \in Seq(Byte) :
            /\ buffered' = r
            /\ \/ UNCHANGED <<stage, outputVars, lines>>
               \/ writing' = MadeOf(command, lines + 1, Filter!LineIn(l))
      BY <2>8 DEF UsesLine
    <3>2. Filter!LineIn(l) \in Seq(Byte)
      BY LineInType
    <3>3. lines + 1 \in Nat
      BY <1>1 DEF CountsInv
    <3>4. MadeOf(command, lines + 1, Filter!LineIn(l)) \in Seq(Symbol)
      BY <1>1, <3>2, <3>3, MadeType
    <3>5. writing' \in Seq(Symbol)
      BY <1>1, <3>1, <3>4 DEF outputVars
    <3> QED BY <1>1, <2>1, <2>8, <3>1, <3>5 DEF UsesLine
  <2>9. CASE UsesBlock
    BY <1>1, <2>1, <2>9, BytesAreSymbols DEF UsesBlock
  <2>10. CASE WritesFile
    BY <1>1, <2>1, <2>10 DEF WritesFile
  <2>11. CASE WritesStdout
    <3> DEFINE s == held \o writing
    <3>1. s \in Seq(Symbol)
      BY <1>1, ConcatProperties
    <3> HIDE DEF s
    <3>2. Filter!Flushed(s) \in Seq(Symbol) /\ Filter!Kept(s) \in Seq(Symbol)
      BY <3>1, FlushedParts
    <3>3. pipe \o Filter!Flushed(s) \in Seq(Symbol)
      BY <1>1, <3>2, ConcatProperties
    <3> QED BY <1>1, <2>1, <2>11, <3>2, <3>3 DEF WritesStdout, outputVars, s
  <2> QED BY <1>2, <2>2, <2>3, <2>4, <2>5, <2>6, <2>7, <2>8, <2>9, <2>10, <2>11 DEF FilterMoves
<1>3. CASE SpongeMoves
  <2>1. buffer \o pipe \in Seq(Symbol)
    BY <1>1, ConcatProperties
  <2>2. buffer' \in Seq(Symbol) /\ pipe' \in Seq(Symbol)
    BY <1>1, <1>3, <2>1, BytesAreSymbols DEF SpongeMoves, OpensTarget, Takes, Changes, Writes, Shows
  <2> QED BY <1>1, <1>3, <2>2 DEF SpongeMoves, filterVars
<1> QED BY <1>2, <1>3 DEF Steps

\* So do the numbers and the places.
LEMMA CountsStep ==
  ASSUME PipelineInv, Steps
  PROVE  CountsInv'
<1> USE DEF CountsInv
<1>1. ValuesInv /\ CountsInv /\ PlaceInv /\ SpongeInv
  BY DEF PipelineInv
<1>2. Len(command.outputs) \in Nat /\ Len(command.inputs) \in Nat
  BY <1>1, NamesOf DEF ValuesInv
<1>3. CASE FilterMoves
  <2>1. UNCHANGED <<command, main, written>>
    BY <1>3 DEF FilterMoves
  <2>2. CASE OpensFile
    BY <1>1, <1>2, <2>1, <2>2 DEF OpensFile, outputVars, Final
  <2>3. CASE Ends
    BY <1>1, <2>1, <2>3 DEF Ends, outputVars, Final
  <2>4. CASE OpensInput
    BY <1>1, <1>2, <2>1, <2>4 DEF OpensInput, outputVars, Final
  <2>5. CASE SkipsInput
    BY <1>1, <1>2, <2>1, <2>5 DEF SkipsInput, outputVars, Final
  <2>6. CASE Reads
    <3>1. position' \in Nat
      BY <1>1, <2>6 DEF Reads
    <3> QED BY <1>1, <2>1, <2>6, <3>1 DEF Reads, outputVars, Final
  <2>7. CASE DropsPart
    BY <1>1, <2>1, <2>7 DEF DropsPart, outputVars, Final
  <2>8. CASE LeavesInput
    BY <1>1, <2>1, <2>8 DEF LeavesInput, outputVars, Final
  <2>9. CASE UsesLine
    <3>1. /\ stage' \in {"read", "write"} /\ lines' \in Nat /\ offset' \in Nat /\ next' \in 1..Final
          /\ UNCHANGED <<opened, input, position>>
      BY <1>1, <1>2, <2>9 DEF UsesLine, outputVars, Final
    <3>2. skipped' = TRUE \/ skipped' = skipped
      BY <2>9 DEF UsesLine
    <3>3. skipped' \in BOOLEAN
      BY <1>1, <3>2, Zenon DEF CountsInv
    <3> QED BY <1>1, <2>1, <3>1, <3>3 DEF Final
  <2>10. CASE UsesBlock
    BY <1>1, <1>2, <2>1, <2>10 DEF UsesBlock, Final
  <2>11. CASE WritesFile
    <3>1. Len(writing) \in Nat
      BY <1>1, LenProperties DEF ValuesInv
    <3>2. next' \in 1..Final /\ offset' \in Nat
      <4>1. PICK n \in 1..(Len(writing) - offset) :
              (next' = next + 1 /\ offset' = 0) \/ (offset' = offset + n /\ next' = next)
        BY <2>11 DEF WritesFile
      <4>2. n \in Nat
        BY <1>1, <3>1
      <4>3. next < Final
        BY <2>11 DEF WritesFile
      <4> QED BY <1>1, <1>2, <4>1, <4>2, <4>3 DEF Final
    <3> QED BY <1>1, <2>1, <2>11, <3>2 DEF WritesFile, Final
  <2>12. CASE WritesStdout
    BY <1>1, <2>1, <2>12 DEF WritesStdout, outputVars, Final
  <2> QED BY <1>3, <2>2, <2>3, <2>4, <2>5, <2>6, <2>7, <2>8, <2>9, <2>10, <2>11, <2>12 DEF FilterMoves
<1>4. CASE SpongeMoves
  <2>1. UNCHANGED <<command, stage, skipped, opened, input, position, lines, offset, next>>
    BY <1>4 DEF SpongeMoves, filterVars
  <2>2. main' \in {"open", "read", "write", "success", "failure"}
    BY <1>1, <1>4 DEF SpongeMoves, OpensTarget, Takes, Changes, Writes, Shows
  <2>3. written' \in Nat
    <3>1. \A shown \in {Sponge!Flushed(buffer), buffer} : Len(shown) \in Nat
      <4>1. buffer \in Seq(Symbol) /\ Sponge!Flushed(buffer) \in Seq(Symbol)
        BY <1>1, SameFlushed, FlushedParts DEF ValuesInv
      <4> QED BY <4>1, LenProperties
    <3> QED BY <1>1, <1>4, <3>1 DEF SpongeMoves, OpensTarget, Takes, Changes, Writes, Shows
  <2> QED BY <1>1, <2>1, <2>2, <2>3 DEF Final
<1> QED BY <1>3, <1>4 DEF Steps

-----------------------------------------------------------------------------
(* Files. *)

\* A step leaves a file alone.
Same(name) ==
  /\ name \in DOMAIN files' <=> name \in DOMAIN files
  /\ name \in DOMAIN files => files'[name] = files[name]

\* The filter changes the files of tee, and sponge its own.
LEMMA FilterFiles ==
  ASSUME PipelineInv, FilterMoves
  PROVE  /\ FilesHold(Symbol)' /\ DOMAIN files \subseteq DOMAIN files'
         /\ \A name : (\A j \in 1..Len(command.outputs) : name # OutputName(j)) => Same(name)
<1>1. ValuesInv /\ CountsInv /\ PlaceInv /\ FilesHold(Symbol)
  BY DEF PipelineInv, FilesInv
<1>2. Len(command.outputs) \in Nat
  BY <1>1, NamesOf DEF ValuesInv
<1>3. CASE OpensFile
  <2> DEFINE j == opened + 1
             name == OutputName(j)
             a == command.append
             g == WithOpened(files, name, a)
  <2>1. j \in 1..Len(command.outputs) /\ files' = g
    BY <1>1, <1>2, <1>3 DEF OpensFile, CountsInv, OutputName
  <2>2. /\ IsFunction(g) /\ \A n : n \in DOMAIN g <=> n \in DOMAIN files \/ n = name
        /\ \A n \in DOMAIN files : n # name => g[n] = files[n]
        /\ g[name] = Started(files, name, a)
    <3> HIDE DEF name, a
    <3> QED BY OpenedFiles
  <2> HIDE DEF g, name, a
  <2>3. \A n \in DOMAIN g : g[n] \in Seq(Symbol)
    BY <1>1, <2>2, BytesAreSymbols DEF FilesHold, Started
  <2> HIDE DEF j
  <2> QED BY <2>1, <2>2, <2>3 DEF FilesHold, IsFunction, Same, Started, name
<1>4. CASE WritesFile
  <2>1. next \in 1..Len(command.outputs)
    BY <1>1, <1>2, <1>4 DEF WritesFile, CountsInv, Final
  <2>2. PICK n \in 1..(Len(writing) - offset) :
          files' = WithGrown(files, OutputName(next), SubSeq(writing, offset + 1, offset + n))
    BY <1>4 DEF WritesFile, OutputName
  <2> DEFINE name == OutputName(next)
             data == SubSeq(writing, offset + 1, offset + n)
             g == WithGrown(files, name, data)
  <2>3. data \in Seq(Symbol)
    <3>1. offset \in Nat /\ writing \in Seq(Symbol) /\ Len(writing) \in Nat
      BY <1>1, LenProperties DEF CountsInv, ValuesInv
    <3>2. n \in Nat /\ offset + n <= Len(writing)
      BY <3>1
    <3> QED BY <3>1, <3>2, PartType
  <2> HIDE DEF data
  <2>4. /\ IsFunction(g) /\ DOMAIN g = DOMAIN files
        /\ \A m \in DOMAIN files : m # name => g[m] = files[m]
        /\ name \in DOMAIN files => g[name] = files[name] \o data
    <3>1. IsFunction(files)
      BY <1>1 DEF FilesHold, IsFunction
    <3> QED BY <3>1, GrownFiles
  <2>5. files' = g
    BY <2>2 DEF data
  <2> HIDE DEF g, name
  <2>6. \A m \in DOMAIN g : g[m] \in Seq(Symbol)
    BY <1>1, <2>3, <2>4, ConcatProperties DEF FilesHold
  <2> QED BY <2>1, <2>4, <2>5, <2>6 DEF FilesHold, IsFunction, Same, Started, name
<1>5. CASE ~OpensFile /\ ~WritesFile
  <2>1. UNCHANGED files
    BY <1>5 DEF FilterMoves, Ends, OpensInput, SkipsInput, Reads, DropsPart, LeavesInput, UsesLine,
                UsesBlock, WritesStdout
  <2> QED BY <1>1, <2>1 DEF FilesHold, Same
<1> QED BY <1>3, <1>4, <1>5

\* sponge leaves every file but its own alone.
LEMMA SpongeFiles ==
  ASSUME PipelineInv, SpongeMoves
  PROVE  /\ FilesHold(Symbol)' /\ DOMAIN files \subseteq DOMAIN files'
         /\ \A name : name # target.name => Same(name)
<1>1. ValuesInv /\ CountsInv /\ SpongeInv /\ FilesHold(Symbol)
  BY DEF PipelineInv, FilesInv
<1>2. CASE UNCHANGED files
  BY <1>1, <1>2 DEF FilesHold, Same
<1>3. CASE OpensTarget /\ target.name # "stdout"
  <2> DEFINE name == target.name
             a == target.append
             g == WithOpened(files, name, a)
  <2>1. files' = g
    BY <1>3 DEF OpensTarget
  <2>2. /\ IsFunction(g) /\ \A n : n \in DOMAIN g <=> n \in DOMAIN files \/ n = name
        /\ \A n \in DOMAIN files : n # name => g[n] = files[n]
        /\ g[name] = Started(files, name, a)
    <3> HIDE DEF name, a
    <3> QED BY OpenedFiles
  <2> HIDE DEF g, name, a
  <2>3. \A n \in DOMAIN g : g[n] \in Seq(Symbol)
    BY <1>1, <2>2, BytesAreSymbols DEF FilesHold, Started
  <2> QED BY <2>1, <2>2, <2>3 DEF FilesHold, IsFunction, Same, Started, name
<1>4. ASSUME NEW data \in Seq(Symbol), files' = WithGrown(files, target.name, data)
      PROVE  /\ FilesHold(Symbol)' /\ DOMAIN files \subseteq DOMAIN files'
             /\ \A name : name # target.name => Same(name)
  <2> DEFINE name == target.name
             g == WithGrown(files, name, data)
  <2>1. /\ IsFunction(g) /\ DOMAIN g = DOMAIN files
        /\ \A m \in DOMAIN files : m # name => g[m] = files[m]
        /\ name \in DOMAIN files => g[name] = files[name] \o data
    <3>1. IsFunction(files)
      BY <1>1 DEF FilesHold, IsFunction
    <3> HIDE DEF name
    <3> QED BY <3>1, GrownFiles
  <2>2. files' = g
    BY <1>4
  <2> HIDE DEF g, name
  <2>3. \A m \in DOMAIN g : g[m] \in Seq(Symbol)
    BY <1>1, <2>1, ConcatProperties DEF FilesHold
  <2> QED BY <2>1, <2>2, <2>3 DEF FilesHold, IsFunction, Same, Started, name
<1>5. CASE Writes
  <2>1. PICK n \in Nat :
          /\ written + n <= Len(buffer)
          /\ files' = WithGrown(files, target.name, SubSeq(buffer, written + 1, written + n))
    BY <1>5 DEF Writes
  <2>2. SubSeq(buffer, written + 1, written + n) \in Seq(Symbol)
    BY <1>1, <2>1, PartType DEF ValuesInv, CountsInv
  <2> QED BY <1>4, <2>1, <2>2
<1>6. CASE Shows
  <2>1. PICK shown \in {Sponge!Flushed(buffer), buffer} : files' = WithGrown(files, target.name, shown)
    BY <1>6 DEF Shows
  <2>2. shown \in Seq(Symbol)
    BY <1>1, SameFlushed, FlushedParts DEF ValuesInv
  <2> QED BY <1>4, <2>1, <2>2
<1> QED BY <1>2, <1>3, <1>5, <1>6 DEF SpongeMoves, OpensTarget, Takes, Changes

\* The file of sponge, opened.
LEMMA OpenedTarget ==
  LET g == WithOpened(files, target.name, target.append)
  IN  target.name \in DOMAIN g /\ g[target.name] = Started(files, target.name, target.append)
<1> DEFINE name == target.name
           a == target.append
<1> HIDE DEF name, a
<1>1. name \in DOMAIN WithOpened(files, name, a)
      /\ WithOpened(files, name, a)[name] = Started(files, name, a)
  BY OpenedFiles
<1> QED BY <1>1 DEF name, a

\* Nothing changes for a file that is left alone.
LEMMA SameStays ==
  ASSUME NEW name, Same(name), UNCHANGED <<before, target>>
  PROVE  /\ Untouched(name) => Untouched(name)'
         /\ Emptied(name) => Emptied(name)'
BY DEF Same, Untouched, Emptied, Kept

\* sponge writes when it has everything.
LEMMA SpongeStays ==
  ASSUME PipelineInv, Steps
  PROVE  SpongeInv'
<1> USE DEF SpongeInv
<1>1. SpongeInv /\ ValuesInv /\ CountsInv
  BY DEF PipelineInv
<1>2. CASE FilterMoves
  <2>1. UNCHANGED <<target, main, buffer, written>> /\ ~Over
    BY <1>2 DEF FilterMoves, OpensFile, Ends, OpensInput, SkipsInput, Reads, DropsPart, LeavesInput,
                UsesLine, UsesBlock, WritesFile, WritesStdout, Over
  <2> QED BY <1>1, <2>1
<1>3. CASE SpongeMoves
  <2>1. UNCHANGED <<stage, target>> /\ (Over <=> Over')
    BY <1>3 DEF SpongeMoves, filterVars, Over
  <2>2. CASE OpensTarget
    BY <1>1, <2>1, <2>2 DEF OpensTarget
  <2>3. CASE Takes
    <3>1. Len(buffer') = Len(buffer) + Len(pipe) /\ Len(buffer) \in Nat /\ Len(pipe) \in Nat
      BY <1>1, <2>3, ConcatProperties, LenProperties DEF Takes, ValuesInv
    <3> QED BY <1>1, <2>1, <2>3, <3>1 DEF Takes, CountsInv
  <2>4. CASE Changes
    BY <1>1, <2>1, <2>4 DEF Changes
  <2>5. CASE Writes
    BY <1>1, <2>1, <2>5 DEF Writes
  <2>6. CASE Shows
    <3>1. \A shown \in {Sponge!Flushed(buffer), buffer} : Len(shown) <= Len(buffer)
      <4> DEFINE f == Filter!Flushed(buffer)
                 k == Filter!Kept(buffer)
      <4>1. f \in Seq(Symbol) /\ k \in Seq(Symbol) /\ f \o k = buffer /\ Sponge!Flushed(buffer) = f
        BY <1>1, SameFlushed, FlushedParts DEF ValuesInv
      <4> HIDE DEF f, k
      <4>2. Len(buffer) = Len(f) + Len(k) /\ Len(f) \in Nat /\ Len(k) \in Nat
        BY <4>1, ConcatProperties, LenProperties
      <4> QED BY <4>1, <4>2
    <3> QED BY <1>1, <2>1, <2>6, <3>1 DEF Shows
  <2> QED BY <1>3, <2>2, <2>3, <2>4, <2>5, <2>6 DEF SpongeMoves
<1> QED BY <1>2, <1>3 DEF Steps

\* The file that sponge writes.
LEMMA TargetStays ==
  ASSUME PipelineInv, Steps
  PROVE  TargetInv'
<1> DEFINE t == target.name
           k == Kept(t, target.append)
           w == SubSeq(buffer, 1, written)
<1>1. ValuesInv /\ CountsInv /\ SpongeInv /\ TargetInv /\ FilesHold(Symbol)
  BY DEF PipelineInv, FilesInv
<1>2. k \in Seq(Symbol) /\ w \in Seq(Symbol) /\ buffer \in Seq(Symbol)
  <2>1. written \in 0..Len(buffer)
    BY <1>1, LenProperties DEF CountsInv, SpongeInv, ValuesInv
  <2> QED BY <1>1, <2>1, KeptType, CutInTwo DEF ValuesInv
<1>3. CASE t = "stdout"
  <2>1. UNCHANGED target
    BY DEF Steps, FilterMoves, SpongeMoves
  <2> QED BY <1>3, <2>1 DEF TargetInv
<1>4. CASE FilterMoves /\ t # "stdout"
  <2>1. UNCHANGED <<target, main, buffer, written, before>>
    BY <1>4 DEF FilterMoves
  <2>2. Same(t)
    <3>1. \A j \in 1..Len(command.outputs) : t # OutputName(j)
      BY <1>1, NamesOf DEF ValuesInv, OutputName
    <3> QED BY <1>4, <3>1, FilterFiles
  <2>3. Kept(t, target.append)' = k
    BY <2>1 DEF Kept
  <2>4. CASE main \in {"open", "failure"} /\ written = 0 /\ Untouched(t)
    <3>1. Untouched(t)'
      BY <2>1, <2>2, <2>4 DEF Same, Untouched
    <3> QED BY <2>1, <2>4, <3>1 DEF TargetInv
  <2>5. CASE main # "open" /\ t \in DOMAIN files /\ files[t] = k \o w
    <3>1. t \in DOMAIN files' /\ files'[t] = k \o w
      BY <2>2, <2>5 DEF Same
    <3> QED BY <2>1, <2>3, <2>5, <3>1 DEF TargetInv
  <2> QED BY <1>1, <1>4, <2>4, <2>5 DEF TargetInv
<1>5. CASE SpongeMoves /\ t # "stdout"
  <2>1. UNCHANGED <<target, before>>
    BY <1>5 DEF SpongeMoves
  <2>2. Kept(t, target.append)' = k
    BY <2>1 DEF Kept
  <2>3. CASE OpensTarget
    <3>1. main = "open" /\ main' = "read" /\ UNCHANGED <<buffer, written>>
          /\ files' = WithOpened(files, t, target.append)
      BY <1>5, <2>3 DEF OpensTarget
    <3>2. written = 0 /\ Untouched(t)
      BY <1>1, <1>5, <3>1 DEF TargetInv
    <3>3. t \in DOMAIN files'
          /\ files'[t] = Started(files, t, target.append)
      BY <3>1, OpenedTarget
    <3>4. files'[t] = k
      BY <3>2, <3>3 DEF Untouched, Kept, Started
    <3>5. w = <<>>
      BY <3>2, SubSeqEmpty
    <3>6. files'[t] = k \o w
      BY <1>2, <3>4, <3>5, ConcatEmptySeq
    <3> QED BY <2>1, <2>2, <3>1, <3>3, <3>6 DEF TargetInv
  <2>4. CASE Takes
    <3>1. UNCHANGED <<files, main, written>> /\ main = "read" /\ buffer' = buffer \o pipe
      BY <2>4 DEF Takes
    <3>2. SubSeq(buffer', 1, written) = w
      <4>1. CASE written = 0
        BY <4>1, SubSeqEmpty
      <4>2. CASE written # 0
        <5>1. pipe = <<>>
          BY <1>1, <4>2 DEF SpongeInv, CountsInv
        <5> QED BY <1>2, <3>1, <5>1, ConcatEmptySeq
      <4> QED BY <4>1, <4>2
    <3>3. main # "open" /\ t \in DOMAIN files /\ files[t] = k \o w
      BY <1>1, <1>5, <3>1 DEF TargetInv
    <3> QED BY <2>1, <2>2, <3>1, <3>2, <3>3 DEF TargetInv
  <2>5. CASE Changes
    <3>1. UNCHANGED <<files, buffer, written>>
      BY <2>5 DEF Changes
    <3>2. Untouched(t)' <=> Untouched(t)
      BY <2>1, <3>1 DEF Untouched
    <3>3. \/ main \in {"open", "read", "write"} /\ main' = "failure"
          \/ main \notin {"open", "failure"} /\ main' # "open"
      BY <2>5 DEF Changes
    <3> QED BY <1>1, <2>1, <2>2, <3>1, <3>2, <3>3 DEF TargetInv
  <2>6. CASE Writes
    <3>1. PICK n \in Nat :
            /\ written + n <= Len(buffer) /\ written' = written + n
            /\ files' = WithGrown(files, t, SubSeq(buffer, written + 1, written + n))
      BY <2>6 DEF Writes
    <3>2. UNCHANGED <<main, buffer>> /\ main = "write"
      BY <2>6 DEF Writes
    <3>3. t \in DOMAIN files /\ files[t] = k \o w
      BY <1>1, <1>5, <3>2 DEF TargetInv
    <3> DEFINE d == SubSeq(buffer, written + 1, written + n)
    <3>4. d \in Seq(Symbol) /\ w \o d = SubSeq(buffer, 1, written + n)
      <4>1. 0 \in 0..Len(buffer) /\ written \in 0..Len(buffer) /\ written + n \in written..Len(buffer)
            /\ written \in Nat
        BY <1>1, <1>2, <3>1, LenProperties DEF CountsInv
      <4>2. SubSeq(buffer, 0 + 1, written) \o SubSeq(buffer, written + 1, written + n)
              = SubSeq(buffer, 0 + 1, written + n)
        BY <1>2, <4>1, AdjacentParts
      <4> QED BY <1>2, <3>1, <4>1, <4>2, PartType
    <3> HIDE DEF d
    <3>5. t \in DOMAIN files' /\ files'[t] = (k \o w) \o d
      <4> DEFINE g == WithGrown(files, t, d)
      <4>1. DOMAIN g = DOMAIN files /\ (t \in DOMAIN files => g[t] = files[t] \o d)
        <5>1. IsFunction(files)
          BY <1>1 DEF FilesHold, IsFunction
        <5> HIDE DEF t
        <5> QED BY <5>1, GrownFiles
      <4>2. files' = g
        BY <3>1 DEF d
      <4> HIDE DEF g
      <4> QED BY <3>3, <4>1, <4>2
    <3> HIDE DEF k, w
    <3>6. SameJoin(k, w, d)
      BY <1>2, <3>4, JoinThree
    <3>7. files'[t] = k \o SubSeq(buffer, 1, written + n)
      BY <3>4, <3>5, <3>6 DEF SameJoin
    <3> QED BY <2>1, <2>2, <3>1, <3>2, <3>5, <3>7 DEF TargetInv
  <2> QED BY <1>5, <2>3, <2>4, <2>5, <2>6 DEF SpongeMoves, Shows
<1> QED BY <1>3, <1>4, <1>5 DEF Steps

\* The inputs are as they were, or sponge has emptied them.
LEMMA InputsStay ==
  ASSUME PipelineInv, Steps
  PROVE  InputsInv'
<1>1. ValuesInv /\ SpongeInv /\ TargetInv /\ InputsInv
  BY DEF PipelineInv
<1>2. UNCHANGED <<command, target, before>>
  BY DEF Steps, FilterMoves, SpongeMoves, filterVars
<1>3. SUFFICES ASSUME ~Over', NEW i \in 1..Len(command.inputs)
               PROVE  Untouched(command.inputs[i])' \/ Emptied(command.inputs[i])'
  BY <1>2 DEF InputsInv
<1> DEFINE name == command.inputs[i]
<1>4. ~Over
  <2>1. CASE FilterMoves
    BY <2>1 DEF FilterMoves, OpensFile, Ends, OpensInput, SkipsInput, Reads, DropsPart, LeavesInput,
                UsesLine, UsesBlock, WritesFile, WritesStdout, Over
  <2>2. CASE SpongeMoves
    BY <1>3, <2>2 DEF SpongeMoves, filterVars, Over
  <2> QED BY <2>1, <2>2 DEF Steps
<1>5. Untouched(name) \/ Emptied(name)
  BY <1>1, <1>4 DEF InputsInv
<1>6. name' = name
  BY <1>2
<1>7. CASE Same(name)
  BY <1>2, <1>5, <1>6, <1>7, SameStays
<1>8. CASE FilterMoves
  <2>1. \A j \in 1..Len(command.outputs) : name # OutputName(j)
    BY <1>1, NamesOf DEF ValuesInv, OutputName
  <2> HIDE DEF name
  <2>2. Same(name)
    BY <1>8, <2>1, FilterFiles
  <2> QED BY <1>7, <2>2 DEF name
<1>9. CASE SpongeMoves
  <2>1. CASE UNCHANGED files
    <3>1. Same(name)
      BY <2>1 DEF Same
    <3> QED BY <1>7, <3>1
  <2>2. CASE name # target.name
    <3>1. Same(name)
      BY <1>9, <2>2, SpongeFiles
    <3> QED BY <1>7, <3>1
  <2>3. CASE OpensTarget /\ target.name # "stdout" /\ name = target.name
    <3>1. main = "open" /\ files' = WithOpened(files, name, target.append)
      BY <2>3 DEF OpensTarget
    <3>2. Untouched(name)
      BY <1>1, <2>3, <3>1 DEF TargetInv
    <3>3. name \in DOMAIN files'
          /\ files'[name] = Started(files, name, target.append)
      BY <2>3, <3>1, OpenedTarget
    <3>4. files'[name] = Kept(name, target.append)
      BY <3>2, <3>3 DEF Untouched, Kept, Started
    <3>5. Emptied(name)'
      BY <1>2, <1>6, <2>3, <3>3, <3>4 DEF Emptied, Kept
    <3> QED BY <3>5
  <2>4. CASE Writes \/ Shows
    BY <1>1, <1>4, <2>4 DEF Writes, Shows, SpongeInv
  <2> QED BY <1>9, <2>1, <2>2, <2>3, <2>4 DEF SpongeMoves, OpensTarget, Takes, Changes
<1> QED BY <1>8, <1>9 DEF Steps

\* What an output has got.
LEMMA GotType ==
  ASSUME ValuesInv, CountsInv, FilesInv, NEW i \in 1..opened
  PROVE  /\ i \in 1..Len(command.outputs) /\ OutputName(i) \in DOMAIN files
         /\ AtStart(i) \in Seq(Symbol) /\ GotFile(i) \in Seq(Symbol)
         /\ files[OutputName(i)] = AtStart(i) \o GotFile(i)
<1> DEFINE s == files[OutputName(i)]
           a == AtStart(i)
<1>1. i \in 1..Len(command.outputs) /\ ~(i > opened)
  <2>1. Len(command.outputs) \in Nat
    BY NamesOf DEF ValuesInv
  <2> QED BY <2>1 DEF CountsInv
<1>2. OutputName(i) \in DOMAIN files /\ s = a \o GotFile(i) /\ s \in Seq(Symbol)
  BY <1>1 DEF FilesInv, FilesHold
<1>3. a \in Seq(Symbol)
  BY KeptType DEF ValuesInv, AtStart
<1>4. GotFile(i) = SubSeq(s, Len(a) + 1, Len(s))
  BY DEF GotFile
<1> HIDE DEF s, a
<1>5. Len(a) \in Nat /\ Len(s) \in Nat
  BY <1>2, <1>3, LenProperties
<1>6. SubSeq(s, Len(a) + 1, Len(s)) \in Seq(Symbol)
  <2>1. CASE Len(a) <= Len(s)
    <3>1. Len(a) \in 0..Len(s)
      BY <1>5, <2>1
    <3> QED BY <1>2, <3>1, CutInTwo
  <2>2. CASE Len(s) < Len(a) + 1
    BY <1>5, <2>2, SubSeqEmpty, BytesAreSymbols
  <2> QED BY <1>5, <2>1, <2>2
<1> QED BY <1>1, <1>2, <1>3, <1>4, <1>6 DEF s, a

\* It keeps that, as long as nothing is written to it.
LEMMA GotStays ==
  ASSUME PipelineInv, Steps, NEW i \in 1..opened, ~(FilterMoves /\ WritesFile /\ i = next)
  PROVE  /\ OutputName(i) \in DOMAIN files' /\ GotFile(i)' = GotFile(i)
         /\ files'[OutputName(i)] = AtStart(i) \o GotFile(i) /\ AtStart(i)' = AtStart(i)
         /\ OutputName(i)' = OutputName(i)
<1>1. ValuesInv /\ CountsInv /\ FilesInv
  BY DEF PipelineInv
<1>2. UNCHANGED <<command, before>>
  BY DEF Steps, FilterMoves, SpongeMoves, filterVars
<1>3. AtStart(i)' = AtStart(i) /\ OutputName(i)' = OutputName(i)
  BY <1>2 DEF AtStart, Kept, OutputName
<1>4. /\ i \in 1..Len(command.outputs) /\ OutputName(i) \in DOMAIN files
      /\ files[OutputName(i)] = AtStart(i) \o GotFile(i)
  BY <1>1, GotType
<1>5. Same(OutputName(i))
  <2>1. \A j \in 1..Len(command.outputs) : j # i => OutputName(i) # OutputName(j)
    BY <1>1, <1>4, NamesOf DEF ValuesInv, OutputName
  <2>2. OutputName(i) # target.name
    BY <1>1, <1>4, NamesOf DEF ValuesInv, OutputName
  <2>3. CASE SpongeMoves
    BY <2>2, <2>3, SpongeFiles
  <2>4. CASE FilterMoves /\ OpensFile
    <3> DEFINE j == opened + 1
               name == OutputName(j)
               a == command.append
    <3>1. j \in 1..Len(command.outputs) /\ j # i
      BY <1>1, <1>4, <2>4 DEF OpensFile, CountsInv
    <3>2. files' = WithOpened(files, name, a)
      BY <2>4 DEF OpensFile, OutputName
    <3>3. OutputName(i) # name
      BY <2>1, <3>1
    <3> HIDE DEF j, name, a
    <3> QED BY <1>4, <3>2, <3>3, OpenedFiles DEF Same
  <2>5. CASE FilterMoves /\ WritesFile
    <3> DEFINE name == OutputName(next)
    <3>1. next \in 1..Len(command.outputs) /\ next # i
      <4>1. Len(command.outputs) \in Nat
        BY <1>1, NamesOf DEF ValuesInv
      <4> QED BY <1>1, <2>5, <4>1 DEF WritesFile, CountsInv, Final
    <3>2. OutputName(i) # name
      BY <2>1, <3>1
    <3>3. PICK n : files' = WithGrown(files, name, SubSeq(writing, offset + 1, offset + n))
      BY <2>5 DEF WritesFile, OutputName
    <3>4. IsFunction(files)
      BY <1>1 DEF FilesInv, FilesHold, IsFunction
    <3> HIDE DEF name
    <3> QED BY <1>4, <3>2, <3>3, <3>4, GrownFiles DEF Same
  <2>6. CASE FilterMoves /\ ~OpensFile /\ ~WritesFile
    <3>1. UNCHANGED files
      BY <2>6 DEF FilterMoves, Ends, OpensInput, SkipsInput, Reads, DropsPart, LeavesInput, UsesLine,
                  UsesBlock, WritesStdout
    <3> QED BY <3>1 DEF Same
  <2> QED BY <2>3, <2>4, <2>5, <2>6 DEF Steps
<1>6. OutputName(i) \in DOMAIN files' /\ files'[OutputName(i)] = files[OutputName(i)]
  BY <1>4, <1>5 DEF Same
<1>7. GotFile(i)' = GotFile(i)
  BY <1>3, <1>6 DEF GotFile
<1> QED BY <1>3, <1>4, <1>6, <1>7

\* A file that has been opened has got nothing.
LEMMA GotStarts ==
  ASSUME PipelineInv, FilterMoves, OpensFile, NEW j \in Nat, j = opened + 1
  PROVE  /\ j \in 1..Len(command.outputs)
         /\ OutputName(j) \in DOMAIN files' /\ GotFile(j)' = <<>>
         /\ files'[OutputName(j)] = AtStart(j)
         /\ AtStart(j)' = AtStart(j) /\ AtStart(j) \in Seq(Symbol)
         /\ UNCHANGED <<command, before>>
<1> DEFINE name == OutputName(j)
           a == command.append
<1>1. ValuesInv /\ CountsInv /\ FilesInv
  BY DEF PipelineInv
<1>2. UNCHANGED <<command, before>>
  BY DEF FilterMoves
<1>3. j \in 1..Len(command.outputs) /\ j > opened /\ j \in Nat
  <2>1. Len(command.outputs) \in Nat
    BY <1>1, NamesOf DEF ValuesInv
  <2> QED BY <1>1, <2>1 DEF OpensFile, CountsInv
<1>4. Untouched(name)
  BY <1>1, <1>3 DEF FilesInv
<1>5. files' = WithOpened(files, name, a)
  BY DEF OpensFile, OutputName
<1>6. AtStart(j)' = AtStart(j) /\ name' = name
  BY <1>2 DEF AtStart, Kept, OutputName
<1>7. name \in DOMAIN files' /\ files'[name] = Started(files, name, a)
  <2> HIDE DEF name, a
  <2> QED BY <1>5, OpenedFiles
<1>8. files'[name] = AtStart(j)
  BY <1>4, <1>7 DEF Untouched, Started, AtStart, Kept
<1>9. AtStart(j) \in Seq(Symbol)
  BY <1>1, KeptType DEF ValuesInv, AtStart
<1>10. GotFile(j)' = SubSeq(AtStart(j), Len(AtStart(j)) + 1, Len(AtStart(j)))
  BY <1>6, <1>8 DEF GotFile
<1>11. GotFile(j)' = <<>>
  BY <1>9, <1>10, SubSeqEmpty, LenProperties
<1> QED BY <1>2, <1>3, <1>6, <1>7, <1>8, <1>9, <1>11

\* One that is written gets more.
LEMMA GotGrows ==
  ASSUME PipelineInv, FilterMoves, WritesFile, NEW n \in 1..(Len(writing) - offset), NEW k \in Nat,
         k = next,
         files' = WithGrown(files, OutputName(k), SubSeq(writing, offset + 1, offset + n))
  PROVE  LET d == SubSeq(writing, offset + 1, offset + n)
         IN  /\ k \in 1..opened /\ OutputName(k) \in DOMAIN files'
             /\ GotFile(k)' = GotFile(k) \o d
             /\ files'[OutputName(k)] = AtStart(k) \o (GotFile(k) \o d)
             /\ AtStart(k)' = AtStart(k) /\ OutputName(k)' = OutputName(k)
             /\ d \in Seq(Symbol) /\ GotFile(k) \in Seq(Symbol) /\ UNCHANGED <<command, before>>
             /\ n \in Nat /\ offset + n <= Len(writing) /\ Len(d) = n
<1> DEFINE d == SubSeq(writing, offset + 1, offset + n)
           name == OutputName(k)
           a == AtStart(k)
           g == GotFile(k)
<1>1. ValuesInv /\ CountsInv /\ FilesInv /\ PlaceInv
  BY DEF PipelineInv
<1>2. UNCHANGED <<command, before>>
  BY DEF FilterMoves
<1>3. Len(command.outputs) \in Nat
  BY <1>1, NamesOf DEF ValuesInv
<1>4. k \in 1..opened
  <2>1. opened = Len(command.outputs)
    BY <1>1, <1>3 DEF WritesFile, PlaceInv, CountsInv
  <2> QED BY <1>1, <1>3, <2>1 DEF WritesFile, CountsInv, Final
<1>5. name \in DOMAIN files /\ a \in Seq(Symbol) /\ g \in Seq(Symbol) /\ files[name] = a \o g
  BY <1>1, <1>4, GotType
<1>6. n \in Nat /\ offset + n <= Len(writing) /\ d \in Seq(Symbol) /\ Len(d) = n
  <2>1. offset \in Nat /\ writing \in Seq(Symbol) /\ Len(writing) \in Nat
    BY <1>1, LenProperties DEF ValuesInv, CountsInv
  <2>2. n \in Nat /\ offset + n <= Len(writing)
    BY <2>1
  <2> QED BY <2>1, <2>2, PartType
<1>7. AtStart(k)' = a /\ OutputName(k)' = name
  BY <1>2 DEF AtStart, Kept, OutputName
<1>8. name \in DOMAIN files' /\ files'[name] = (a \o g) \o d
  <2>1. IsFunction(files)
    BY <1>1 DEF FilesInv, FilesHold, IsFunction
  <2>2. files' = WithGrown(files, name, d)
    OBVIOUS
  <2> DEFINE h == WithGrown(files, name, d)
  <2>3. DOMAIN h = DOMAIN files /\ (name \in DOMAIN files => h[name] = files[name] \o d)
    <3> HIDE DEF name, d
    <3> QED BY <2>1, GrownFiles
  <2>4. files' = h
    BY <2>2
  <2> HIDE DEF h, name, d, a, g
  <2> QED BY <1>5, <2>3, <2>4
<1>9. files'[name] = a \o (g \o d)
  <2> HIDE DEF a, g, d
  <2>1. SameJoin(a, g, d)
    BY <1>5, <1>6, JoinThree
  <2> QED BY <1>8, <2>1 DEF SameJoin
<1>10. GotFile(k)' = g \o d
  <2> DEFINE e == g \o d
  <2>1. GotFile(k)' = SubSeq(a \o e, Len(a) + 1, Len(a \o e))
    BY <1>7, <1>9 DEF GotFile
  <2>2. e \in Seq(Symbol)
    BY <1>5, <1>6, ConcatProperties
  <2> HIDE DEF a, e
  <2>3. SubSeq(a \o e, Len(a) + 1, Len(a \o e)) = e
    BY <1>5, <2>2, RestOfConcat
  <2> QED BY <2>1, <2>3 DEF e
<1> QED BY <1>2, <1>4, <1>5, <1>6, <1>7, <1>8, <1>9, <1>10

\* What tee's files hold.
LEMMA FilesStay ==
  ASSUME PipelineInv, Steps
  PROVE  FilesInv'
<1>1. ValuesInv /\ CountsInv /\ FilesInv /\ Len(command.outputs) \in Nat
  BY NamesOf DEF PipelineInv, ValuesInv
<1>2. UNCHANGED <<command, before, target>>
  BY DEF Steps, FilterMoves, SpongeMoves, filterVars
<1>3. FilesHold(Symbol)'
  BY FilterFiles, SpongeFiles DEF Steps
<1>4. SUFFICES ASSUME NEW i \in 1..Len(command.outputs)
               PROVE  IF i > opened' THEN Untouched(OutputName(i))'
                      ELSE /\ OutputName(i) \in DOMAIN files'
                           /\ files'[OutputName(i)] = AtStart(i)' \o GotFile(i)'
  BY <1>2, <1>3 DEF FilesInv, OutputName
<1>0. opened' = opened \/ (FilterMoves /\ OpensFile /\ opened' = opened + 1)
  BY DEF Steps, FilterMoves, SpongeMoves, filterVars, OpensFile, Ends, OpensInput,
        SkipsInput, Reads, DropsPart, LeavesInput, UsesLine, UsesBlock, WritesFile, WritesStdout
<1>5. CASE i > opened'
  <2>1. i > opened
    BY <1>0, <1>1, <1>5 DEF CountsInv
  <2>2. Untouched(OutputName(i))
    BY <1>1, <2>1 DEF FilesInv
  <2>3. \A j \in 1..Len(command.outputs) : j # i => OutputName(i) # OutputName(j)
    BY <1>1, NamesOf DEF ValuesInv, OutputName
  <2>4. OutputName(i) # target.name
    BY <1>1, NamesOf DEF ValuesInv, OutputName
  <2>5. Same(OutputName(i))
    <3>1. CASE SpongeMoves
      BY <2>4, <3>1, SpongeFiles
    <3>2. CASE FilterMoves /\ OpensFile
      <4> DEFINE j == opened + 1
                 name == OutputName(j)
                 a == command.append
      <4>1. j \in 1..Len(command.outputs) /\ j # i
        BY <1>1, <1>5, <3>2 DEF OpensFile, CountsInv
      <4>2. files' = WithOpened(files, name, a)
        BY <3>2 DEF OpensFile, OutputName
      <4>3. OutputName(i) # name
        BY <2>3, <4>1
      <4> HIDE DEF j, name, a
      <4> QED BY <4>2, <4>3, OpenedFiles DEF Same
    <3>3. CASE FilterMoves /\ WritesFile
      <4> DEFINE name == OutputName(next)
      <4>1. next \in 1..Len(command.outputs) /\ next # i
        <5>1. opened = Len(command.outputs)
          BY <1>1, <3>3 DEF PipelineInv, PlaceInv, WritesFile, CountsInv
        <5> QED BY <1>1, <2>1, <5>1
      <4>2. OutputName(i) # name
        BY <2>3, <4>1
      <4>3. PICK n : files' = WithGrown(files, name, SubSeq(writing, offset + 1, offset + n))
        BY <3>3 DEF WritesFile, OutputName
      <4>4. IsFunction(files)
        BY <1>1 DEF FilesInv, FilesHold, IsFunction
      <4> HIDE DEF name
      <4> QED BY <4>2, <4>3, <4>4, GrownFiles DEF Same
    <3>4. CASE FilterMoves /\ ~OpensFile /\ ~WritesFile
      <4>1. UNCHANGED files
        BY <3>4 DEF FilterMoves, Ends, OpensInput, SkipsInput, Reads, DropsPart, LeavesInput,
                    UsesLine, UsesBlock, WritesStdout
      <4> QED BY <4>1 DEF Same
    <3> QED BY <3>1, <3>2, <3>3, <3>4 DEF Steps
  <2>6. OutputName(i)' = OutputName(i)
    BY <1>2 DEF OutputName
  <2>7. Untouched(OutputName(i))'
    BY <1>2, <2>2, <2>5, <2>6 DEF Same, Untouched
  <2> QED BY <1>5, <2>7
<1>6. CASE i \in 1..opened /\ ~(FilterMoves /\ WritesFile /\ i = next)
  <2>1. /\ OutputName(i) \in DOMAIN files' /\ GotFile(i)' = GotFile(i)
        /\ files'[OutputName(i)] = AtStart(i) \o GotFile(i) /\ AtStart(i)' = AtStart(i)
    BY <1>6, GotStays
  <2> QED BY <1>5, <2>1
<1>7. CASE FilterMoves /\ WritesFile /\ i = next
  <2>1. PICK n \in 1..(Len(writing) - offset) :
          files' = WithGrown(files, OutputName(i), SubSeq(writing, offset + 1, offset + n))
    BY <1>7 DEF WritesFile, OutputName
  <2>0. i \in Nat /\ i = next
    BY <1>1, <1>7
  <2>2. /\ OutputName(i) \in DOMAIN files' /\ AtStart(i)' = AtStart(i)
        /\ files'[OutputName(i)] = AtStart(i) \o GotFile(i)'
    BY <1>1, <1>7, <2>0, <2>1, GotGrows
  <2> QED BY <1>5, <2>2
<1>8. CASE FilterMoves /\ OpensFile /\ i = opened + 1
  <2>1. /\ OutputName(i) \in DOMAIN files' /\ GotFile(i)' = <<>>
        /\ files'[OutputName(i)] = AtStart(i) /\ AtStart(i)' = AtStart(i) /\ AtStart(i) \in Seq(Symbol)
    BY <1>1, <1>8, GotStarts
  <2>2. AtStart(i) \o <<>> = AtStart(i)
    BY <2>1, ConcatEmptySeq
  <2> QED BY <1>5, <2>1, <2>2
<1>9. i > opened' \/ i \in 1..opened \/ (FilterMoves /\ OpensFile /\ i = opened + 1)
  <2>1. opened \in Nat /\ i \in Nat
    BY <1>1 DEF CountsInv
  <2> QED BY <1>0, <1>4, <2>1
<1> QED BY <1>5, <1>6, <1>7, <1>8, <1>9

\* Where the filter is.
LEMMA PlaceStays ==
  ASSUME PipelineInv, Steps
  PROVE  PlaceInv'
<1> USE DEF PlaceInv
<1>1. ValuesInv /\ CountsInv /\ PlaceInv /\ Len(command.outputs) \in Nat /\ Len(command.inputs) \in Nat
  BY NamesOf DEF PipelineInv, ValuesInv
<1>2. DOMAIN files \subseteq DOMAIN files'
  BY FilterFiles, SpongeFiles DEF Steps
<1>3. CASE FilterMoves
  <2>1. UNCHANGED <<command, buffer>>
    BY <1>3 DEF FilterMoves
  <2>2. CASE OpensFile
    <3>1. Sent' = Sent /\ taken' = taken
      BY <2>1, <2>2 DEF OpensFile, Sent
    <3> QED BY <1>1, <2>1, <2>2, <3>1 DEF OpensFile, outputVars, Final, InputName
  <2>3. CASE Ends
    <3>1. opened < Len(command.outputs) => Sent' = <<>>
      <4>1. SUFFICES ASSUME opened < Len(command.outputs) PROVE Sent' = <<>>
        OBVIOUS
      <4>2. held = <<>> /\ Sent = <<>> /\ pipe \in Seq(Symbol)
        BY <1>1, <4>1 DEF ValuesInv
      <4>3. pipe' = pipe
        BY <2>3, <4>2, ConcatEmptySeq DEF Ends
      <4> QED BY <2>1, <4>2, <4>3 DEF Sent
    <3>2. stage' \in {"success", "failure"} /\ (stage' = "success" =>
             opened = Len(command.outputs) /\ input = Len(command.inputs))
          /\ held' = <<>> /\ UNCHANGED <<opened, input, taken, skipped>>
      BY <2>3 DEF Ends
    <3>3. opened < Len(command.outputs) => stage' # "success"
      BY <1>1, <3>2
    <3> QED BY <1>1, <2>1, <3>1, <3>2, <3>3
  <2>4. CASE OpensInput
    <3>1. Len(taken') = input'
      <4> DEFINE E == Seq(Byte)
                 x == <<>>
      <4>1. taken \in Seq(E) /\ x \in E
        BY <1>1, BytesAreSymbols DEF ValuesInv
      <4> HIDE DEF E, x
      <4>2. Len(Append(taken, x)) = Len(taken) + 1
        BY <4>1, AppendProperties
      <4> QED BY <1>1, <2>4, <4>2 DEF OpensInput, x
    <3>2. /\ stage' = "read" /\ opened' = Len(command.outputs) /\ UNCHANGED <<files, skipped>>
          /\ input' > 0 /\ InputName' \in DOMAIN files
      BY <1>1, <2>1, <2>4 DEF OpensInput, InputName, CountsInv
    <3> QED BY <1>1, <2>1, <3>1, <3>2
  <2>5. CASE SkipsInput
    <3>1. Len(taken') = input'
      <4> DEFINE E == Seq(Byte)
                 x == <<>>
      <4>1. taken \in Seq(E) /\ x \in E
        BY <1>1, BytesAreSymbols DEF ValuesInv
      <4> HIDE DEF E, x
      <4>2. Len(Append(taken, x)) = Len(taken) + 1
        BY <4>1, AppendProperties
      <4> QED BY <1>1, <2>5, <4>2 DEF SkipsInput, x
    <3>2. /\ stage' = "open" /\ opened' = Len(command.outputs)
          /\ command.program \in {"cat", "number"}
      BY <1>1, <2>1, <2>5 DEF SkipsInput
    <3> QED BY <1>1, <2>1, <3>1, <3>2
  <2>6. CASE Reads \/ DropsPart
    <3>1. Len(taken') = input /\ input' = input /\ stage = "read"
      <4>1. Len(taken) = input /\ (\E x : taken' = [taken EXCEPT ![input] = x])
        BY <1>1, <2>6 DEF Reads, DropsPart
      <4>2. taken \in Seq(Seq(Byte))
        BY <1>1 DEF ValuesInv
      <4>3. taken' \in Seq(Seq(Byte)) /\ DOMAIN taken' = DOMAIN taken
        <5>1. ValuesInv'
          BY ValuesStep
        <5> QED BY <4>1, <5>1 DEF ValuesInv
      <4>4. DOMAIN taken = 1..Len(taken) /\ DOMAIN taken' = 1..Len(taken') 
            /\ Len(taken) \in Nat /\ Len(taken') \in Nat
        BY <4>2, <4>3, LenProperties
      <4>5. Len(taken') = Len(taken)
        BY <4>3, <4>4
      <4> QED BY <2>6, <4>1, <4>5 DEF Reads, DropsPart
    <3>2. /\ UNCHANGED <<files, stage, opened>> /\ opened = Len(command.outputs)
          /\ skipped' => skipped \/ command.program \in {"number", "cut"}
      <4>1. UNCHANGED <<files, stage, opened>>
        BY <2>6 DEF Reads, DropsPart
      <4>2. opened = Len(command.outputs)
        BY <1>1, <3>1 DEF CountsInv
      <4>3. skipped' => skipped \/ command.program \in {"number", "cut"}
        BY <2>6 DEF Reads, DropsPart, LineWise
      <4> QED BY <4>1, <4>2, <4>3
    <3> QED BY <1>1, <2>1, <3>1, <3>2 DEF InputName
  <2>7. CASE LeavesInput
    <3>1. /\ stage' = "open" /\ opened' = Len(command.outputs) /\ UNCHANGED <<taken, input>>
          /\ skipped' => skipped \/ command.program \in {"cat", "number"}
      BY <1>1, <2>7 DEF LeavesInput, CountsInv
    <3> QED BY <1>1, <2>1, <3>1
  <2>8. CASE UsesLine
    <3>1. /\ opened' = Len(command.outputs) /\ UNCHANGED <<taken, input, files>>
          /\ stage = "read" /\ stage' \in {"read", "write"} /\ (stage' = "write" => next' = 1 /\ offset' = 0)
          /\ LineWise(command) /\ command.program \in {"number", "cut"}
      BY <1>1, <2>8 DEF UsesLine, CountsInv, LineWise
    <3>2. Len(command.outputs) = 0
      BY <1>1, <3>1, NamesOf DEF ValuesInv
    <3>3. Final = 1 /\ Final' = 1
      BY <2>1, <3>2 DEF Final
    <3> QED BY <1>1, <2>1, <3>1, <3>3 DEF InputName
  <2>9. CASE UsesBlock
    <3>1. /\ opened' = Len(command.outputs) /\ UNCHANGED <<taken, input, files, skipped>>
          /\ stage = "read" /\ stage' = "write" /\ next' = 1 /\ offset' = 0
      BY <1>1, <2>9 DEF UsesBlock, CountsInv
    <3>2. 0 < Len(writing')
      <4>1. writing' = buffered /\ buffered # <<>> /\ buffered \in Seq(Byte)
        BY <1>1, <2>9 DEF UsesBlock, ValuesInv
      <4> QED BY <4>1, EmptySeq, LenProperties
    <3> QED BY <1>1, <2>1, <3>1, <3>2 DEF InputName
  <2>10. CASE WritesFile
    <3>1. /\ opened' = Len(command.outputs) /\ UNCHANGED <<taken, input, skipped, writing>>
          /\ stage = "write" /\ stage' = "write" /\ Final' = Final
      BY <1>1, <2>1, <2>10 DEF WritesFile, CountsInv, Final
    <3>2. IF next' = Final THEN offset' = 0 ELSE offset' < Len(writing)
      <4>1. PICK n \in 1..(Len(writing) - offset) :
              \/ offset + n = Len(writing) /\ next' = next + 1 /\ offset' = 0
              \/ offset + n # Len(writing) /\ offset' = offset + n /\ UNCHANGED next
        BY <2>10 DEF WritesFile
      <4>2. offset \in Nat /\ Len(writing) \in Nat /\ next < Final /\ next \in Nat
        BY <1>1, <2>10, LenProperties DEF CountsInv, ValuesInv, WritesFile
      <4>3. offset < Len(writing)
        BY <1>1, <3>1, <4>2
      <4> QED BY <1>1, <4>1, <4>2, <4>3 DEF Final
    <3>3. InputName' \in DOMAIN files'
      BY <1>1, <1>2, <2>1, <3>1 DEF InputName
    <3> QED BY <1>1, <2>1, <3>1, <3>2, <3>3
  <2>11. CASE WritesStdout
    <3>1. /\ opened' = Len(command.outputs) /\ UNCHANGED <<taken, input, files, skipped>>
          /\ stage = "write" /\ stage' = "read"
      BY <1>1, <2>11 DEF WritesStdout, CountsInv
    <3> QED BY <1>1, <2>1, <3>1 DEF InputName
  <2> QED BY <1>3, <2>2, <2>3, <2>4, <2>5, <2>6, <2>7, <2>8, <2>9, <2>10, <2>11 DEF FilterMoves
<1>4. CASE SpongeMoves
  <2>1. UNCHANGED <<command, stage, skipped, opened, input, taken, writing, offset, next, held>>
    BY <1>4 DEF SpongeMoves, filterVars
  <2>2. Sent = <<>> => Sent' = <<>>
    <3>1. CASE Takes
      <4>1. pipe' = <<>> /\ buffer' = Sent /\ Sent \in Seq(Symbol)
        BY <1>1, <3>1, ConcatProperties DEF Takes, Sent, ValuesInv
      <4> QED BY <4>1, ConcatEmptySeq DEF Sent
    <3>2. CASE ~Takes
      BY <1>4, <3>2 DEF SpongeMoves, OpensTarget, Changes, Writes, Shows, Sent
    <3> QED BY <3>1, <3>2
  <2>3. InputName' = InputName /\ Final' = Final
    BY <2>1 DEF InputName, Final
  <2> QED BY <1>1, <1>2, <2>1, <2>2, <2>3
<1> QED BY <1>3, <1>4 DEF Steps

-----------------------------------------------------------------------------
(* What has been read and used. *)

\* The last input, as it is read.
LEMMA ReadTypes ==
  ASSUME PipelineInv, stage \in {"read", "write"}
  PROVE  /\ ValuesInv /\ CountsInv /\ PlaceInv /\ ReadInv /\ ~Over
         /\ taken \in Seq(Seq(Byte)) /\ buffered \in Seq(Byte) /\ command \in Commands
         /\ taken # <<>> /\ Len(taken) = input /\ input \in 1..Len(taken) /\ input > 0
         /\ taken[input] \in Seq(Byte) /\ UsedNow \in Seq(Byte)
         /\ taken[input] = UsedNow \o buffered
<1>1. ValuesInv /\ CountsInv /\ PlaceInv /\ ReadInv /\ input > 0 /\ taken[input] = UsedNow \o buffered
  BY DEF PipelineInv, PlaceInv, ReadInv
<1>2. taken # <<>> /\ Len(taken) = input /\ input \in 1..Len(taken)
      /\ taken[input] \in Seq(Byte) /\ UsedNow \in Seq(Byte)
  BY <1>1, LastTaken
<1> QED BY <1>1, <1>2 DEF ValuesInv, Over

\* Reading adds to what has not been used.
LEMMA ReadsMore ==
  ASSUME PipelineInv, FilterMoves, Reads
  PROVE  /\ UsedNow' = UsedNow /\ taken'[input] = UsedNow \o buffered' /\ Due' = Due
         /\ LineWise(command) => EndsLine(UsedNow)
<1>1. stage = "read" /\ UNCHANGED <<input, command>>
  BY DEF FilterMoves, Reads
<1>2. /\ ValuesInv /\ CountsInv /\ PlaceInv /\ ReadInv
      /\ taken \in Seq(Seq(Byte)) /\ buffered \in Seq(Byte) /\ command \in Commands
      /\ taken # <<>> /\ Len(taken) = input /\ input \in 1..Len(taken)
      /\ taken[input] \in Seq(Byte) /\ UsedNow \in Seq(Byte)
      /\ taken[input] = UsedNow \o buffered
  BY <1>1, ReadTypes
<1>3. PICK n \in Nat \ {0} :
        /\ position + n <= Len(files[InputName])
        /\ LET data == SubSeq(files[InputName], position + 1, position + n)
           IN  buffered' = buffered \o data /\ taken' = [taken EXCEPT ![input] = @ \o data]
  BY DEF Reads
<1> DEFINE data == SubSeq(files[InputName], position + 1, position + n)
           u == UsedNow
           b == buffered
           y == taken[input] \o data
<1>4. data \in Seq(Byte)
  BY <1>1, <1>2, <1>3, DataType DEF PipelineInv
<1>5. buffered' = b \o data /\ taken' = [taken EXCEPT ![input] = y]
  BY <1>3
<1>6. taken'[input] = y
  <2> HIDE DEF y
  <2>1. DOMAIN taken = 1..Len(taken)
    BY <1>2, LenProperties
  <2> QED BY <1>2, <1>5, <2>1
<1>7. u \in Seq(Byte) /\ b \in Seq(Byte) /\ taken[input] = u \o b
  BY <1>2
<1> HIDE DEF data
<1>8. y = u \o (b \o data) /\ b \o data \in Seq(Byte) /\ y \in Seq(Byte)
  <2> HIDE DEF u, b
  <2>1. SameJoin(u, b, data)
    BY <1>4, <1>7, JoinThree
  <2>2. b \o data \in Seq(Byte) /\ u \o b \in Seq(Byte)
    BY <1>4, <1>7, ConcatProperties
  <2> QED BY <1>4, <1>7, <2>1, <2>2, ConcatProperties DEF SameJoin
<1>9. UsedPart(y, b \o data) = u
  <2> DEFINE e == b \o data
  <2> HIDE DEF u, e
  <2>1. UsedPart(u \o e, e) = u
    BY <1>7, <1>8, UsedOfConcat DEF e
  <2> QED BY <1>8, <2>1 DEF e
<1>10. UsedNow' = u
  <2>1. UsedNow' = UsedPart(taken'[input], buffered')
    BY <1>1 DEF UsedNow
  <2> HIDE DEF u, b, y
  <2> QED BY <1>5, <1>6, <1>9, <2>1
<1>11. Due' = Due
  <2>1. UsedPart(taken[Len(taken)], buffered) = u
    BY <1>2 DEF UsedNow
  <2> DEFINE e == b \o data
  <2>2. Due' = DoneOf(command, taken', e) /\ LastReplaced(taken', taken, y)
    <3> HIDE DEF y
    <3> QED BY <1>1, <1>2, <1>5 DEF Due, LastReplaced
  <2>3. e \in Seq(Byte) /\ y \in Seq(Byte) /\ UsedPart(y, e) = UsedPart(taken[Len(taken)], buffered)
    BY <1>8, <1>9, <2>1
  <2>4. taken \in Seq(Seq(Byte)) /\ buffered \in Seq(Byte) /\ command \in Commands /\ taken # <<>>
    BY <1>2
  <2> HIDE DEF e, y
  <2>5. DoneOf(command, taken', e) = DoneOf(command, taken, buffered)
    BY <2>2, <2>3, <2>4, DoneSame
  <2> QED BY <2>2, <2>5 DEF Due
<1>12. LineWise(command) => EndsLine(UsedNow)
  <2>1. position \in Nat /\ Len(files[InputName]) \in Nat
    <3>1. files[InputName] \in Seq(Byte)
      BY <1>1, <1>2, <1>3, DataType DEF PipelineInv
    <3> QED BY <1>2, <3>1, LenProperties DEF CountsInv
  <2>2. ~(position >= Len(files[InputName]))
    BY <1>3, <2>1
  <2> QED BY <1>1, <1>2, <2>2 DEF ReadInv
<1> QED BY <1>5, <1>6, <1>8, <1>10, <1>11, <1>12

\* The part of a line that is dropped had not been used.
LEMMA DropsUnused ==
  ASSUME PipelineInv, FilterMoves, DropsPart
  PROVE  /\ UsedNow' = UsedNow /\ taken'[input] = UsedNow \o buffered' /\ Due' = Due
         /\ buffered' = <<>>
<1>1. stage = "read" /\ UNCHANGED <<input, command>> /\ buffered' = <<>>
      /\ taken' = [taken EXCEPT ![input] = UsedNow]
  BY DEF FilterMoves, DropsPart, UsedNow
<1>2. /\ taken \in Seq(Seq(Byte)) /\ buffered \in Seq(Byte) /\ command \in Commands
      /\ taken # <<>> /\ Len(taken) = input /\ input \in 1..Len(taken)
      /\ taken[input] \in Seq(Byte) /\ UsedNow \in Seq(Byte)
  BY <1>1, ReadTypes
<1> DEFINE u == UsedNow
<1>3. taken'[input] = u
  <2>1. DOMAIN taken = 1..Len(taken)
    BY <1>2, LenProperties
  <2> HIDE DEF u
  <2>2. taken' = [taken EXCEPT ![input] = u]
    BY <1>1 DEF u
  <2> QED BY <1>2, <2>1, <2>2
<1>4. UsedPart(u, <<>>) = u /\ u \o <<>> = u
  BY <1>2, UsedOfNothing, ConcatEmptySeq
<1>5. UsedNow' = u
  <2>1. UsedNow' = UsedPart(taken'[input], buffered')
    BY <1>1 DEF UsedNow
  <2> HIDE DEF u
  <2> QED BY <1>1, <1>3, <1>4, <2>1
<1>6. Due' = Due
  <2>1. UsedPart(taken[Len(taken)], buffered) = u
    BY <1>2 DEF UsedNow
  <2>2. Due' = DoneOf(command, taken', <<>>) /\ LastReplaced(taken', taken, u)
    BY <1>1, <1>2 DEF Due, LastReplaced
  <2> DEFINE e == <<>>
  <2>3. e \in Seq(Byte) /\ u \in Seq(Byte) /\ UsedPart(u, e) = UsedPart(taken[Len(taken)], buffered)
    BY <1>2, <1>4, <2>1, BytesAreSymbols
  <2>4. Due' = DoneOf(command, taken', e) /\ LastReplaced(taken', taken, u)
    BY <2>2
  <2> HIDE DEF e, u
  <2> QED BY <1>2, <2>3, <2>4, DoneSame DEF Due
<1> QED BY <1>1, <1>3, <1>4, <1>5, <1>6

\* A line that is used.
LEMMA LineUsed ==
  ASSUME PipelineInv, FilterMoves, UsesLine
  PROVE  /\ UsedNow' \in Seq(Byte) /\ taken'[input] = UsedNow' \o buffered' /\ input' = input
         /\ EndsLine(UsedNow') \/ (position >= Len(files[InputName]) /\ buffered' = <<>>)
         /\ lines' = Len(Filter!LinesOf(UsedNow'))
         /\ \/ UNCHANGED <<stage, outputVars>> /\ Due' = Due
            \/ stage' = "write" /\ next' = 1 /\ offset' = 0 /\ Due' = Due \o writing'
<1>1. stage = "read" /\ UNCHANGED <<input, command, taken, position, files>> /\ LineWise(command)
  BY DEF FilterMoves, UsesLine
<1>2. /\ ValuesInv /\ CountsInv /\ PlaceInv /\ ReadInv
      /\ taken \in Seq(Seq(Byte)) /\ buffered \in Seq(Byte) /\ command \in Commands
      /\ taken # <<>> /\ Len(taken) = input /\ input \in 1..Len(taken)
      /\ taken[input] \in Seq(Byte) /\ UsedNow \in Seq(Byte)
      /\ taken[input] = UsedNow \o buffered
  BY <1>1, ReadTypes
<1>3. PICK l, r \in Seq(Byte) :
        /\ l # <<>> /\ FirstCut(l) = Len(l) /\ buffered = l \o r /\ buffered' = r
        /\ EndsLine(l) \/ (r = <<>> /\ position >= Len(files[InputName]))
        /\ \/ Contains(Filter!LineIn(l), "bad") /\ UNCHANGED <<stage, outputVars, lines>>
           \/ /\ ~Contains(Filter!LineIn(l), "bad")
              /\ writing' = MadeOf(command, lines + 1, Filter!LineIn(l)) /\ lines' = lines + 1
              /\ stage' = "write" /\ next' = 1 /\ offset' = 0
  BY DEF UsesLine
<1> DEFINE u == UsedNow
           v == u \o l
           line == Filter!LineIn(l)
<1>4. u \in Seq(Byte) /\ EndsLine(u) /\ lines = Len(Filter!LinesOf(u))
  <2>1. l \o r # <<>>
    <3>1. Len(l \o r) = Len(l) + Len(r) /\ Len(l) \in Nat /\ Len(r) \in Nat /\ Len(l) # 0
      BY <1>3, ConcatProperties, LenProperties, EmptySeq
    <3>2. Len(l \o r) # 0
      BY <3>1
    <3> QED BY <3>2, EmptySeq
  <2> QED BY <1>1, <1>2, <1>3, <2>1 DEF ReadInv
<1> HIDE DEF u, line
<1>5. taken[input] = u \o (l \o r) /\ u \o (l \o r) = v \o r /\ v \in Seq(Byte)
  <2>1. taken[input] = u \o (l \o r)
    BY <1>2, <1>3 DEF u
  <2>2. SameJoin(u, l, r)
    BY <1>4, JoinThree
  <2> QED BY <1>4, <2>1, <2>2, ConcatProperties DEF SameJoin
<1>6. UsedNow' = v
  <2>1. UsedNow' = UsedPart(taken[input], r)
    BY <1>1, <1>3 DEF UsedNow
  <2> HIDE DEF v
  <2>2. UsedPart(v \o r, r) = v
    BY <1>5, UsedOfConcat
  <2> QED BY <1>5, <2>1, <2>2
<1>7. EndsLine(v) \/ (position >= Len(files[InputName]) /\ r = <<>>)
  BY <1>3, <1>4, EndsLineConcat
<1>8. /\ line \in Seq(Byte) /\ lines \in Nat
      /\ Contains(line, "bad") =>
           /\ ReferenceOf(command, v) = ReferenceOf(command, u)
           /\ Filter!LinesOf(v) = Filter!LinesOf(u)
      /\ ~ Contains(line, "bad") =>
           /\ ReferenceOf(command, v) = ReferenceOf(command, u) \o MadeOf(command, lines + 1, line)
           /\ Len(Filter!LinesOf(v)) = lines + 1
  BY <1>1, <1>2, <1>3, <1>4, ReferenceOfLine DEF line
<1> HIDE DEF v
<1>9. Due = DoneOf(command, taken, buffered) /\ Due' = DoneOf(command, taken, r)
  BY <1>1, <1>3 DEF Due
<1>10. IsJoin(taken[Len(taken)], u, buffered) /\ IsJoin(buffered, l, r) /\ IsJoin(v, u, l)
  <2>1. taken[Len(taken)] = u \o buffered /\ buffered = l \o r
    BY <1>2, <1>3, <1>5
  <2> QED BY <2>1 DEF IsJoin, v
<1>11. CASE Contains(line, "bad")
  <2> DEFINE x == <<>>
  <2>1. x \in Seq(Symbol) /\ Due \in Seq(Symbol)
    BY <1>2, BytesAreSymbols, DoneType DEF Due
  <2>2. ReferenceOf(command, u \o l) = ReferenceOf(command, u) \o x
    <3>1. ReferenceOf(command, u) \in Seq(Symbol)
      BY <1>2, <1>4, ReferenceType
    <3> QED BY <1>8, <1>11, <3>1, ConcatEmptySeq DEF v
  <2> HIDE DEF x
  <2>3. IsJoin(ReferenceOf(command, v), ReferenceOf(command, u), x)
    BY <2>2 DEF IsJoin, v
  <2>6. IsJoin(Due', Due, x)
    BY <1>2, <1>3, <1>4, <1>9, <1>10, <2>1, <2>3, DoneGrows
  <2>4. Due' = Due
    BY <2>1, <2>6, ConcatEmptySeq DEF x, IsJoin
  <2>5. lines' = lines /\ UNCHANGED <<stage, outputVars>>
    BY <1>3, <1>11 DEF line
  <2> QED BY <1>1, <1>3, <1>4, <1>5, <1>6, <1>7, <1>8, <1>11, <2>4, <2>5
<1>12. CASE ~Contains(line, "bad")
  <2> DEFINE x == MadeOf(command, lines + 1, line)
  <2>1. x \in Seq(Symbol)
    BY <1>2, <1>8, MadeType
  <2>2. IsJoin(ReferenceOf(command, v), ReferenceOf(command, u), x)
    BY <1>8, <1>12 DEF IsJoin
  <2>3. writing' = x /\ lines' = lines + 1 /\ stage' = "write" /\ next' = 1 /\ offset' = 0
    BY <1>3, <1>12 DEF line
  <2> HIDE DEF x
  <2>4. IsJoin(Due', Due, x)
    BY <1>2, <1>3, <1>4, <1>9, <1>10, <2>1, <2>2, DoneGrows
  <2>5. Due' = Due \o writing'
    BY <2>3, <2>4 DEF IsJoin
  <2> QED BY <1>1, <1>3, <1>4, <1>5, <1>6, <1>7, <1>8, <1>12, <2>3, <2>5
<1> QED BY <1>11, <1>12

\* A block that is used.
LEMMA BlockUsed ==
  ASSUME PipelineInv, FilterMoves, UsesBlock
  PROVE  /\ UsedNow' = taken[input] /\ UsedNow' \o buffered' = taken[input]
         /\ Due' = Due \o writing' /\ UNCHANGED <<input, taken>> /\ buffered' = <<>>
<1>1. /\ stage = "read" /\ UNCHANGED <<input, command, taken>> /\ ~LineWise(command)
      /\ writing' = buffered /\ buffered' = <<>>
  BY DEF FilterMoves, UsesBlock
<1>2. /\ taken \in Seq(Seq(Byte)) /\ buffered \in Seq(Byte) /\ command \in Commands
      /\ taken # <<>> /\ Len(taken) = input /\ input \in 1..Len(taken)
      /\ taken[input] \in Seq(Byte) /\ UsedNow \in Seq(Byte)
      /\ taken[input] = UsedNow \o buffered
  BY <1>1, ReadTypes
<1>3. UsedNow' = taken[input] /\ taken[input] \o <<>> = taken[input]
  <2>1. UsedPart(taken[input], <<>>) = taken[input]
    BY <1>2, UsedOfNothing
  <2> QED BY <1>1, <1>2, <2>1, ConcatEmptySeq DEF UsedNow
<1>4. Due' = Due \o buffered
  <2> DEFINE u == UsedNow
             l == buffered
             r == <<>>
             t == taken
  <2>1. u \in Seq(Byte) /\ l \in Seq(Byte) /\ r \in Seq(Byte) /\ l \in Seq(Symbol) /\ l \o r = l
    BY <1>2, BytesAreSymbols, ConcatEmptySeq
  <2> DEFINE v == u \o l
  <2>2. IsJoin(t[Len(t)], u, l) /\ IsJoin(l, l, r) /\ IsJoin(v, u, l)
    BY <1>2, <2>1 DEF IsJoin
  <2>3. IsJoin(ReferenceOf(command, v), ReferenceOf(command, u), l)
    BY <1>1 DEF ReferenceOf, IsJoin
  <2>4. Due = DoneOf(command, t, l) /\ Due' = DoneOf(command, t, r)
    BY <1>1 DEF Due
  <2>5. t \in Seq(Seq(Byte)) /\ t # <<>>
    BY <1>2
  <2> HIDE DEF u, l, r, t, v
  <2>6. IsJoin(DoneOf(command, t, r), DoneOf(command, t, l), l)
    BY <1>2, <2>1, <2>2, <2>3, <2>5, DoneGrows
  <2> QED BY <2>4, <2>6 DEF l, IsJoin
<1> QED BY <1>1, <1>3, <1>4

\* The next input.
LEMMA NextDue ==
  ASSUME PipelineInv, FilterMoves, OpensInput \/ SkipsInput
  PROVE  /\ \E x \in Seq(Symbol) : Due' = Due \o x
         /\ buffered = <<>> => Due' = Due
<1>1. command' = command /\ taken' = Append(taken, <<>>) /\ buffered' \in Seq(Byte)
  <2>1. ValuesInv'
    BY ValuesStep DEF Steps
  <2> QED BY <2>1 DEF FilterMoves, OpensInput, SkipsInput, ValuesInv
<1>2. /\ ValuesInv /\ CountsInv /\ PlaceInv /\ ReadInv
      /\ taken \in Seq(Seq(Byte)) /\ buffered \in Seq(Byte) /\ command \in Commands
      /\ Len(taken) = input /\ input \in Nat
  BY DEF PipelineInv, ValuesInv, PlaceInv, CountsInv
<1> DEFINE b == buffered
           d == buffered'
           t == taken
<1>3. t = <<>> \/ t[Len(t)] = <<>> \/ t[Len(t)] = UsedPart(t[Len(t)], b) \o b
  <2>1. CASE input = 0
    BY <1>2, <2>1, EmptySeq
  <2>2. CASE input > 0
    BY <1>2, <2>2 DEF ReadInv, UsedNow
  <2> QED BY <1>2, <2>1, <2>2
<1>4. t # <<>> /\ LineWise(command) => EndsLine(UsedPart(t[Len(t)], b)) \/ b = <<>>
  <2>1. t # <<>> => input > 0
    BY <1>2, EmptySeq
  <2> QED BY <1>2, <2>1 DEF ReadInv, UsedNow
<1>5. t \in Seq(Seq(Byte)) /\ b \in Seq(Byte) /\ d \in Seq(Byte)
  BY <1>1, <1>2
<1>6. Due' = DoneOf(command, Append(t, <<>>), d) /\ Due = DoneOf(command, t, b)
  BY <1>1 DEF Due
<1>7. \E x \in Seq(Symbol) :
        /\ DoneOf(command, Append(t, <<>>), d) = DoneOf(command, t, b) \o x
        /\ b = <<>> => x = <<>>
  <2> HIDE DEF b, d, t
  <2> QED BY <1>2, <1>3, <1>4, <1>5, DoneNext
<1>8. PICK x \in Seq(Symbol) : Due' = Due \o x /\ (b = <<>> => x = <<>>)
  BY <1>6, <1>7
<1>9. Due \in Seq(Symbol)
  BY <1>2, DoneType DEF Due
<1> QED BY <1>8, <1>9, ConcatEmptySeq

\* Nothing else is made.
LEMMA DueStays ==
  ASSUME PipelineInv,
         \/ SpongeMoves
         \/ FilterMoves /\ (OpensFile \/ Ends \/ LeavesInput \/ WritesFile \/ WritesStdout)
  PROVE  Due' = Due /\ (input > 0 => UsedNow' = UsedNow) /\ UNCHANGED <<command, taken, buffered, input>>
BY DEF SpongeMoves, filterVars, FilterMoves, OpensFile, Ends, LeavesInput, WritesFile, WritesStdout,
       Due, UsedNow

\* An error of a write that is passed over stays passed over, and what has ended is over.
LEMMA OnceOver ==
  ASSUME PipelineInv, Steps
  PROVE  /\ skipped => skipped'
         /\ InStep' => InStep
         /\ FilterMoves => (Alive' <=> Alive)
<1>1. CASE FilterMoves
  <2>1. main' = main /\ (skipped => skipped')
    BY <1>1 DEF FilterMoves, OpensFile, Ends, OpensInput, SkipsInput, Reads, DropsPart, LeavesInput,
                UsesLine, UsesBlock, WritesFile, WritesStdout
  <2> QED BY <2>1 DEF InStep, Alive
<1>2. CASE SpongeMoves
  <2>1. skipped' = skipped /\ (Alive' => Alive)
    BY <1>2 DEF SpongeMoves, filterVars, OpensTarget, Takes, Changes, Writes, Shows, Alive
  <2> QED BY <1>2, <2>1 DEF InStep, SpongeMoves, FilterMoves, Alive, filterVars
<1> QED BY <1>1, <1>2 DEF Steps

\* What the filter reads is not changed under it, unless sponge empties it.
LEMMA InputStays ==
  ASSUME PipelineInv, Steps, stage \in {"read", "write"}, input' = input
  PROVE  /\ InputName' = InputName /\ files[InputName] \in Seq(Byte)
         /\ Len(files'[InputName]) <= Len(files[InputName])
         /\ FilterMoves => files'[InputName] = files[InputName]
<1>1. /\ ValuesInv /\ CountsInv /\ PlaceInv /\ SpongeInv /\ TargetInv /\ InputsInv /\ ~Over
      /\ before \in FileSystems
  BY DEF PipelineInv, Over, ValuesInv
<1>2. UNCHANGED <<command, target, before>>
  BY DEF Steps, FilterMoves, SpongeMoves, filterVars
<1>3. input \in 1..Len(command.inputs) /\ InputName \in DOMAIN files
  <2>1. Len(command.inputs) \in Nat
    BY <1>1, NamesOf DEF ValuesInv
  <2> QED BY <1>1, <2>1 DEF PlaceInv, CountsInv
<1>4. files[InputName] \in Seq(Byte)
  BY <1>1, <1>3, InputBytes DEF InputName
<1>5. InputName' = InputName
  BY <1>2 DEF InputName
<1> DEFINE name == InputName
<1>6. CASE Same(name)
  BY <1>3, <1>4, <1>5, <1>6, LenProperties DEF Same
<1>7. CASE FilterMoves
  <2>1. \A j \in 1..Len(command.outputs) : name # OutputName(j)
    BY <1>1, <1>3, NamesOf DEF ValuesInv, InputName, OutputName
  <2> HIDE DEF name
  <2>2. Same(name)
    BY <1>7, <2>1, FilterFiles
  <2> QED BY <1>6, <2>2 DEF name
<1>8. CASE SpongeMoves /\ ~FilterMoves
  <2>1. CASE UNCHANGED files
    BY <1>6, <2>1 DEF Same
  <2>2. CASE name # target.name
    <3> HIDE DEF name
    <3>1. Same(name)
      BY <1>8, <2>2, SpongeFiles
    <3> QED BY <1>6, <3>1 DEF name
  <2>3. CASE OpensTarget /\ target.name # "stdout" /\ name = target.name
    <3>1. files' = WithOpened(files, target.name, target.append)
      BY <2>3 DEF OpensTarget
    <3>2. files'[name] = Started(files, target.name, target.append)
      BY <2>3, <3>1, OpenedTarget
    <3>3. files'[name] \in {files[name], <<>>}
      BY <2>3, <3>2 DEF Started
    <3>4. Len(files[name]) \in Nat /\ Len(<<>>) = 0
      BY <1>4, LenProperties, EmptySeq
    <3> HIDE DEF name
    <3>5. Len(files'[name]) <= Len(files[name])
      BY <3>3, <3>4
    <3> QED BY <1>4, <1>5, <1>8, <3>5 DEF name
  <2>4. CASE Writes \/ Shows
    BY <1>1, <2>4 DEF Writes, Shows, SpongeInv
  <2> QED BY <1>8, <2>1, <2>2, <2>3, <2>4 DEF SpongeMoves, OpensTarget, Takes, Changes
<1> QED BY <1>7, <1>8 DEF Steps

\* What has been read is what has been used and what has not.
LEMMA ReadStays ==
  ASSUME PipelineInv, Steps
  PROVE  ReadInv'
<1>1. ValuesInv /\ CountsInv /\ PlaceInv /\ ReadInv /\ ValuesInv'
  BY ValuesStep DEF PipelineInv
<1>2. command' = command
  BY DEF Steps, FilterMoves, SpongeMoves, filterVars
<1>3. /\ skipped => skipped'
      /\ InStep' => InStep
  BY OnceOver
<1>4. CASE UNCHANGED <<taken, buffered, input, position, lines>>
           /\ (stage' \in {"read", "write"} => stage \in {"read", "write"})
           /\ (stage' = "open" /\ InStep' => buffered = <<>>)
           /\ (stage' = "success" /\ ~skipped' => buffered = <<>>)
  <2>1. UsedNow' = UsedNow
    BY <1>4 DEF UsedNow
  <2>2. stage' \in {"read", "write"} /\ position >= Len(files[InputName]) =>
          position >= Len(files'[InputName'])
    <3>1. SUFFICES ASSUME stage' \in {"read", "write"}, position >= Len(files[InputName])
                   PROVE  position >= Len(files'[InputName'])
      OBVIOUS
    <3>2. /\ InputName' = InputName /\ files[InputName] \in Seq(Byte)
          /\ Len(files'[InputName]) <= Len(files[InputName])
      BY <1>4, <3>1, InputStays
    <3>3. position \in Nat /\ Len(files[InputName]) \in Nat
      BY <1>1, <3>2, LenProperties DEF CountsInv
    <3>4. Len(files'[InputName]) \in Int
      <4>1. files'[InputName] \in Seq(Symbol)
        <5>1. FilesHold(Symbol)' /\ DOMAIN files \subseteq DOMAIN files'
          BY FilterFiles, SpongeFiles DEF Steps
        <5>2. InputName \in DOMAIN files
          BY <1>1, <1>4, <3>1 DEF PlaceInv
        <5> QED BY <5>1, <5>2 DEF FilesHold
      <4> QED BY <4>1, LenProperties
    <3> QED BY <3>1, <3>2, <3>3, <3>4
  <2> QED BY <1>1, <1>2, <1>4, <2>1, <2>2 DEF ReadInv
<1>5. CASE FilterMoves
  <2>1. CASE OpensFile
    BY <1>1, <1>3, <1>4, <2>1 DEF OpensFile, ReadInv
  <2>2. CASE Ends
    <3>1. stage' = "success" /\ ~skipped' => stage = "open" /\ InStep
      BY <2>2 DEF Ends, InStep
    <3>2. stage' \in {"success", "failure"}
          /\ UNCHANGED <<taken, buffered, input, position, lines>>
      BY <2>2 DEF Ends
    <3> QED BY <1>1, <1>4, <3>1, <3>2 DEF ReadInv
  <2>3. CASE OpensInput
    <3>1. /\ stage' = "read" /\ input' = input + 1 /\ position' = 0 /\ buffered' = <<>>
          /\ lines' = 0 /\ taken' = Append(taken, <<>>)
      BY <2>3 DEF OpensInput
    <3>2. taken'[input'] = <<>>
      <4> DEFINE E == Seq(Byte)
                 x == <<>>
      <4>1. taken \in Seq(E) /\ x \in E /\ Len(taken) = input
        BY <1>1, BytesAreSymbols DEF ValuesInv, PlaceInv
      <4> HIDE DEF E, x
      <4>2. Append(taken, x)[Len(taken) + 1] = x
        BY <4>1, AppendProperties
      <4> QED BY <3>1, <4>1, <4>2 DEF x
    <3>3. UsedNow' = <<>> /\ <<>> \o <<>> = <<>>
      <4>1. UsedPart(<<>>, <<>>) = <<>>
        BY BytesAreSymbols, UsedOfNothing
      <4> QED BY <3>1, <3>2, <4>1, ConcatEmptySeq, BytesAreSymbols DEF UsedNow
    <3>4. 0 = Len(Filter!LinesOf(<<>>))
      BY LinesDefined, EmptySeq
    <3>5. EndsLine(<<>>)
      BY DEF EndsLine
    <3> QED BY <3>1, <3>2, <3>3, <3>4, <3>5 DEF ReadInv
  <2>4. CASE SkipsInput
    <3>1. /\ stage' = "open" /\ stage = "open" /\ input' = input + 1 /\ buffered' = buffered
          /\ taken' = Append(taken, <<>>) /\ skipped' = TRUE
      BY <2>4 DEF SkipsInput
    <3>2. taken'[input'] = <<>>
      <4> DEFINE E == Seq(Byte)
                 x == <<>>
      <4>1. taken \in Seq(E) /\ x \in E /\ Len(taken) = input
        BY <1>1, BytesAreSymbols DEF ValuesInv, PlaceInv
      <4> HIDE DEF E, x
      <4>2. Append(taken, x)[Len(taken) + 1] = x
        BY <4>1, AppendProperties
      <4> QED BY <3>1, <4>1, <4>2 DEF x
    <3>3. UsedNow' = <<>> /\ EndsLine(<<>>)
      <4>1. UsedPart(<<>>, buffered) = <<>>
        BY <1>1, BytesAreSymbols, UsedOfNothing DEF ValuesInv
      <4> QED BY <3>1, <3>2, <4>1 DEF UsedNow, EndsLine
    <3>4. InStep' => buffered = <<>>
      BY <1>1, <1>3, <3>1 DEF ReadInv
    <3> QED BY <3>1, <3>2, <3>3, <3>4 DEF ReadInv
  <2>5. CASE Reads
    <3>1. /\ UsedNow' = UsedNow /\ taken'[input] = UsedNow \o buffered'
          /\ LineWise(command) => EndsLine(UsedNow)
      BY <1>5, <2>5, ReadsMore
    <3>2. UNCHANGED <<input, lines, stage>> /\ stage = "read"
      BY <2>5 DEF Reads
    <3> QED BY <1>1, <1>2, <3>1, <3>2 DEF ReadInv
  <2>6. CASE DropsPart
    <3>1. UsedNow' = UsedNow /\ taken'[input] = UsedNow \o buffered' /\ buffered' = <<>>
      BY <1>5, <2>6, DropsUnused
    <3>2. UNCHANGED <<input, lines, stage, position, files>> /\ stage = "read"
      BY <2>6 DEF DropsPart
    <3>3. InputName' = InputName
      BY <1>2, <3>2 DEF InputName
    <3> QED BY <1>1, <1>2, <3>1, <3>2, <3>3 DEF ReadInv
  <2>7. CASE LeavesInput
    <3>1. stage' = "open" /\ UNCHANGED <<taken, buffered, input, position, lines>>
      BY <2>7 DEF LeavesInput
    <3>2. InStep' => buffered = <<>>
      BY <1>5, <2>7, OnceOver DEF LeavesInput, InStep
    <3> QED BY <1>4, <3>1, <3>2
  <2>8. CASE UsesLine
    <3>1. /\ UsedNow' \in Seq(Byte) /\ taken'[input] = UsedNow' \o buffered' /\ input' = input
          /\ EndsLine(UsedNow') \/ (position >= Len(files[InputName]) /\ buffered' = <<>>)
          /\ lines' = Len(Filter!LinesOf(UsedNow'))
      BY <1>5, <2>8, LineUsed
    <3>2. /\ UNCHANGED <<position, files>> /\ stage = "read" /\ stage' \in {"read", "write"}
          /\ InputName' = InputName
      BY <1>2, <2>8 DEF UsesLine, InputName
    <3> QED BY <1>1, <1>2, <3>1, <3>2 DEF ReadInv
  <2>9. CASE UsesBlock
    <3>1. /\ UsedNow' = taken[input] /\ UsedNow' \o buffered' = taken[input]
          /\ UNCHANGED <<input, taken>> /\ buffered' = <<>>
      BY <1>5, <2>9, BlockUsed
    <3>2. ~LineWise(command) /\ stage' = "write"
      BY <2>9 DEF UsesBlock
    <3> QED BY <1>2, <3>1, <3>2 DEF ReadInv
  <2>10. CASE WritesFile
    BY <1>4, <2>10 DEF WritesFile
  <2>11. CASE WritesStdout
    BY <1>4, <2>11 DEF WritesStdout
  <2> QED BY <1>5, <2>1, <2>2, <2>3, <2>4, <2>5, <2>6, <2>7, <2>8, <2>9, <2>10, <2>11 DEF FilterMoves
<1>6. CASE SpongeMoves
  <2>1. UNCHANGED <<taken, buffered, input, position, lines, stage, skipped>>
    BY <1>6 DEF SpongeMoves, filterVars
  <2> QED BY <1>1, <1>3, <1>4, <2>1 DEF ReadInv
<1> QED BY <1>5, <1>6 DEF Steps

\* The inputs are read as they were.
LEMMA OriginalsStay ==
  ASSUME PipelineInv, Steps
  PROVE  InputInv'
<1>1. ValuesInv /\ CountsInv /\ PlaceInv /\ InputsInv /\ InputInv /\ before \in FileSystems
  BY DEF PipelineInv, ValuesInv
<1>2. UNCHANGED <<command, before, target>> /\ (Shared' <=> Shared)
  <2>1. UNCHANGED <<command, before, target>>
    BY DEF Steps, FilterMoves, SpongeMoves, filterVars
  <2> QED BY <2>1 DEF Shared
<1>3. ASSUME NEW i PROVE Original(i)' = Original(i)
  BY <1>2 DEF Original, Kept
<1>4. skipped => skipped'
  BY OnceOver
<1>5. Original(input) \in Seq(Byte)
  BY <1>1, KeptType DEF Original
<1>6. SUFFICES ASSUME ~skipped', stage' # "failure", Shared => target.append
               PROVE  /\ \A i \in 1..input' :
                           (stage' \in {"read", "write"} /\ i = input') \/ taken'[i] = Original(i)
                      /\ stage' \in {"read", "write"} =>
                           /\ position' <= Len(Original(input'))
                           /\ taken'[input'] = SubSeq(Original(input'), 1, position')
  <2>1. Original(input)' = Kept(command.inputs[input'], TRUE) /\ \A i : Original(i)' = Kept(command.inputs[i], TRUE)
    BY <1>2 DEF Original, Kept
  <2> QED BY <1>2, <2>1 DEF InputInv, Original
<1>7. skipped \in BOOLEAN /\ ~skipped
  BY <1>1, <1>4, <1>6 DEF CountsInv
<1>8. stage # "failure" =>
        /\ \A i \in 1..input : (stage \in {"read", "write"} /\ i = input) \/ taken[i] = Original(i)
        /\ stage \in {"read", "write"} =>
             position <= Len(Original(input)) /\ taken[input] = SubSeq(Original(input), 1, position)
  BY <1>6, <1>7, <1>1 DEF InputInv
<1>9. CASE /\ UNCHANGED <<taken, input, position>> /\ stage # "failure"
           /\ stage' \in {"read", "write"} <=> stage \in {"read", "write"}
  BY <1>8, <1>9
<1>10. CASE FilterMoves
  <2>1. CASE OpensFile
    BY <1>9, <2>1 DEF OpensFile
  <2>2. CASE Ends
    <3>1. stage = "open" /\ stage' = "success" /\ UNCHANGED <<taken, input, position>>
      BY <1>6, <2>2 DEF Ends
    <3> QED BY <1>9, <3>1
  <2>3. CASE OpensInput
    <3>1. /\ stage = "open" /\ stage' = "read" /\ input' = input + 1 /\ position' = 0
          /\ taken' = Append(taken, <<>>)
      BY <2>3 DEF OpensInput
    <3>2. /\ taken'[input + 1] = <<>> /\ \A i \in 1..input : taken'[i] = taken[i]
          /\ input \in Nat
      <4> DEFINE E == Seq(Byte)
                 x == <<>>
      <4>1. taken \in Seq(E) /\ x \in E /\ Len(taken) = input
        BY <1>1, BytesAreSymbols DEF ValuesInv, PlaceInv
      <4> HIDE DEF E, x
      <4>2. Append(taken, x)[Len(taken) + 1] = x
            /\ \A i \in 1..Len(taken) : Append(taken, x)[i] = taken[i]
        BY <4>1, AppendProperties
      <4> QED BY <1>1, <3>1, <4>1, <4>2 DEF x, CountsInv
    <3>3. Original(input + 1) \in Seq(Byte)
      BY <1>1, KeptType DEF Original
    <3>4. SubSeq(Original(input + 1), 1, 0) = <<>> /\ 0 <= Len(Original(input + 1))
      BY <3>3, SubSeqEmpty, LenProperties
    <3>5. \A i \in 1..(input + 1) : i = input + 1 \/ i \in 1..input
      BY <3>2
    <3> QED BY <1>8, <3>1, <3>2, <3>4, <3>5
  <2>4. CASE SkipsInput \/ DropsPart
    BY <1>6, <2>4 DEF SkipsInput, DropsPart
  <2>5. CASE Reads
    <3>1. /\ stage = "read" /\ stage' = "read" /\ input' = input /\ InputName \in DOMAIN files
          /\ input \in 1..Len(command.inputs) /\ ~Over /\ input \in Nat
      <4>1. Len(command.inputs) \in Nat
        BY <1>1, NamesOf DEF ValuesInv
      <4> QED BY <1>1, <2>5, <4>1 DEF Reads, PlaceInv, CountsInv, Over
    <3>2. files[InputName] = Original(input)
      <4>1. Untouched(InputName) \/ Emptied(InputName)
        BY <1>1, <3>1 DEF InputsInv, InputName
      <4>2. CASE Untouched(InputName)
        BY <3>1, <4>2 DEF Untouched, Original, Kept, InputName
      <4>3. CASE Emptied(InputName)
        <5>1. target.name \in Range(command.inputs)
          BY <3>1, <4>3 DEF Emptied, InputName, Range
        <5>2. target.append
          BY <1>6, <5>1 DEF Shared
        <5> QED BY <4>3, <5>2 DEF Emptied, Original, Kept, InputName
      <4> QED BY <4>1, <4>2, <4>3
    <3>3. PICK n \in Nat \ {0} :
            /\ position + n <= Len(files[InputName]) /\ position' = position + n
            /\ taken' = [taken EXCEPT ![input] = @ \o SubSeq(files[InputName], position + 1, position + n)]
      BY <2>5 DEF Reads
    <3> DEFINE o == Original(input)
               d == SubSeq(o, position + 1, position + n)
               y == taken[input] \o d
    <3>4. taken' = [taken EXCEPT ![input] = y] /\ position + n <= Len(o)
      BY <3>2, <3>3
    <3>5. taken[input] = SubSeq(o, 1, position)
      BY <1>8, <3>1
    <3>6. o \in Seq(Byte) /\ Len(o) \in Nat /\ position \in Nat
      BY <1>1, <1>5, LenProperties DEF CountsInv
    <3>7. y = SubSeq(o, 1, position + n)
      <4> HIDE DEF o, d
      <4>1. 0 \in 0..Len(o) /\ position \in 0..Len(o) /\ position + n \in position..Len(o)
        BY <3>4, <3>6
      <4>2. SubSeq(o, 0 + 1, position) \o SubSeq(o, position + 1, position + n)
              = SubSeq(o, 0 + 1, position + n)
        BY <3>6, <4>1, AdjacentParts
      <4>5. IsJoin(SubSeq(o, 0 + 1, position + n), SubSeq(o, 0 + 1, position), d)
        BY <4>2 DEF IsJoin, d
      <4>6. 0 + 1 = 1
        OBVIOUS
      <4>3. IsJoin(SubSeq(o, 1, position + n), SubSeq(o, 1, position), d)
        BY <4>5, <4>6
      <4>4. IsJoin(SubSeq(o, 1, position + n), taken[input], d)
        BY <3>5, <4>3
      <4> QED BY <4>4 DEF IsJoin
    <3>8. DOMAIN taken = 1..Len(taken) /\ input \in 1..Len(taken)
      BY <1>1, <3>1, LenProperties DEF ValuesInv, PlaceInv
    <3> HIDE DEF o, d, y
    <3>9. taken'[input] = y /\ \A i \in 1..input : i # input => taken'[i] = taken[i]
      BY <1>1, <3>4, <3>8 DEF PlaceInv
    <3> QED BY <1>8, <3>1, <3>3, <3>4, <3>7, <3>9 DEF o
  <2>6. CASE LeavesInput
    <3>1. /\ stage = "read" /\ position >= Len(files[InputName])
          /\ stage' = "open" /\ UNCHANGED <<input, taken, position>>
      BY <1>6, <2>6 DEF LeavesInput
    <3>2. /\ InputName \in DOMAIN files /\ input \in 1..Len(command.inputs) /\ ~Over /\ input \in Nat
      <4>1. Len(command.inputs) \in Nat
        BY <1>1, NamesOf DEF ValuesInv
      <4> QED BY <1>1, <3>1, <4>1 DEF PlaceInv, CountsInv, Over
    <3>3. files[InputName] = Original(input)
      <4>1. Untouched(InputName) \/ Emptied(InputName)
        BY <1>1, <3>2 DEF InputsInv, InputName
      <4>2. CASE Untouched(InputName)
        BY <3>2, <4>2 DEF Untouched, Original, Kept, InputName
      <4>3. CASE Emptied(InputName)
        <5>1. target.name \in Range(command.inputs)
          BY <3>2, <4>3 DEF Emptied, InputName, Range
        <5>2. target.append
          BY <1>6, <5>1 DEF Shared
        <5> QED BY <4>3, <5>2 DEF Emptied, Original, Kept, InputName
      <4> QED BY <4>1, <4>2, <4>3
    <3>4. taken[input] = Original(input)
      <4> DEFINE o == Original(input)
      <4>1. o \in Seq(Byte) /\ Len(o) \in Nat /\ position \in Nat
        BY <1>1, <1>5, LenProperties DEF CountsInv
      <4>2. position <= Len(o) /\ taken[input] = SubSeq(o, 1, position) /\ position >= Len(o)
        BY <1>8, <3>1, <3>3
      <4> HIDE DEF o
      <4>3. position = Len(o)
        BY <4>1, <4>2
      <4>4. SubSeq(o, 1, Len(o)) = o
        BY <4>1, SubSeqFull
      <4> QED BY <4>2, <4>3, <4>4 DEF o
    <3> QED BY <1>8, <3>1, <3>4
  <2>7. CASE UsesLine
    BY <1>9, <2>7 DEF UsesLine
  <2>8. CASE UsesBlock
    BY <1>9, <2>8 DEF UsesBlock
  <2>9. CASE WritesFile
    BY <1>9, <2>9 DEF WritesFile
  <2>10. CASE WritesStdout
    BY <1>9, <2>10 DEF WritesStdout
  <2> QED BY <1>10, <2>1, <2>2, <2>3, <2>4, <2>5, <2>6, <2>7, <2>8, <2>9, <2>10 DEF FilterMoves
<1>11. CASE SpongeMoves
  <2>1. UNCHANGED <<taken, input, position, stage, skipped>>
    BY <1>11 DEF SpongeMoves, filterVars
  <2> QED BY <1>6, <1>9, <2>1
<1> QED BY <1>10, <1>11 DEF Steps

-----------------------------------------------------------------------------
(* What the outputs have got. *)

\* The first of two parts is a prefix.
LEMMA PrefixOfJoin ==
  ASSUME NEW E, NEW s \in Seq(E), NEW t \in Seq(E), NEW d, IsJoin(d, s, t)
  PROVE  IsPrefix(s, d)
<1>1. IsPrefix(s, s)
  <2>1. SubSeq(s, 1, Len(s)) = s /\ Len(s) <= Len(s)
    BY SubSeqFull, LenProperties
  <2> QED BY <2>1 DEF IsPrefix
<1>2. IsPrefix(s, s \o t)
  BY <1>1, PrefixGrows
<1> QED BY <1>2 DEF IsJoin

\* A prefix of the first part is a prefix of the whole.
LEMMA PrefixStays ==
  ASSUME NEW E, NEW s \in Seq(E), NEW t \in Seq(E), NEW x \in Seq(E), IsPrefix(s, t),
         NEW d, IsJoin(d, t, x)
  PROVE  IsPrefix(s, d)
BY PrefixGrows DEF IsJoin

\* What two parts make up is a sequence as long as both.
LEMMA JoinType ==
  ASSUME NEW E, NEW s \in Seq(E), NEW t \in Seq(E), NEW d, IsJoin(d, s, t)
  PROVE  d \in Seq(E) /\ Len(d) = Len(s) + Len(t) /\ Len(d) \in Nat /\ Len(s) \in Nat /\ Len(t) \in Nat
<1>1. s \o t \in Seq(E) /\ Len(s \o t) = Len(s) + Len(t)
  BY ConcatProperties
<1> QED BY <1>1, LenProperties DEF IsJoin

\* The first and the last of three.
LEMMA JoinShift ==
  ASSUME NEW E, NEW a \in Seq(E), NEW b \in Seq(E), NEW c \in Seq(E),
         NEW ab, IsJoin(ab, a, b), NEW bc, IsJoin(bc, b, c), NEW d
  PROVE  IsJoin(d, ab, c) <=> IsJoin(d, a, bc)
<1>1. SameJoin(a, b, c)
  BY JoinThree
<1> QED BY <1>1 DEF SameJoin, IsJoin

\* To join nothing changes nothing.
LEMMA JoinNothing ==
  ASSUME NEW E, NEW s \in Seq(E), NEW d
  PROVE  IsJoin(d, s, <<>>) <=> d = s
<1>1. s \o <<>> = s
  BY ConcatEmptySeq
<1> QED BY <1>1 DEF IsJoin

\* The sequences of the invariant.
LEMMA OutputTypes ==
  ASSUME PipelineInv
  PROVE  /\ Sent \in Seq(Symbol) /\ Due \in Seq(Symbol) /\ held \in Seq(Symbol)
         /\ writing \in Seq(Symbol) /\ pipe \in Seq(Symbol) /\ buffer \in Seq(Symbol)
         /\ Len(command.outputs) \in Nat /\ opened \in 0..Len(command.outputs)
         /\ Final = Len(command.outputs) + 1 /\ next \in 1..Final /\ offset \in Nat
         /\ skipped \/ LineWise(command) => Len(command.outputs) = 0
<1>1. ValuesInv /\ CountsInv /\ PlaceInv
  BY DEF PipelineInv
<1>2. Sent \in Seq(Symbol)
  BY <1>1, ConcatProperties DEF ValuesInv, Sent
<1>3. Due \in Seq(Symbol)
  BY <1>1, DoneType DEF ValuesInv, Due
<1>4. /\ Len(command.outputs) \in Nat
      /\ skipped \/ LineWise(command) => Len(command.outputs) = 0
  <2>1. skipped \/ LineWise(command) => command.program # "tee"
    BY <1>1 DEF PlaceInv, LineWise
  <2> QED BY <1>1, <2>1, NamesOf DEF ValuesInv
<1> QED BY <1>1, <1>2, <1>3, <1>4 DEF ValuesInv, CountsInv, Final

\* What is left to be written to an output.
LEMMA RestOf ==
  ASSUME PipelineInv
  PROVE  /\ \A i \in 1..Final : Rest(i) \in Seq(Symbol) /\ Len(Rest(i)) <= Len(Rest(Final))
         /\ stage # "write" => \A i \in 1..Final : Rest(i) = <<>>
         /\ stage = "write" /\ next = Final => Rest(Final) = writing /\ \A i \in 1..Final : i # Final => Rest(i) = <<>>
         /\ stage = "write" /\ next < Final => Rest(Final) = writing
<1>1. /\ Len(command.outputs) \in Nat /\ Final = Len(command.outputs) + 1 /\ next \in 1..Final
      /\ offset \in Nat /\ writing \in Seq(Symbol) /\ Len(writing) \in Nat
  BY OutputTypes, LenProperties
<1>2. CASE stage # "write"
  <2>1. \A i \in 1..Final : Rest(i) = <<>>
    BY <1>2 DEF Rest
  <2>2. <<>> \in Seq(Symbol) /\ Len(<<>>) <= Len(<<>>)
    BY BytesAreSymbols, EmptySeq
  <2>3. Final \in 1..Final
    BY <1>1
  <2> QED BY <1>2, <2>1, <2>2, <2>3
<1>3. CASE stage = "write"
  <2>1. IF next = Final THEN offset = 0 ELSE offset < Len(writing)
    BY <1>3 DEF PipelineInv, PlaceInv
  <2> DEFINE last == SubSeq(writing, offset + 1, Len(writing))
  <2>2. last \in Seq(Symbol) /\ Len(last) <= Len(writing)
    <3>1. offset \in 0..Len(writing)
      BY <1>1, <2>1
    <3>2. last \in Seq(Symbol) /\ Len(last) = Len(writing) - offset
      BY <1>1, <3>1, CutInTwo
    <3> HIDE DEF last
    <3> QED BY <1>1, <3>2
  <2>3. next = Final => last = writing
    BY <1>1, <2>1, SubSeqFull
  <2>4. \A i \in 1..Final : /\ i < next => Rest(i) = <<>>
                            /\ i = next => Rest(i) = last
                            /\ i > next => Rest(i) = writing
    BY <1>1, <1>3 DEF Rest
  <2>5. Len(<<>>) = 0 /\ <<>> \in Seq(Symbol)
    BY BytesAreSymbols, EmptySeq
  <2> HIDE DEF last
  <2>6. Rest(Final) = writing
    BY <1>1, <2>3, <2>4
  <2>7. \A i \in 1..Final : Rest(i) \in {<<>>, last, writing}
    BY <1>1, <2>4
  <2>8. \A i \in 1..Final : Rest(i) \in Seq(Symbol) /\ Len(Rest(i)) <= Len(Rest(Final))
    <3> DEFINE e == <<>>
    <3>1. e \in Seq(Symbol) /\ Len(e) <= Len(writing) /\ Len(writing) <= Len(writing)
      BY <1>1, <2>5
    <3>2. \A i \in 1..Final : Rest(i) \in {e, last, writing}
      BY <2>7
    <3> HIDE DEF e
    <3>3. \A x \in {e, last, writing} : x \in Seq(Symbol) /\ Len(x) <= Len(writing)
      BY <1>1, <2>2, <3>1
    <3> QED BY <2>6, <3>2, <3>3
  <2>9. next = Final => \A i \in 1..Final : i # Final => Rest(i) = <<>>
    BY <1>1, <2>4
  <2> QED BY <1>3, <2>6, <2>8, <2>9
<1> QED BY <1>2, <1>3

\* An output has got what stdout has got or is to get of what is buffered.
LEMMA EnoughGot ==
  ASSUME PipelineInv, ~Over, NEW i \in 1..opened
  PROVE  /\ GotFile(i) \in Seq(Symbol) /\ ~skipped /\ ~LineWise(command)
         /\ IsJoin(Due, GotFile(i), Rest(i)) /\ i \in 1..Final /\ i # Final
         /\ Len(Sent) + Len(held) <= Len(GotFile(i))
         /\ stage = "write" /\ next = Final => Len(Sent) + Len(held) + Len(writing) <= Len(GotFile(i))
<1>1. GotFile(i) \in Seq(Symbol) /\ i \in 1..Len(command.outputs)
  BY GotType DEF PipelineInv
<1>2. /\ Sent \in Seq(Symbol) /\ held \in Seq(Symbol) /\ Len(command.outputs) \in Nat
      /\ Final = Len(command.outputs) + 1 /\ writing \in Seq(Symbol)
      /\ skipped \/ LineWise(command) => Len(command.outputs) = 0
  BY OutputTypes
<1>3. ~skipped /\ ~LineWise(command) /\ i \in 1..Final /\ i # Final /\ Final \in 1..Final /\ InStep
  BY <1>1, <1>2 DEF InStep
<1>4. IsJoin(Due, GotFile(i), Rest(i))
  BY DEF PipelineInv, GotInv, Over, IsJoin
<1>5. Due = (Sent \o held) \o Rest(Final)
  BY <1>3 DEF PipelineInv, StdoutInv
<1> DEFINE r == Rest(i)
           f == Rest(Final)
           g == GotFile(i)
           s == Sent \o held
<1>6. r \in Seq(Symbol) /\ f \in Seq(Symbol) /\ Len(r) <= Len(f)
  BY <1>3, RestOf
<1>7. stage = "write" /\ next = Final => r = <<>> /\ f = writing
  BY <1>3, RestOf
<1>8. s \in Seq(Symbol) /\ Len(s) = Len(Sent) + Len(held) /\ Len(Sent) \in Nat /\ Len(held) \in Nat
  BY <1>2, ConcatProperties, LenProperties
<1>9. IsJoin(Due, s, f) /\ IsJoin(Due, g, r)
  BY <1>4, <1>5 DEF IsJoin
<1> HIDE DEF r, f, g, s
<1>10. g \in Seq(Symbol)
  BY <1>1 DEF g
<1>11. /\ Len(Due) = Len(s) + Len(f) /\ Len(Due) = Len(g) + Len(r)
       /\ Len(f) \in Nat /\ Len(r) \in Nat /\ Len(g) \in Nat /\ Len(s) \in Nat
  BY <1>6, <1>8, <1>9, <1>10, JoinType
<1>12. Len(s) <= Len(g)
  BY <1>6, <1>11
<1>13. stage = "write" /\ next = Final => Len(s) + Len(writing) <= Len(g)
  <2>1. Len(<<>>) = 0
    BY EmptySeq
  <2> QED BY <1>7, <1>11, <2>1
<1> QED BY <1>1, <1>3, <1>4, <1>8, <1>12, <1>13 DEF g

\* What is sent grows when stdout is written, and when it is flushed at the end.
LEMMA SentGrows ==
  ASSUME PipelineInv, Steps
  PROVE  /\ FilterMoves /\ Ends => Sent' = Sent \/ (IsJoin(Sent', Sent, held) /\ Alive)
         /\ FilterMoves /\ WritesStdout => IsJoin(Sent', Sent, Filter!Flushed(held \o writing))
         /\ SpongeMoves \/ (FilterMoves /\ ~Ends /\ ~WritesStdout) => Sent' = Sent
<1>1. /\ Sent \in Seq(Symbol) /\ held \in Seq(Symbol) /\ writing \in Seq(Symbol)
      /\ pipe \in Seq(Symbol) /\ buffer \in Seq(Symbol)
  BY OutputTypes
<1>2. ASSUME NEW y \in Seq(Symbol), buffer' = buffer, pipe' = pipe \o y
      PROVE  IsJoin(Sent', Sent, y)
  <2>1. SameJoin(buffer, pipe, y)
    BY <1>1, JoinThree
  <2>2. Sent' = buffer \o (pipe \o y)
    BY <1>2 DEF Sent
  <2> QED BY <2>1, <2>2 DEF SameJoin, IsJoin, Sent
<1>3. ASSUME FilterMoves, Ends PROVE Sent' = Sent \/ (IsJoin(Sent', Sent, held) /\ Alive)
  <2>1. buffer' = buffer
    BY <1>3 DEF FilterMoves
  <2>2. pipe' = pipe \/ (pipe' = pipe \o held /\ Alive)
    BY <1>3 DEF Ends
  <2>3. CASE pipe' = pipe
    BY <2>1, <2>3 DEF Sent
  <2>4. CASE pipe' = pipe \o held /\ Alive
    BY <1>1, <1>2, <2>1, <2>4
  <2> QED BY <2>2, <2>3, <2>4
<1>4. ASSUME FilterMoves, WritesStdout PROVE IsJoin(Sent', Sent, Filter!Flushed(held \o writing))
  <2> DEFINE y == Filter!Flushed(held \o writing)
  <2>1. y \in Seq(Symbol)
    <3>1. held \o writing \in Seq(Symbol)
      BY <1>1, ConcatProperties
    <3> QED BY <3>1, FlushedParts
  <2>2. buffer' = buffer /\ pipe' = pipe \o y
    BY <1>4 DEF FilterMoves, WritesStdout
  <2> HIDE DEF y
  <2>3. IsJoin(Sent', Sent, y)
    BY <1>2, <2>1, <2>2
  <2> QED BY <2>3 DEF y
<1>5. ASSUME FilterMoves, ~Ends, ~WritesStdout PROVE Sent' = Sent
  BY <1>5 DEF FilterMoves, OpensFile, OpensInput, SkipsInput, Reads, DropsPart, LeavesInput,
              UsesLine, UsesBlock, WritesFile, Sent
<1>6. ASSUME SpongeMoves PROVE Sent' = Sent
  <2>1. CASE Takes
    <3>1. buffer' = Sent /\ pipe' = <<>>
      BY <2>1 DEF Takes, Sent
    <3>2. Sent' = Sent \o <<>>
      BY <3>1 DEF Sent
    <3> QED BY <1>1, <3>2, ConcatEmptySeq
  <2>2. CASE ~Takes
    BY <1>6, <2>2 DEF SpongeMoves, OpensTarget, Changes, Writes, Shows, Sent
  <2> QED BY <2>1, <2>2
<1> QED BY <1>3, <1>4, <1>5, <1>6

\* An output to which nothing is written.
LEMMA GotKept ==
  ASSUME PipelineInv, Steps, NEW i \in 1..opened, ~(FilterMoves /\ WritesFile /\ i = next),
         stage' # "failure" => stage # "failure",
         NEW x \in Seq(Symbol), IsJoin(Due', Due, x),
         stage' # "failure" => \/ Rest(i)' = Rest(i) /\ x = <<>>
                               \/ Rest(i) = <<>> /\ Rest(i)' = x,
         Len(Sent') <= Len(GotFile(i))
  PROVE  /\ stage' # "failure" => IsJoin(Due', GotFile(i)', Rest(i)')
         /\ IsPrefix(GotFile(i)', Due') /\ Len(GotFile(i)') >= Len(Sent')
<1> DEFINE g == GotFile(i)
           r == Rest(i)
<1>1. g \in Seq(Symbol) /\ Due \in Seq(Symbol) /\ Len(g) \in Nat
  BY GotType, OutputTypes, LenProperties DEF PipelineInv
<1>2. GotFile(i)' = g
  BY GotStays
<1>3. (stage # "failure" => IsJoin(Due, g, r)) /\ IsPrefix(g, Due)
  BY DEF PipelineInv, GotInv, IsJoin
<1> HIDE DEF g
<1>4. IsPrefix(g, Due')
  BY <1>1, <1>3, PrefixStays
<1>5. ASSUME stage' # "failure" PROVE IsJoin(Due', g, Rest(i)')
  <2>1. IsJoin(Due, g, r)
    BY <1>3, <1>5
  <2>2. CASE Rest(i)' = r /\ x = <<>>
    <3>1. Due' = Due
      BY <1>1, <2>2, JoinNothing
    <3> QED BY <2>1, <2>2, <3>1
  <2>3. CASE r = <<>> /\ Rest(i)' = x
    <3>1. Due = g
      BY <1>1, <2>1, <2>3, JoinNothing
    <3> QED BY <2>3, <3>1
  <2> HIDE DEF r
  <2> QED BY <1>5, <2>2, <2>3 DEF r
<1>6. Len(Sent') <= Len(g)
  BY DEF g
<1> QED BY <1>1, <1>2, <1>4, <1>5, <1>6

\* What tee's files have got.
LEMMA GotSteps ==
  ASSUME PipelineInv, Steps
  PROVE  GotInv'
<1>0. SUFFICES ASSUME NEW i \in 1..opened'
               PROVE  /\ stage' # "failure" => IsJoin(Due', GotFile(i)', Rest(i)')
                      /\ IsPrefix(GotFile(i)', Due') /\ Len(GotFile(i)') >= Len(Sent')
  BY DEF GotInv, IsJoin
<1>1. /\ ValuesInv /\ CountsInv /\ PlaceInv
      /\ Len(command.outputs) \in Nat /\ opened \in 0..Len(command.outputs) /\ opened \in Nat
      /\ Final = Len(command.outputs) + 1 /\ next \in 1..Final
      /\ Sent \in Seq(Symbol) /\ Due \in Seq(Symbol) /\ held \in Seq(Symbol) /\ writing \in Seq(Symbol)
      /\ Len(Sent) \in Nat /\ Len(held) \in Nat /\ Len(writing) \in Nat
  BY OutputTypes, LenProperties DEF PipelineInv
<1>2. /\ <<>> \in Seq(Symbol) /\ Len(<<>>) = 0
      /\ (Due' = Due => IsJoin(Due', Due, <<>>))
  BY <1>1, BytesAreSymbols, EmptySeq, JoinNothing
<1>3. CASE SpongeMoves /\ i \in 1..opened
  <2>1. UNCHANGED <<stage, writing, next, offset>>
    BY <1>3 DEF SpongeMoves, filterVars
  <2>2. Rest(i)' = Rest(i) /\ Due' = Due /\ Sent' = Sent
    BY <1>3, <2>1, DueStays, SentGrows DEF Rest
  <2>3. Len(Sent') <= Len(GotFile(i))
    BY <1>3, <2>2 DEF PipelineInv, GotInv
  <2>5. ~(FilterMoves /\ WritesFile)
    <3>1. SUFFICES ASSUME WritesFile PROVE FALSE
      OBVIOUS
    <3>2. PICK n \in 1..(Len(writing) - offset) : next' = next + 1 \/ offset' = offset + n
      BY <3>1 DEF WritesFile
    <3>3. offset \in Nat /\ n \in Nat \ {0} /\ next \in Nat
      BY <1>1 DEF CountsInv
    <3> QED BY <2>1, <3>2, <3>3
  <2> QED BY <1>2, <1>3, <2>1, <2>2, <2>3, <2>5, GotKept
<1>4. CASE FilterMoves /\ OpensFile
  <2>1. /\ stage = "open" /\ stage' = "open" /\ opened' = opened + 1 /\ opened < Len(command.outputs)
        /\ Due' = Due /\ Sent' = Sent /\ ~WritesFile
    <3>1. Due' = Due
      BY <1>4, DueStays
    <3>2. /\ stage = "open" /\ stage' = "open" /\ opened' = opened + 1 /\ opened < Len(command.outputs)
          /\ ~Ends /\ ~WritesStdout /\ ~WritesFile
      BY <1>4 DEF OpensFile, Ends, WritesStdout, WritesFile
    <3> QED BY <1>4, <3>1, <3>2, SentGrows
  <2>2. Rest(i) = <<>> /\ Rest(i)' = <<>>
    BY <2>1 DEF Rest
  <2>3. CASE i \in 1..opened
    <3>1. Len(Sent') <= Len(GotFile(i))
      BY <2>1, <2>3 DEF PipelineInv, GotInv
    <3> QED BY <1>2, <2>1, <2>2, <2>3, <3>1, GotKept
  <2>4. CASE i = opened + 1
    <3>1. GotFile(i)' = <<>>
      BY <1>1, <1>4, <2>4, GotStarts
    <3>2. Sent' = <<>> /\ Due' = <<>>
      <4>1. taken = <<>> /\ Sent = <<>>
        BY <1>1, <2>1 DEF PlaceInv
      <4>2. DoneOf(command, <<>>, buffered) = <<>>
        BY <1>1, DoneType, BytesAreSymbols DEF ValuesInv
      <4> QED BY <2>1, <4>1, <4>2 DEF Due
    <3>3. IsJoin(<<>>, <<>>, <<>>)
      BY <1>2, JoinNothing
    <3>4. IsPrefix(<<>>, <<>>)
      BY <1>2, <3>3, PrefixOfJoin
    <3> QED BY <1>2, <2>2, <3>1, <3>2, <3>3, <3>4
  <2>5. i \in 1..opened \/ i = opened + 1
    BY <1>0, <1>1, <2>1
  <2> QED BY <2>3, <2>4, <2>5
<1>5. CASE FilterMoves /\ ~OpensFile
  <2>1. i \in 1..opened /\ ~Over
    BY <1>0, <1>5 DEF FilterMoves, Ends, OpensInput, SkipsInput, Reads, DropsPart, LeavesInput,
             UsesLine, UsesBlock, WritesFile, WritesStdout, Over
  <2> DEFINE g == GotFile(i)
  <2>2. /\ g \in Seq(Symbol) /\ Len(g) \in Nat /\ ~skipped /\ ~LineWise(command)
        /\ IsJoin(Due, g, Rest(i)) /\ i \in 1..Final /\ i # Final
        /\ Len(Sent) + Len(held) <= Len(g)
        /\ stage = "write" /\ next = Final => Len(Sent) + Len(held) + Len(writing) <= Len(g)
    BY <2>1, EnoughGot, LenProperties
  <2>3. command.program \notin {"cat", "number", "cut"} /\ i \in Nat
    <3>1. Len(command.outputs) # 0 /\ i \in Nat
      BY <1>1, <2>1
    <3>2. command.program = "tee"
      BY <1>1, <3>1, NamesOf DEF ValuesInv
    <3> QED BY <3>1, <3>2
  <2>4. Len(Sent) <= Len(g)
    BY <1>1, <2>2
  <2>5. ASSUME ~Ends, ~WritesStdout PROVE Len(Sent') <= Len(g)
    BY <1>5, <2>4, <2>5, SentGrows
  <2> HIDE DEF g
  <2>6. CASE Ends
    <3>1. /\ Due' = Due /\ (stage' # "failure" => stage = "open" /\ stage' = "success") /\ ~WritesFile
          /\ stage # "failure"
      <4>1. Due' = Due
        BY <1>5, <2>6, DueStays
      <4> QED BY <2>1, <2>6, <4>1 DEF Ends, WritesFile, Over
    <3>2. stage' # "failure" => Rest(i)' = <<>> /\ Rest(i) = <<>>
      BY <3>1 DEF Rest
    <3>3. Len(Sent') <= Len(g)
      <4>1. Sent' = Sent \/ IsJoin(Sent', Sent, held)
        BY <1>5, <2>6, SentGrows
      <4>2. CASE IsJoin(Sent', Sent, held)
        BY <1>1, <2>2, <4>2, JoinType
      <4> QED BY <2>4, <4>1, <4>2
    <3> QED BY <1>2, <2>1, <3>1, <3>2, <3>3, GotKept DEF g
  <2>7. CASE OpensInput
    <3>1. /\ stage = "open" /\ stage' = "read" /\ ~Ends /\ ~WritesStdout /\ ~WritesFile
      BY <2>7 DEF OpensInput, Ends, WritesStdout, WritesFile
    <3>2. buffered = <<>>
      BY <2>2, <3>1 DEF PipelineInv, ReadInv, InStep
    <3>3. Due' = Due
      BY <1>5, <2>7, <3>2, NextDue
    <3>4. Rest(i)' = <<>> /\ Rest(i) = <<>>
      BY <3>1 DEF Rest
    <3>5. Len(Sent') <= Len(g)
      BY <2>5, <3>1
    <3> QED BY <1>2, <2>1, <3>1, <3>3, <3>4, <3>5, GotKept DEF g
  <2>8. CASE SkipsInput
    BY <2>3, <2>8 DEF SkipsInput
  <2>9. CASE Reads
    <3>1. /\ stage = "read" /\ stage' = "read" /\ ~Ends /\ ~WritesStdout /\ ~WritesFile
      BY <2>9 DEF Reads, Ends, WritesStdout, WritesFile
    <3>2. Due' = Due
      BY <1>5, <2>9, ReadsMore
    <3>3. Rest(i)' = <<>> /\ Rest(i) = <<>>
      BY <3>1 DEF Rest
    <3>4. Len(Sent') <= Len(g)
      BY <2>5, <3>1
    <3> QED BY <1>2, <2>1, <3>1, <3>2, <3>3, <3>4, GotKept DEF g
  <2>10. CASE DropsPart \/ UsesLine
    BY <2>2, <2>10 DEF DropsPart, UsesLine
  <2>11. CASE LeavesInput
    <3>1. /\ stage = "read" /\ stage' = "open" /\ ~Ends /\ ~WritesStdout /\ ~WritesFile
      BY <2>3, <2>11 DEF LeavesInput, Ends, WritesStdout, WritesFile
    <3>2. Due' = Due
      BY <1>5, <2>11, DueStays
    <3>3. Rest(i)' = <<>> /\ Rest(i) = <<>>
      BY <3>1 DEF Rest
    <3>4. Len(Sent') <= Len(g)
      BY <2>5, <3>1
    <3> QED BY <1>2, <2>1, <3>1, <3>2, <3>3, <3>4, GotKept DEF g
  <2>12. CASE UsesBlock
    <3>1. /\ stage = "read" /\ stage' = "write" /\ ~Ends /\ ~WritesStdout /\ ~WritesFile
          /\ next' = 1 /\ offset' = 0
      BY <2>12 DEF UsesBlock, Ends, WritesStdout, WritesFile
    <3>2. IsJoin(Due', Due, writing')
      BY <1>5, <2>12, BlockUsed DEF IsJoin
    <3>3. writing' \in Seq(Symbol)
      BY ValuesStep DEF ValuesInv
    <3>4. Rest(i) = <<>> /\ Rest(i)' = writing'
      <4>1. Rest(i)' = IF i < 1 THEN <<>> ELSE IF i = 1 THEN SubSeq(writing', 0 + 1, Len(writing')) ELSE writing'
        BY <3>1 DEF Rest
      <4>2. SubSeq(writing', 0 + 1, Len(writing')) = writing'
        BY <3>3, SubSeqFull
      <4>3. ~(i < 1)
        BY <2>1, <2>3
      <4> QED BY <3>1, <4>1, <4>2, <4>3 DEF Rest
    <3>5. Len(Sent') <= Len(g)
      BY <2>5, <3>1
    <3> QED BY <2>1, <3>1, <3>2, <3>3, <3>4, <3>5, GotKept DEF g
  <2>13. CASE WritesFile
    <3>1. /\ stage = "write" /\ stage' = "write" /\ next < Final /\ ~Ends /\ ~WritesStdout
          /\ writing' = writing
      BY <2>13 DEF WritesFile, Ends, WritesStdout
    <3>2. Due' = Due /\ Len(Sent') <= Len(g)
      BY <1>5, <2>5, <2>13, <3>1, DueStays
    <3>3. PICK n \in 1..(Len(writing) - offset) :
            /\ files' = WithGrown(files, OutputName(next), SubSeq(writing, offset + 1, offset + n))
            /\ \/ offset + n = Len(writing) /\ next' = next + 1 /\ offset' = 0
               \/ offset + n # Len(writing) /\ offset' = offset + n /\ UNCHANGED next
      BY <2>13 DEF WritesFile, OutputName
    <3>4. n \in Nat \ {0} /\ offset \in Nat /\ next \in Nat
      BY <1>1 DEF CountsInv
    <3>5. CASE i # next
      <4>1. Rest(i)' = Rest(i)
        <5>1. SubSeq(writing, 0 + 1, Len(writing)) = writing
          BY <1>1, SubSeqFull
        <5>2. CASE i < next
          <6>1. i < next'
            BY <2>3, <3>3, <3>4, <5>2
          <6> QED BY <5>2, <6>1 DEF Rest
        <5>3. CASE i > next
          <6>1. ~(i < next') /\ ~(i < next) /\ (i = next' => offset' = 0)
            BY <2>3, <3>3, <3>4, <5>3
          <6>2. Rest(i) = writing
            BY <3>1, <3>5, <6>1 DEF Rest
          <6>3. Rest(i)' = IF i = next' THEN SubSeq(writing, offset' + 1, Len(writing)) ELSE writing
            BY <3>1, <6>1 DEF Rest
          <6> QED BY <5>1, <6>1, <6>2, <6>3
        <5> QED BY <2>3, <3>4, <3>5, <5>2, <5>3
      <4> QED BY <1>2, <2>1, <3>1, <3>2, <3>5, <4>1, GotKept DEF g
    <3>6. CASE i = next
      <4> DEFINE d == SubSeq(writing, offset + 1, offset + n)
                 r == SubSeq(writing, offset + n + 1, Len(writing))
                 o == SubSeq(writing, offset + 1, Len(writing))
      <4>1. /\ GotFile(i)' = g \o d /\ d \in Seq(Symbol) /\ offset + n <= Len(writing)
        <5>1. files' = WithGrown(files, OutputName(i), SubSeq(writing, offset + 1, offset + n))
          BY <3>3, <3>6
        <5> QED BY <1>5, <2>3, <2>13, <3>6, <5>1, GotGrows DEF g
      <4>2. Rest(i) = o
        BY <3>1, <3>4, <3>6 DEF Rest
      <4>3. r \in Seq(Symbol) /\ IsJoin(o, d, r)
        <5>1. offset \in 0..Len(writing) /\ offset + n \in offset..Len(writing)
              /\ offset + n \in 0..Len(writing) /\ Len(writing) \in (offset + n)..Len(writing)
          BY <1>1, <3>4, <4>1
        <5>2. IsJoin(o, d, r)
          BY <1>1, <5>1, PartsJoin
        <5>3. r \in Seq(Symbol)
          BY <1>1, <5>1, CutInTwo
        <5> QED BY <5>2, <5>3
      <4>4. Rest(i)' = r
        <5>1. CASE offset + n = Len(writing)
          <6>1. Rest(i)' = <<>>
            BY <3>1, <3>3, <3>4, <3>6, <5>1 DEF Rest
          <6>2. r = <<>>
            BY <1>1, <5>1, SubSeqEmpty
          <6> QED BY <6>1, <6>2
        <5>2. CASE offset + n # Len(writing)
          BY <3>1, <3>3, <3>4, <3>6, <5>2 DEF Rest
        <5> QED BY <5>1, <5>2
      <4> HIDE DEF d, r, o
      <4>5. IsJoin(GotFile(i)', g, d)
        BY <4>1 DEF IsJoin
      <4>6. IsJoin(Due, GotFile(i)', r)
        <5>1. IsJoin(Due, g, o)
          BY <2>2, <4>2
        <5> QED BY <2>2, <4>1, <4>3, <4>5, <5>1, JoinShift
      <4>7. GotFile(i)' \in Seq(Symbol) /\ Len(GotFile(i)') >= Len(g)
        BY <2>2, <4>1, <4>5, JoinType
      <4>8. IsPrefix(GotFile(i)', Due)
        BY <4>3, <4>6, <4>7, PrefixOfJoin
      <4>9. Len(GotFile(i)') >= Len(Sent')
        <5>1. Len(Sent') \in Nat /\ Len(GotFile(i)') \in Nat
          <6>1. Sent' = Sent
            BY <1>5, <3>1, SentGrows
          <6> QED BY <1>1, <4>7, <6>1, LenProperties
        <5> QED BY <2>2, <3>2, <4>7, <5>1
      <4> QED BY <3>2, <4>4, <4>6, <4>8, <4>9
    <3> QED BY <3>5, <3>6
  <2>14. CASE WritesStdout
    <3>1. /\ stage = "write" /\ stage' = "read" /\ next = Final /\ ~WritesFile
          /\ IsJoin(Sent', Sent, Filter!Flushed(held \o writing))
      BY <1>5, <2>14, SentGrows DEF WritesStdout, WritesFile
    <3>2. Due' = Due
      BY <1>5, <2>14, DueStays
    <3>3. Rest(i)' = <<>> /\ Rest(i) = <<>>
      <4>1. Rest(i)' = <<>>
        BY <3>1 DEF Rest
      <4> QED BY <2>2, <3>1, <4>1, RestOf
    <3>4. Len(Sent') <= Len(g)
      <4> DEFINE s == held \o writing
                 f == Filter!Flushed(s)
                 k == Filter!Kept(s)
      <4>1. s \in Seq(Symbol) /\ Len(s) = Len(held) + Len(writing)
        BY <1>1, ConcatProperties
      <4> HIDE DEF s
      <4>2. f \in Seq(Symbol) /\ k \in Seq(Symbol) /\ f \o k = s
        BY <4>1, FlushedParts
      <4>3. IsJoin(Sent', Sent, f)
        BY <3>1 DEF s
      <4> HIDE DEF f, k
      <4>4. IsJoin(s, f, k)
        BY <4>2 DEF IsJoin
      <4>5. Len(s) = Len(f) + Len(k) /\ Len(f) \in Nat /\ Len(k) \in Nat
        BY <4>2, <4>4, JoinType
      <4>6. Len(Sent') = Len(Sent) + Len(f)
        BY <1>1, <4>2, <4>3, JoinType
      <4> QED BY <1>1, <2>2, <3>1, <4>1, <4>5, <4>6
    <3> QED BY <1>2, <2>1, <3>1, <3>2, <3>3, <3>4, GotKept DEF g
  <2> QED BY <1>5, <2>6, <2>7, <2>8, <2>9, <2>10, <2>11, <2>12, <2>13, <2>14 DEF FilterMoves
<1>6. i \in 1..opened \/ ~SpongeMoves \/ FilterMoves
  BY <1>0 DEF SpongeMoves, filterVars
<1> QED BY <1>3, <1>4, <1>5, <1>6 DEF Steps

\* As long as the filter goes on, what stdout has got and what it has still to get.
LEMMA StdoutNow ==
  ASSUME PipelineInv, ~Over
  PROVE  /\ EndsLine(Sent) /\ NoLine(held) /\ IsPrefix(Sent, Due)
         /\ InStep => \E s : IsJoin(s, Sent, held) /\ IsJoin(Due, s, Rest(Final))
BY DEF PipelineInv, StdoutInv, IsJoin

\* The same afterwards, in these terms.
LEMMA StdoutThen ==
  ASSUME IsPrefix(Sent', Due'),
         ~Over' => EndsLine(Sent') /\ NoLine(held'),
         ~Over' /\ InStep' => \E s : IsJoin(s, Sent', held') /\ IsJoin(Due', s, Rest(Final)'),
         stage' = "success" /\ ~skipped' =>
           Sent' = Due' \/ (main' = "failure" /\ Sent' = Filter!Flushed(Due'))
  PROVE  StdoutInv'
BY DEF StdoutInv, IsJoin

\* Nothing is written to stdout.
LEMMA StdoutKept ==
  ASSUME PipelineInv, Steps, ~Over, ~Over', Sent' = Sent, held' = held,
         NEW x \in Seq(Symbol), IsJoin(Due', Due, x),
         InStep' => \/ Rest(Final)' = Rest(Final) /\ x = <<>>
                    \/ Rest(Final) = <<>> /\ Rest(Final)' = x
  PROVE  StdoutInv'
<1> DEFINE f == Final
           r == Rest(Final)
<1>1. Sent \in Seq(Symbol) /\ Due \in Seq(Symbol) /\ held \in Seq(Symbol)
  BY OutputTypes
<1>2. EndsLine(Sent) /\ NoLine(held) /\ IsPrefix(Sent, Due)
  BY StdoutNow
<1>3. IsPrefix(Sent, Due')
  BY <1>1, <1>2, PrefixStays
<1>4. ASSUME InStep' PROVE \E s : IsJoin(s, Sent, held) /\ IsJoin(Due', s, Rest(Final)')
  <2>1. InStep
    BY <1>4, OnceOver
  <2>2. PICK s : IsJoin(s, Sent, held) /\ IsJoin(Due, s, r)
    BY <2>1, StdoutNow
  <2>3. s \in Seq(Symbol)
    BY <1>1, <2>2, JoinType
  <2>4. CASE Rest(Final)' = r /\ x = <<>>
    <3>1. Due' = Due
      BY <1>1, <2>4, JoinNothing
    <3>2. IsJoin(Due', s, Rest(Final)')
      BY <2>2, <2>4, <3>1
    <3> QED BY <2>2, <3>2
  <2>5. CASE r = <<>> /\ Rest(Final)' = x
    <3>1. Due = s
      BY <2>2, <2>3, <2>5, JoinNothing
    <3>2. IsJoin(Due', s, Rest(Final)')
      BY <2>5, <3>1
    <3> QED BY <2>2, <3>2
  <2> HIDE DEF r
  <2> QED BY <1>4, <2>4, <2>5 DEF r
<1>5. ~(stage' = "success")
  BY DEF Over
<1> QED BY <1>2, <1>3, <1>4, <1>5, StdoutThen

\* What stdout has got.
LEMMA StdoutSteps ==
  ASSUME PipelineInv, Steps
  PROVE  StdoutInv'
<1>1. /\ ValuesInv /\ CountsInv /\ PlaceInv /\ SpongeInv
      /\ Len(command.outputs) \in Nat /\ opened \in 0..Len(command.outputs)
      /\ Final = Len(command.outputs) + 1 /\ next \in 1..Final
      /\ Sent \in Seq(Symbol) /\ Due \in Seq(Symbol) /\ held \in Seq(Symbol) /\ writing \in Seq(Symbol)
      /\ LineWise(command) => Len(command.outputs) = 0
  BY OutputTypes DEF PipelineInv
<1>2. /\ <<>> \in Seq(Symbol) /\ (Due' = Due => IsJoin(Due', Due, <<>>))
  BY <1>1, BytesAreSymbols, JoinNothing
<1>3. command' = command /\ Final' = Final
  BY DEF Steps, FilterMoves, SpongeMoves, filterVars, Final
<1>4. CASE SpongeMoves
  <2>1. UNCHANGED <<stage, writing, next, offset, held, skipped>>
    BY <1>4 DEF SpongeMoves, filterVars
  <2>2. Rest(Final)' = Rest(Final) /\ Due' = Due /\ Sent' = Sent
    BY <1>3, <1>4, <2>1, DueStays, SentGrows DEF Rest
  <2>3. main = "failure" => main' = "failure"
    BY <1>4 DEF SpongeMoves, OpensTarget, Takes, Changes, Writes, Shows
  <2>4. CASE ~Over
    <3>1. ~Over'
      BY <2>1, <2>4 DEF Over
    <3> QED BY <1>2, <2>1, <2>2, <2>4, <3>1, StdoutKept
  <2>5. CASE Over
    <3>1. Over'
      BY <2>1, <2>5 DEF Over
    <3>2. IsPrefix(Sent, Due)
          /\ (stage = "success" /\ ~skipped =>
                Sent = Due \/ (main = "failure" /\ Sent = Filter!Flushed(Due)))
      BY DEF PipelineInv, StdoutInv
    <3>3. stage' = "success" /\ ~skipped' =>
            Sent' = Due' \/ (main' = "failure" /\ Sent' = Filter!Flushed(Due'))
      BY <2>1, <2>2, <2>3, <3>2
    <3> QED BY <2>2, <3>1, <3>2, <3>3, StdoutThen
  <2> QED BY <2>4, <2>5
<1>5. CASE FilterMoves
  <2>0. ~Over
    BY <1>5 DEF FilterMoves, OpensFile, Ends, OpensInput, SkipsInput, Reads, DropsPart, LeavesInput,
             UsesLine, UsesBlock, WritesFile, WritesStdout, Over
  <2>1. ASSUME ~Ends, ~WritesStdout
        PROVE  Sent' = Sent /\ held' = held /\ ~Over'
    <3>1. Sent' = Sent
      BY <1>5, <2>1, SentGrows
    <3>2. held' = held /\ ~Over'
      BY <1>5, <2>1 DEF FilterMoves, OpensFile, OpensInput, SkipsInput, Reads, DropsPart, LeavesInput,
                   UsesLine, UsesBlock, WritesFile, Over
    <3> QED BY <3>1, <3>2
  <2>2. CASE OpensFile
    <3>1. stage = "open" /\ stage' = "open" /\ ~Ends /\ ~WritesStdout
      BY <2>2 DEF OpensFile, Ends, WritesStdout
    <3>2. Rest(Final)' = <<>> /\ Rest(Final) = <<>> /\ Due' = Due
      BY <1>5, <2>2, <3>1, DueStays DEF Rest
    <3> QED BY <1>2, <2>0, <2>1, <3>1, <3>2, StdoutKept
  <2>3. CASE OpensInput \/ SkipsInput
    <3>1. /\ stage = "open" /\ stage' \in {"open", "read"} /\ ~Ends /\ ~WritesStdout
      BY <2>3 DEF OpensInput, SkipsInput, Ends, WritesStdout
    <3>2. Rest(Final)' = <<>> /\ Rest(Final) = <<>>
      BY <3>1 DEF Rest
    <3>3. PICK x \in Seq(Symbol) : IsJoin(Due', Due, x)
      BY <1>5, <2>3, NextDue DEF IsJoin
    <3>4. CASE InStep'
      <4>1. buffered = <<>>
        BY <3>1, <3>4, OnceOver DEF PipelineInv, ReadInv
      <4>2. Due' = Due
        BY <1>5, <2>3, <4>1, NextDue
      <4> QED BY <1>2, <2>0, <2>1, <3>1, <3>2, <4>2, StdoutKept
    <3>5. CASE ~InStep'
      BY <2>0, <2>1, <3>1, <3>3, <3>5, StdoutKept
    <3> QED BY <3>4, <3>5
  <2>4. CASE Reads \/ DropsPart
    <3>1. /\ stage = "read" /\ stage' = "read" /\ ~Ends /\ ~WritesStdout
      BY <2>4 DEF Reads, DropsPart, Ends, WritesStdout
    <3>2. Rest(Final)' = <<>> /\ Rest(Final) = <<>> /\ Due' = Due
      BY <1>5, <2>4, <3>1, ReadsMore, DropsUnused DEF Rest
    <3> QED BY <1>2, <2>0, <2>1, <3>1, <3>2, StdoutKept
  <2>5. CASE LeavesInput
    <3>1. /\ stage \in {"read", "write"} /\ stage' = "open" /\ ~Ends /\ ~WritesStdout
          /\ (stage = "write" => ~InStep')
      <4>1. /\ stage \in {"read", "write"} /\ stage' = "open" /\ ~Ends /\ ~WritesStdout
            /\ (stage = "write" => ~Alive /\ skipped' = TRUE)
        BY <2>5 DEF LeavesInput, Ends, WritesStdout
      <4> QED BY <1>5, <4>1, OnceOver DEF InStep
    <3>2. Due' = Due
      BY <1>5, <2>5, DueStays
    <3>3. InStep' => Rest(Final)' = <<>> /\ Rest(Final) = <<>>
      BY <3>1 DEF Rest
    <3> QED BY <1>2, <2>0, <2>1, <3>1, <3>2, <3>3, StdoutKept
  <2>6. CASE UsesLine
    <3>1. /\ stage = "read" /\ ~Ends /\ ~WritesStdout /\ LineWise(command)
      BY <2>6 DEF UsesLine, Ends, WritesStdout
    <3>2. Rest(Final) = <<>> /\ Final = 1
      BY <1>1, <3>1 DEF Rest
    <3>3. \/ UNCHANGED <<stage, outputVars>> /\ Due' = Due
          \/ stage' = "write" /\ next' = 1 /\ offset' = 0 /\ Due' = Due \o writing'
      BY <1>5, <2>6, LineUsed
    <3>4. CASE UNCHANGED <<stage, outputVars>> /\ Due' = Due
      <4>1. Rest(Final)' = <<>>
        BY <3>1, <3>4 DEF Rest
      <4> QED BY <1>2, <2>0, <2>1, <3>1, <3>2, <3>4, <4>1, StdoutKept
    <3>5. CASE stage' = "write" /\ next' = 1 /\ offset' = 0 /\ Due' = Due \o writing'
      <4>1. writing' \in Seq(Symbol)
        BY ValuesStep DEF ValuesInv
      <4>2. Rest(Final)' = SubSeq(writing', 0 + 1, Len(writing'))
        BY <1>3, <3>2, <3>5 DEF Rest
      <4>3. Rest(Final)' = writing'
        BY <4>1, <4>2, SubSeqFull
      <4>4. IsJoin(Due', Due, writing')
        BY <3>5 DEF IsJoin
      <4> QED BY <2>0, <2>1, <3>1, <3>2, <4>1, <4>3, <4>4, StdoutKept
    <3> QED BY <3>3, <3>4, <3>5
  <2>7. CASE UsesBlock
    <3>1. /\ stage = "read" /\ stage' = "write" /\ ~Ends /\ ~WritesStdout /\ next' = 1 /\ offset' = 0
      BY <2>7 DEF UsesBlock, Ends, WritesStdout
    <3>2. IsJoin(Due', Due, writing')
      BY <1>5, <2>7, BlockUsed DEF IsJoin
    <3>3. writing' \in Seq(Symbol)
      BY ValuesStep DEF ValuesInv
    <3>4. Rest(Final) = <<>> /\ Rest(Final)' = writing'
      <4>1. Rest(Final)' = IF Final < 1 THEN <<>>
                           ELSE IF Final = 1 THEN SubSeq(writing', 0 + 1, Len(writing')) ELSE writing'
        BY <1>3, <3>1 DEF Rest
      <4>2. SubSeq(writing', 0 + 1, Len(writing')) = writing'
        BY <3>3, SubSeqFull
      <4>3. ~(Final < 1)
        BY <1>1
      <4> QED BY <3>1, <4>1, <4>2, <4>3 DEF Rest
    <3> QED BY <2>0, <2>1, <3>1, <3>2, <3>3, <3>4, StdoutKept
  <2>8. CASE WritesFile
    <3>1. /\ stage = "write" /\ stage' = "write" /\ next < Final /\ ~Ends /\ ~WritesStdout
          /\ writing' = writing
      BY <2>8 DEF WritesFile, Ends, WritesStdout
    <3>2. Due' = Due
      BY <1>5, <2>8, DueStays
    <3>3. next' = next \/ (next' = next + 1 /\ offset' = 0)
      BY <2>8 DEF WritesFile
    <3>4. Rest(Final) = writing
      BY <3>1, RestOf
    <3>5. Rest(Final)' = writing
      <4>1. Rest(Final)' = IF Final < next' THEN <<>>
                           ELSE IF Final = next' THEN SubSeq(writing, offset' + 1, Len(writing)) ELSE writing
        BY <1>3, <3>1 DEF Rest
      <4>2. SubSeq(writing, 0 + 1, Len(writing)) = writing
        BY <1>1, SubSeqFull
      <4>3. ~(Final < next') /\ (Final = next' => offset' = 0)
        BY <1>1, <3>1, <3>3
      <4> QED BY <4>1, <4>2, <4>3
    <3> QED BY <1>2, <2>0, <2>1, <3>1, <3>2, <3>4, <3>5, StdoutKept
  <2>9. CASE WritesStdout
    <3> DEFINE w == held \o writing
               f == Filter!Flushed(w)
               k == Filter!Kept(w)
    <3>1. /\ stage = "write" /\ stage' = "read" /\ next = Final /\ held' = k
          /\ (~Alive => f = <<>>)
      BY <2>9 DEF WritesStdout
    <3>2. IsJoin(Sent', Sent, f)
      BY <1>5, <2>9, SentGrows
    <3>3. Due' = Due
      BY <1>5, <2>9, DueStays
    <3>4. w \in Seq(Symbol) /\ IsJoin(w, held, writing)
      BY <1>1, ConcatProperties DEF IsJoin
    <3> HIDE DEF w
    <3>5. /\ f \in Seq(Symbol) /\ k \in Seq(Symbol) /\ IsJoin(w, f, k)
          /\ EndsLine(f) /\ NoLine(k)
      BY <3>4, FlushedParts DEF IsJoin
    <3> HIDE DEF f, k
    <3>6. EndsLine(Sent) /\ IsPrefix(Sent, Due)
      BY <2>0, StdoutNow
    <3>7. EndsLine(Sent')
      <4>1. Sent' = Sent \o f
        BY <3>2 DEF IsJoin
      <4>2. EndsLine(Sent \o f)
        BY <1>1, <3>5, <3>6, EndsLineConcat
      <4> QED BY <4>1, <4>2
    <3>8. Sent' \in Seq(Symbol)
      BY <1>1, <3>2, <3>5, JoinType
    <3>9. InStep => \E s : IsJoin(s, Sent', k) /\ IsJoin(Due, s, <<>>)
      <4>1. SUFFICES ASSUME InStep PROVE \E s : IsJoin(s, Sent', k) /\ IsJoin(Due, s, <<>>)
        OBVIOUS
      <4>2. PICK s : IsJoin(s, Sent, held) /\ IsJoin(Due, s, Rest(Final))
        BY <2>0, <4>1, StdoutNow
      <4>3. Rest(Final) = writing
        BY <3>1, RestOf
      <4>4. IsJoin(Due, Sent, w)
        <5>1. IsJoin(Due, s, writing)
          BY <4>2, <4>3
        <5> QED BY <1>1, <3>4, <4>2, <5>1, JoinShift
      <4>5. IsJoin(Due, Sent', k)
        BY <1>1, <3>2, <3>5, <4>4, JoinShift
      <4>6. IsJoin(Due, Due, <<>>)
        BY <1>1, JoinNothing
      <4> QED BY <4>5, <4>6
    <3>10. IsPrefix(Sent', Due)
      <4>1. CASE InStep
        <5>1. PICK s : IsJoin(s, Sent', k) /\ IsJoin(Due, s, <<>>)
          BY <3>9, <4>1
        <5>2. s \in Seq(Symbol)
          BY <3>5, <3>8, <5>1, JoinType
        <5>3. Due = s
          BY <5>1, <5>2, JoinNothing
        <5> QED BY <3>5, <3>8, <5>1, <5>3, PrefixOfJoin
      <4>2. CASE ~InStep
        <5>1. f = <<>>
          BY <3>1, <4>2 DEF InStep
        <5>2. Sent' = Sent
          BY <1>1, <3>2, <5>1, JoinNothing
        <5> QED BY <3>6, <5>2
      <4> QED BY <4>1, <4>2
    <3>11. Rest(Final)' = <<>> /\ stage' # "success"
      BY <3>1 DEF Rest
    <3> QED BY <3>1, <3>3, <3>5, <3>7, <3>9, <3>10, <3>11, OnceOver, StdoutThen
  <2>10. CASE Ends
    <3>1. /\ Over' /\ (stage' = "success" => stage = "open") /\ skipped' = skipped
          /\ \/ pipe' = pipe /\ (stage' = "success" => ~Alive)
             \/ pipe' = pipe \o held /\ Alive
      BY <2>10 DEF Ends, Over
    <3>2. Due' = Due
      BY <1>5, <2>10, DueStays
    <3>3. buffer' = buffer /\ main' = main
      BY <1>5 DEF FilterMoves
    <3>4. EndsLine(Sent) /\ NoLine(held) /\ IsPrefix(Sent, Due)
      BY <2>0, StdoutNow
    <3>5. ASSUME stage' = "success", ~skipped' PROVE IsJoin(Due, Sent, held)
      <4>1. InStep /\ stage = "open"
        BY <3>1, <3>5 DEF InStep
      <4>2. PICK s : IsJoin(s, Sent, held) /\ IsJoin(Due, s, Rest(Final))
        BY <2>0, <4>1, StdoutNow
      <4>3. Rest(Final) = <<>>
        BY <4>1 DEF Rest
      <4>4. s \in Seq(Symbol)
        BY <1>1, <4>2, JoinType
      <4>5. Due = s
        BY <4>2, <4>3, <4>4, JoinNothing
      <4> QED BY <4>2, <4>5
    <3>6. CASE pipe' = pipe /\ (stage' = "success" => ~Alive)
      <4>1. Sent' = Sent
        BY <3>3, <3>6 DEF Sent
      <4>2. ASSUME stage' = "success", ~skipped'
            PROVE  main' = "failure" /\ Sent' = Filter!Flushed(Due')
        <5>1. main = "failure"
          BY <1>1, <2>0, <3>6, <4>2 DEF Alive, SpongeInv
        <5>2. Due = Sent \o held
          BY <3>5, <4>2 DEF IsJoin
        <5>3. Filter!Flushed(Sent \o held) = Sent
          BY <1>1, <3>4, FlushedOf
        <5> QED BY <3>2, <3>3, <4>1, <5>1, <5>2, <5>3
      <4> QED BY <3>1, <3>2, <3>4, <4>1, <4>2, StdoutThen
    <3>7. CASE pipe' = pipe \o held /\ Alive
      <4>1. IsJoin(Sent', Sent, held)
        <5>1. SameJoin(buffer, pipe, held)
          BY <1>1, JoinThree DEF ValuesInv
        <5> QED BY <3>3, <3>7, <5>1 DEF SameJoin, IsJoin, Sent
      <4>2. PICK s : IsJoin(s, Sent, held) /\ IsJoin(Due, s, Rest(Final))
        BY <2>0, <3>7, StdoutNow DEF InStep
      <4>3. s = Sent'
        BY <4>1, <4>2 DEF IsJoin
      <4>4. Sent' \in Seq(Symbol)
        BY <1>1, <4>1, JoinType
      <4>5. IsPrefix(Sent', Due)
        <5>1. Rest(Final) \in Seq(Symbol)
          BY <1>1, RestOf
        <5> QED BY <4>2, <4>3, <4>4, <5>1, PrefixOfJoin
      <4>6. ASSUME stage' = "success", ~skipped' PROVE Sent' = Due'
        BY <3>2, <3>5, <4>1, <4>6 DEF IsJoin
      <4> QED BY <3>1, <3>2, <4>5, <4>6, StdoutThen
    <3> QED BY <3>1, <3>6, <3>7
  <2> QED BY <1>5, <2>2, <2>3, <2>4, <2>5, <2>6, <2>7, <2>8, <2>9, <2>10 DEF FilterMoves
<1> QED BY <1>4, <1>5 DEF Steps

-----------------------------------------------------------------------------
(* Invariance. *)

\* The start.
LEMMA PipelineStarts ==
  PipelineInit => PipelineInv
<1>1. SUFFICES ASSUME PipelineInit PROVE PipelineInv
  OBVIOUS
<1>2. /\ command \in Commands /\ target \in Targets /\ before \in FileSystems /\ files = before
      /\ pipe = <<>> /\ stage = "open" /\ opened = 0 /\ input = 0 /\ position = 0 /\ buffered = <<>>
      /\ lines = 0 /\ writing = <<>> /\ next = 1 /\ offset = 0 /\ held = <<>> /\ taken = <<>>
      /\ skipped = FALSE /\ main = "open" /\ buffer = <<>> /\ written = 0
  BY <1>1 DEF PipelineInit, Filter!Init, Sponge!Init
<1>3. /\ <<>> \in Seq(Byte) /\ <<>> \in Seq(Symbol) /\ <<>> \in Seq(Seq(Byte)) /\ Len(<<>>) = 0
  BY BytesAreSymbols, EmptySeq
<1>4. /\ Len(command.outputs) \in Nat /\ Len(command.inputs) \in Nat
      /\ before = [name \in DOMAIN before |-> before[name]]
      /\ \A name \in DOMAIN before : before[name] \in Seq(Symbol)
  BY <1>2, NamesOf, KeptType, BytesAreSymbols
<1>5. Sent = <<>> /\ Due = <<>>
  <2>1. <<>> \o <<>> = <<>>
    BY <1>3, ConcatEmptySeq
  <2>2. DoneOf(command, <<>>, <<>>) = <<>>
    BY <1>2, <1>3, DoneType
  <2> QED BY <1>2, <2>1, <2>2 DEF Sent, Due
<1>6. ValuesInv
  BY <1>2, <1>3 DEF ValuesInv
<1>7. CountsInv
  <2>1. 0 \in 0..Len(command.outputs) /\ 0 \in 0..Len(command.inputs) /\ 1 \in 1..Final
    BY <1>4 DEF Final
  <2>2. skipped \in BOOLEAN
    BY <1>2
  <2> QED BY <1>2, <2>1, <2>2 DEF CountsInv
<1>8. PlaceInv
  BY <1>2, <1>3, <1>4, <1>5 DEF PlaceInv
<1>9. SpongeInv
  BY <1>2, <1>3 DEF SpongeInv
<1>10. \A name : Untouched(name)
  BY <1>2 DEF Untouched
<1>11. TargetInv /\ InputsInv
  BY <1>2, <1>10 DEF TargetInv, InputsInv
<1>12. FilesInv
  <2>1. FilesHold(Symbol)
    BY <1>2, <1>4 DEF FilesHold
  <2>2. \A i \in 1..Len(command.outputs) : i > opened
    BY <1>2, <1>4
  <2> QED BY <1>10, <2>1, <2>2 DEF FilesInv
<1>13. StdoutInv
  <2>1. IsPrefix(<<>>, <<>>)
    <3>1. IsJoin(<<>>, <<>>, <<>>)
      BY <1>3, JoinNothing
    <3> QED BY <1>3, <3>1, PrefixOfJoin
  <2>2. EndsLine(<<>>) /\ NoLine(<<>>)
    BY <1>3 DEF EndsLine, NoLine
  <2>3. (Sent \o held) \o Rest(Final) = <<>>
    <3>1. Rest(Final) = <<>> /\ held = <<>>
      BY <1>2 DEF Rest
    <3>2. <<>> \o <<>> = <<>>
      BY <1>3, ConcatEmptySeq
    <3> QED BY <1>5, <3>1, <3>2
  <2> QED BY <1>2, <1>5, <2>1, <2>2, <2>3 DEF StdoutInv
<1>14. GotInv
  BY <1>2 DEF GotInv
<1>15. ReadInv /\ InputInv
  <2>1. \A i \in 1..input : FALSE
    BY <1>2
  <2> QED BY <1>2, <2>1 DEF ReadInv, InputInv
<1> QED BY <1>6, <1>7, <1>8, <1>9, <1>11, <1>12, <1>13, <1>14, <1>15 DEF PipelineInv

\* A step that changes nothing.
LEMMA PipelineRests ==
  PipelineInv /\ UNCHANGED pipelineVars => PipelineInv'
<1>1. SUFFICES ASSUME PipelineInv, UNCHANGED pipelineVars PROVE PipelineInv'
  OBVIOUS
<1>2. /\ UNCHANGED <<files, pipe, command, stage, opened, input, position, buffered, lines>>
      /\ UNCHANGED <<writing, next, offset, held, taken, skipped, target, main, buffer, written, before>>
  BY <1>1 DEF pipelineVars
<1>3. /\ (Over' <=> Over) /\ (Alive' <=> Alive) /\ (InStep' <=> InStep) /\ (Shared' <=> Shared)
      /\ Sent' = Sent /\ Due' = Due /\ Final' = Final /\ InputName' = InputName /\ UsedNow' = UsedNow
      /\ Original(input)' = Original(input)
  BY <1>2 DEF Over, Alive, InStep, Shared, Sent, Due, Final, InputName, UsedNow, Original, Kept
<1>4. ASSUME NEW i
      PROVE  /\ OutputName(i)' = OutputName(i) /\ AtStart(i)' = AtStart(i) /\ GotFile(i)' = GotFile(i)
             /\ Rest(i)' = Rest(i) /\ Original(i)' = Original(i)
  BY <1>2 DEF OutputName, AtStart, GotFile, Rest, Original, Kept
<1>5. ASSUME NEW name
      PROVE  (Untouched(name)' <=> Untouched(name)) /\ (Emptied(name)' <=> Emptied(name))
             /\ Kept(name, target.append)' = Kept(name, target.append)
  BY <1>2 DEF Untouched, Emptied, Kept
<1>6. ValuesInv'
  BY <1>1, <1>2 DEF PipelineInv, ValuesInv
<1>7. CountsInv'
  BY <1>1, <1>2, <1>3 DEF PipelineInv, CountsInv
<1>8. PlaceInv'
  BY <1>1, <1>2, <1>3 DEF PipelineInv, PlaceInv
<1>9. SpongeInv'
  BY <1>1, <1>2, <1>3 DEF PipelineInv, SpongeInv
<1>10. TargetInv'
  <2>1. TargetInv
    BY <1>1 DEF PipelineInv
  <2>2. (Untouched(target.name)' <=> Untouched(target.name))
        /\ Kept(target.name, target.append)' = Kept(target.name, target.append)
    BY <1>2 DEF Untouched, Kept
  <2> QED BY <1>2, <2>1, <2>2 DEF TargetInv
<1>11. InputsInv'
  <2>1. \A i \in 1..Len(command.inputs) :
          (Untouched(command.inputs[i])' <=> Untouched(command.inputs[i]))
          /\ (Emptied(command.inputs[i])' <=> Emptied(command.inputs[i]))
    BY <1>2 DEF Untouched, Emptied, Kept
  <2> QED BY <1>1, <1>2, <1>3, <2>1 DEF PipelineInv, InputsInv
<1>12. FilesInv'
  <2>1. FilesHold(Symbol)'
    BY <1>1, <1>2 DEF PipelineInv, FilesInv, FilesHold
  <2>2. \A i : Untouched(OutputName(i))' <=> Untouched(OutputName(i))
    BY <1>2 DEF Untouched, OutputName
  <2> QED BY <1>1, <1>2, <1>4, <2>1, <2>2 DEF PipelineInv, FilesInv
<1>13. StdoutInv'
  <2>1. Rest(Final)' = Rest(Final)
    BY <1>2 DEF Rest, Final
  <2> QED BY <1>1, <1>2, <1>3, <2>1 DEF PipelineInv, StdoutInv
<1>14. GotInv'
  BY <1>1, <1>2, <1>3, <1>4 DEF PipelineInv, GotInv
<1>15. ReadInv'
  BY <1>1, <1>2, <1>3 DEF PipelineInv, ReadInv
<1>16. InputInv'
  BY <1>1, <1>2, <1>3, <1>4 DEF PipelineInv, InputInv
<1> QED BY <1>6, <1>7, <1>8, <1>9, <1>10, <1>11, <1>12, <1>13, <1>14, <1>15, <1>16 DEF PipelineInv

\* Every step keeps the invariant.
LEMMA PipelineSteps ==
  PipelineInv /\ [PipelineNext]_pipelineVars => PipelineInv'
<1>1. ASSUME PipelineInv, Steps PROVE PipelineInv'
  BY <1>1, ValuesStep, CountsStep, PlaceStays, SpongeStays, TargetStays, InputsStay, FilesStay,
     StdoutSteps, GotSteps, ReadStays, OriginalsStay DEF PipelineInv
<1>2. ASSUME PipelineInv, FilterStep PROVE Steps
  <2>1. buffered \in Seq(Byte) /\ taken \in Seq(Seq(Byte)) /\ command \in Commands
    BY <1>2 DEF PipelineInv, ValuesInv
  <2> QED BY <1>2, <2>1, FilterDoes DEF Steps
<1>3. ASSUME SpongeStep PROVE Steps
  BY <1>3, SpongeDoes DEF Steps
<1> QED BY <1>1, <1>2, <1>3, PipelineRests DEF PipelineNext, PipelineEnded

\* The invariant holds in every state.
LEMMA PipelineInvariance == PipelineSpec => []PipelineInv
BY PipelineStarts, PipelineSteps, PTL DEF PipelineSpec

-----------------------------------------------------------------------------
(* In the terms of the model. *)

\* What the program is to make of an input.
LEMMA ReferenceIs ==
  ASSUME command \in Commands, AsDocumented, NEW s \in Seq(Byte)
  PROVE  Filter!Reference(s) = ReferenceOf(command, s)
<1> DEFINE all == Filter!LinesOf(s)
           f == [i \in 1..Len(all) |-> <<Filter!ToString(i)>> \o all[i] \o <<"nl">>]
           g == [i \in 1..Len(all) |-> Filter!CutReference(all[i], command.unit, command.range)]
           h == [i \in 1..Len(all) |-> MadeOf(command, i, all[i])]
<1>1. Filter!Reference(s) = CASE command.program = "number" -> Filter!FlattenSeq(f)
                              [] command.program = "cut" -> Filter!FlattenSeq(g)
                              [] OTHER -> s
  BY DEF Filter!Reference
<1>2. Filter!FlattenSeq(f) = FlattenSeq(f) /\ Filter!FlattenSeq(g) = FlattenSeq(g)
  BY SameOperators
<1>3. LineWise(command) => ReferenceOf(command, s) = FlattenSeq(h)
  BY DEF ReferenceOf, MadeOfLines
<1>4. CASE command.program = "number"
  <2>1. h = f
    BY <1>4 DEF MadeOf
  <2> QED BY <1>1, <1>2, <1>3, <1>4, <2>1 DEF LineWise
<1>5. CASE command.program = "cut"
  <2>1. ASSUME NEW i \in 1..Len(all)
        PROVE  MadeOf(command, i, all[i]) = Filter!CutReference(all[i], command.unit, command.range)
    <3>1. all \in Seq(Seq(Byte))
      BY LinesDefined
    <3>2. all[i] \in Seq(Byte)
      <4> HIDE DEF all
      <4> QED BY <3>1, ElementOfSeq
    <3>3. Filter!CountsFromOne(command.range)
      BY <1>5 DEF AsDocumented
    <3> DEFINE line == all[i]
    <3> HIDE DEF line
    <3>4. Filter!CutLine(line, command.unit, command.range)
            = Filter!CutReference(line, command.unit, command.range)
      BY <3>2, <3>3, CommandParts, CutAgrees DEF line
    <3> QED BY <1>5, <3>4 DEF MadeOf, line
  <2>2. h = g
    BY <2>1
  <2> QED BY <1>1, <1>2, <1>3, <1>5, <2>2 DEF LineWise
<1>6. CASE command.program \notin {"number", "cut"}
  BY <1>1, <1>6 DEF ReferenceOf, LineWise
<1> QED BY <1>4, <1>5, <1>6

\* What has been made so far.
LEMMA DoneIs ==
  ASSUME PipelineInv, AsDocumented
  PROVE  Done = Due
<1>1. command \in Commands /\ taken \in Seq(Seq(Byte)) /\ buffered \in Seq(Byte)
  BY DEF PipelineInv, ValuesInv
<1>2. ASSUME NEW i \in 1..Len(taken)
      PROVE  Filter!Reference(UsedOf(i))
               = ReferenceOf(command, IF i = Len(taken) THEN UsedPart(taken[i], buffered) ELSE taken[i])
  <2>1. taken[i] \in Seq(Byte)
    BY <1>1, ElementOfSeq
  <2>2. UsedPart(taken[i], buffered) \in Seq(Byte)
    BY <1>1, <2>1, UsedType
  <2>3. UsedOf(i) = IF i = Len(taken) THEN UsedPart(taken[i], buffered) ELSE taken[i]
    BY DEF UsedOf, UsedPart
  <2>4. UsedOf(i) \in Seq(Byte)
    BY <2>1, <2>2, <2>3
  <2> QED BY <1>1, <2>3, <2>4, ReferenceIs
<1>3. [i \in 1..Len(taken) |-> Filter!Reference(UsedOf(i))]
        = [i \in 1..Len(taken) |->
             ReferenceOf(command, IF i = Len(taken) THEN UsedPart(taken[i], buffered) ELSE taken[i])]
  BY <1>2
<1> QED BY <1>3 DEF Done, Due, DoneOf

\* What is made when everything has been read.
LEMMA DueIsWanted ==
  ASSUME PipelineInv, AsDocumented, stage = "success", ~skipped, Shared => target.append
  PROVE  Due = Wanted
<1>1. /\ command \in Commands /\ taken \in Seq(Seq(Byte)) /\ before \in FileSystems
      /\ Len(taken) = input /\ input = Len(command.inputs) /\ buffered = <<>>
      /\ \A i \in 1..input : taken[i] = Original(i)
  BY DEF PipelineInv, ValuesInv, PlaceInv, ReadInv, InputInv
<1>2. ASSUME NEW i \in 1..Len(command.inputs)
      PROVE  Filter!Reference(Kept(command.inputs[i], TRUE))
               = ReferenceOf(command, IF i = Len(taken) THEN UsedPart(taken[i], buffered) ELSE taken[i])
  <2> DEFINE o == Original(i)
  <2>1. taken[i] = o /\ o \in Seq(Byte)
    BY <1>1, KeptType DEF Original
  <2> HIDE DEF o
  <2>2. UsedPart(taken[i], buffered) = o
    BY <1>1, <2>1, UsedOfNothing
  <2>3. Filter!Reference(o) = ReferenceOf(command, o)
    BY <1>1, <2>1, ReferenceIs
  <2>4. (IF i = Len(taken) THEN UsedPart(taken[i], buffered) ELSE taken[i]) = o
    BY <2>1, <2>2
  <2> QED BY <2>3, <2>4 DEF o, Original
<1>3. [i \in 1..Len(command.inputs) |-> Filter!Reference(Kept(command.inputs[i], TRUE))]
        = [i \in 1..Len(taken) |->
             ReferenceOf(command, IF i = Len(taken) THEN UsedPart(taken[i], buffered) ELSE taken[i])]
  BY <1>1, <1>2
<1> QED BY <1>3 DEF Wanted, Due, DoneOf

\* sponge: "soaks up all its input": its file stays as it was, or emptied, as long as the
\* filter may still read, and nothing is written before everything has been read.
THEOREM SoaksUpFirstHolds == PipelineSpec => []SoaksUpFirst
<1>1. ASSUME PipelineInv PROVE SoaksUpFirst
  <2>1. ValuesInv /\ CountsInv /\ SpongeInv /\ TargetInv /\ (Filter!Over <=> Over)
        /\ (Sponge!ProcessAlive <=> Alive)
    BY <1>1 DEF PipelineInv, Filter!Over, Over, Sponge!ProcessAlive, Alive
  <2>2. written > 0 => Over /\ pipe = <<>>
    BY <2>1 DEF SpongeInv
  <2>3. ASSUME ~Over, Alive, target.name # "stdout"
        PROVE  \/ target.name \notin DOMAIN files /\ target.name \notin DOMAIN before
               \/ target.name \in DOMAIN files
                    /\ files[target.name] \in
                         {Kept(target.name, TRUE), Kept(target.name, target.append)}
    <3>1. CASE Untouched(target.name)
      BY <3>1 DEF Untouched, Kept
    <3>2. CASE /\ target.name \in DOMAIN files
               /\ files[target.name] = Kept(target.name, target.append) \o SubSeq(buffer, 1, written)
      <4>1. written = 0
        BY <2>1, <2>2, <2>3 DEF CountsInv
      <4>2. SubSeq(buffer, 1, written) = <<>>
        BY <2>1, <4>1, SubSeqEmpty DEF ValuesInv
      <4>3. Kept(target.name, target.append) \in Seq(Symbol)
        BY <2>1, KeptType DEF ValuesInv
      <4>4. files[target.name] = Kept(target.name, target.append)
        BY <3>2, <4>2, <4>3, ConcatEmptySeq
      <4> QED BY <3>2, <4>4
    <3> QED BY <2>1, <2>3, <3>1, <3>2 DEF TargetInv
  <2> QED BY <2>1, <2>2, <2>3 DEF SoaksUpFirst
<1>2. PipelineInv => SoaksUpFirst
  BY <1>1
<1> QED BY <1>2, PipelineInvariance, PTL

\* sponge: when it succeeds, its file holds what it is to keep and everything that the
\* filter has written, which is all that the filter is to make of its inputs if that
\* succeeded, too, passed over nothing, and was not robbed of an input (if cut was given
\* a range that counts from 1).
THEOREM FileIsCompleteHolds == PipelineSpec => []FileIsComplete
<1>1. ASSUME PipelineInv, main = "success", target.name # "stdout"
      PROVE  /\ files[target.name] = Kept(target.name, target.append) \o Sent
             /\ stage = "success" /\ ~skipped /\ (Shared => target.append) /\ AsDocumented =>
                  Sent = Wanted
  <2>1. ValuesInv /\ CountsInv /\ SpongeInv /\ TargetInv /\ StdoutInv
    BY <1>1 DEF PipelineInv
  <2>2. written = Len(buffer) /\ pipe = <<>>
        /\ files[target.name] = Kept(target.name, target.append) \o SubSeq(buffer, 1, written)
    BY <1>1, <2>1 DEF SpongeInv, TargetInv
  <2>3. SubSeq(buffer, 1, written) = buffer /\ Sent = buffer
    <3>1. buffer \in Seq(Symbol)
      BY <2>1 DEF ValuesInv
    <3>2. SubSeq(buffer, 1, Len(buffer)) = buffer
      BY <3>1, SubSeqFull
    <3>3. Sent = buffer
      BY <2>2, <3>1, ConcatEmptySeq DEF Sent
    <3> QED BY <2>2, <3>2, <3>3
  <2>4. files[target.name] = Kept(target.name, target.append) \o Sent
    BY <2>2, <2>3
  <2>5. ASSUME stage = "success", ~skipped, Shared => target.append, AsDocumented
        PROVE  Sent = Wanted
    <3>1. Due = Wanted
      BY <1>1, <2>5, DueIsWanted
    <3>2. Sent = Due
      BY <1>1, <2>1, <2>5 DEF StdoutInv
    <3> QED BY <3>1, <3>2
  <2> QED BY <2>4, <2>5
<1>2. PipelineInv => FileIsComplete
  BY <1>1 DEF FileIsComplete
<1> QED BY <1>2, PipelineInvariance, PTL

\* What the files of tee and stdout have got.
LEMMA GotIs ==
  ASSUME PipelineInv, opened = Len(command.outputs)
  PROVE  /\ Filter!Stdout = Final /\ Final = Len(command.outputs) + 1 /\ Len(command.outputs) \in Nat
         /\ Got(Final) = Sent \o held
         /\ \A i \in 1..Len(command.outputs) :
              /\ Got(i) = GotFile(i) /\ GotFile(i) \in Seq(Symbol) /\ AtStart(i) \in Seq(Symbol)
              /\ IsJoin(files[OutputName(i)], AtStart(i), GotFile(i))
              /\ stage # "failure" => IsJoin(Due, GotFile(i), Rest(i))
              /\ IsPrefix(GotFile(i), Due) /\ Len(GotFile(i)) >= Len(Sent)
<1>1. Len(command.outputs) \in Nat
  BY OutputTypes
<1>2. Filter!Stdout = Final /\ Final = Len(command.outputs) + 1
  BY DEF Filter!Stdout, Final
<1>3. Got(Final) = Sent \o held
  BY <1>2 DEF Got
<1>4. ASSUME NEW i \in 1..Len(command.outputs)
      PROVE  /\ Got(i) = GotFile(i) /\ GotFile(i) \in Seq(Symbol) /\ AtStart(i) \in Seq(Symbol)
             /\ IsJoin(files[OutputName(i)], AtStart(i), GotFile(i))
             /\ stage # "failure" => IsJoin(Due, GotFile(i), Rest(i))
             /\ IsPrefix(GotFile(i), Due) /\ Len(GotFile(i)) >= Len(Sent)
  <2>1. i # Filter!Stdout
    BY <1>1, <1>2
  <2>2. Got(i) = GotFile(i)
    BY <2>1 DEF Got, GotFile, OutputName, AtStart
  <2>3. i \in 1..opened
    OBVIOUS
  <2>4. /\ AtStart(i) \in Seq(Symbol) /\ GotFile(i) \in Seq(Symbol)
        /\ files[OutputName(i)] = AtStart(i) \o GotFile(i)
    BY <2>3, GotType DEF PipelineInv
  <2>5. /\ stage # "failure" => IsJoin(Due, GotFile(i), Rest(i))
        /\ IsPrefix(GotFile(i), Due) /\ Len(GotFile(i)) >= Len(Sent)
    BY <2>3 DEF PipelineInv, GotInv, IsJoin
  <2> QED BY <2>2, <2>4, <2>5 DEF IsJoin
<1> QED BY <1>1, <1>2, <1>3, <1>4

\* What all outputs have when nothing is being written.
LEMMA GotAll ==
  ASSUME PipelineInv, opened = Len(command.outputs), stage \notin {"write", "failure"},
         NEW i \in 1..Len(command.outputs)
  PROVE  Got(i) = Due
<1>1. Rest(i) = <<>>
  BY DEF Rest
<1>2. Got(i) = GotFile(i) /\ GotFile(i) \in Seq(Symbol) /\ IsJoin(Due, GotFile(i), Rest(i))
  BY GotIs
<1> QED BY <1>1, <1>2, JoinNothing

\* tee, cat, cut, pv: whatever fails, each output has a prefix of what is to be made of
\* what was read, the files of tee as much as stdout or more, and all of them everything
\* when the next block is to be read (for every range of cut that counts from 1).
THEOREM OutputsAgreeAlways == PipelineSpec => []OutputsAgree
<1>1. ASSUME PipelineInv, opened = Len(command.outputs), AsDocumented
      PROVE  /\ IsPrefix(Sent, Done)
             /\ \A i \in 1..Len(command.outputs) :
                  /\ IsPrefix(Kept(command.outputs[i], command.append), files[command.outputs[i]])
                  /\ IsPrefix(Got(i), Done)
                  /\ Len(Got(i)) >= Len(Sent)
             /\ stage = "read" /\ Sponge!ProcessAlive => \A i \in 1..Filter!Stdout : Got(i) = Done
  <2>1. Done = Due
    BY <1>1, DoneIs
  <2>2. IsPrefix(Sent, Due)
    BY <1>1 DEF PipelineInv, StdoutInv
  <2>3. ASSUME NEW i \in 1..Len(command.outputs)
        PROVE  /\ IsPrefix(Kept(command.outputs[i], command.append), files[command.outputs[i]])
               /\ IsPrefix(Got(i), Due) /\ Len(Got(i)) >= Len(Sent)
    <3>1. /\ Got(i) = GotFile(i) /\ GotFile(i) \in Seq(Symbol) /\ AtStart(i) \in Seq(Symbol)
          /\ IsJoin(files[OutputName(i)], AtStart(i), GotFile(i))
          /\ IsPrefix(GotFile(i), Due) /\ Len(GotFile(i)) >= Len(Sent)
      BY <1>1, GotIs
    <3>2. IsPrefix(AtStart(i), files[OutputName(i)])
      BY <3>1, PrefixOfJoin
    <3> QED BY <3>1, <3>2 DEF AtStart, OutputName
  <2>4. ASSUME stage = "read", Sponge!ProcessAlive, NEW i \in 1..Filter!Stdout
        PROVE  Got(i) = Due
    <3>1. Filter!Stdout = Final /\ Final = Len(command.outputs) + 1 /\ Len(command.outputs) \in Nat
          /\ Got(Final) = Sent \o held
      BY <1>1, GotIs
    <3>2. CASE i \in 1..Len(command.outputs)
      BY <1>1, <2>4, <3>2, GotAll
    <3>3. CASE i = Final
      <4>1. Due = (Sent \o held) \o Rest(Final) /\ Rest(Final) = <<>>
        BY <1>1, <2>4 DEF PipelineInv, StdoutInv, Over, InStep, Alive, Sponge!ProcessAlive, Rest
      <4>2. Sent \o held \in Seq(Symbol)
        BY <1>1, OutputTypes, ConcatProperties
      <4>3. Due = Sent \o held
        BY <4>1, <4>2, ConcatEmptySeq
      <4> QED BY <3>1, <3>3, <4>3
    <3> QED BY <2>4, <3>1, <3>2, <3>3
  <2> QED BY <2>1, <2>2, <2>3, <2>4
<1>2. PipelineInv => OutputsAgree
  BY <1>1 DEF OutputsAgree
<1> QED BY <1>2, PipelineInvariance, PTL

\* The exit status: success means that an error was passed over, which only cat and cut
\* do, or that everything that was read has been written to every output, but for an
\* unfinished line that a reader which had ended did not want (for every range of cut
\* that counts from 1).
THEOREM SuccessIsCompleteHolds == PipelineSpec => []SuccessIsComplete
<1>1. ASSUME PipelineInv, stage = "success", AsDocumented
      PROVE  \/ skipped /\ command.program \in {"cat", "number", "cut"}
             \/ /\ ~skipped
                /\ ~Shared => Done = Wanted
                /\ \A i \in 1..Len(command.outputs) : Got(i) = Done
                /\ Sent = Done \/ (~Sponge!ProcessAlive /\ IsPrefix(Filter!Flushed(Done), Sent))
  <2>1. PlaceInv /\ StdoutInv /\ Done = Due
    BY <1>1, DoneIs DEF PipelineInv
  <2>2. skipped => command.program \in {"cat", "number", "cut"}
    BY <2>1 DEF PlaceInv
  <2>3. ASSUME ~skipped
        PROVE  /\ ~Shared => Done = Wanted
               /\ \A i \in 1..Len(command.outputs) : Got(i) = Done
               /\ Sent = Done \/ (~Sponge!ProcessAlive /\ IsPrefix(Filter!Flushed(Done), Sent))
    <3>1. ~Shared => Due = Wanted
      BY <1>1, <2>3, DueIsWanted
    <3>2. opened = Len(command.outputs)
      BY <1>1, <2>1 DEF PlaceInv
    <3>3. \A i \in 1..Len(command.outputs) : Got(i) = Due
      BY <1>1, <3>2, GotAll
    <3>4. Sent = Due \/ (main = "failure" /\ Sent = Filter!Flushed(Due))
      BY <1>1, <2>1, <2>3 DEF StdoutInv
    <3>5. IsPrefix(Sent, Sent)
      <4>1. Sent \in Seq(Symbol) /\ <<>> \in Seq(Symbol)
        BY <1>1, OutputTypes, BytesAreSymbols
      <4>2. IsJoin(Sent, Sent, <<>>)
        BY <4>1, JoinNothing
      <4> QED BY <4>1, <4>2, PrefixOfJoin
    <3>6. Sent = Due \/ (~Sponge!ProcessAlive /\ IsPrefix(Filter!Flushed(Due), Sent))
      BY <3>4, <3>5 DEF Sponge!ProcessAlive
    <3> QED BY <2>1, <3>1, <3>3, <3>6
  <2> QED BY <2>2, <2>3
<1>2. PipelineInv => SuccessIsComplete
  BY <1>1 DEF SuccessIsComplete
<1> QED BY <1>2, PipelineInvariance, PTL
=============================================================================
