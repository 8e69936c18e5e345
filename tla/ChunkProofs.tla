---------------------------- MODULE ChunkProofs -----------------------------
(***************************************************************************)
(* Proofs about ChunkedReader and about wc, which counts the chunks: for   *)
(* every input, every chunk size and every way the reads cut the input,    *)
(* the items are those of Split; and for every number of workers, what wc  *)
(* prints is what those items count, cutting no word and no character.     *)
(***************************************************************************)
EXTENDS ChunkedReader, Wc, DataLemmas

USE ChunkAssumption

Inv == TypeOK /\ LeftoverFits /\ NothingLeftBehind

-----------------------------------------------------------------------------
(* Cutting a sequence. *)

\* split_off: what it returns.
LEMMA FromType ==
  ASSUME NEW s \in Seq(Byte), NEW i \in 1..(Len(s) + 1)
  PROVE  From(s, i) \in Seq(Byte) /\ Len(From(s, i)) = Len(s) - i + 1
BY SubSeqProperties DEF From

\* What split_off leaves in place.
LEMMA PrefixType ==
  ASSUME NEW s \in Seq(Byte), NEW i \in 0..Len(s)
  PROVE  SubSeq(s, 1, i) \in Seq(Byte) /\ Len(SubSeq(s, 1, i)) = i
BY SubSeqProperties

\* What push() returns.
LEMMA Pushed ==
  ASSUME NEW s \in Seq(Items), NEW item \in Items
  PROVE  /\ Append(s, item) \in Seq(Items) /\ Append(s, item) # <<>>
         /\ Append(s, item)[Len(Append(s, item))] = item
<1>1. /\ Append(s, item) \in Seq(Items) /\ Len(Append(s, item)) = Len(s) + 1
      /\ Append(s, item)[Len(s) + 1] = item
  BY AppendProperties
<1>2. Append(s, item) # <<>>
  BY <1>1, EmptySeq
<1> QED BY <1>1, <1>2

\* Removing a trailing delimiter leaves a sequence of bytes.
LEMMA StrippedType == \A s \in Seq(Byte) : Stripped(s) \in Seq(Byte)
<1> TAKE s \in Seq(Byte)
<1>1. CASE s = <<>>
  BY <1>1 DEF Stripped
<1>2. CASE s # <<>>
  <2>1. Len(s) - 1 \in 0..Len(s)
    BY <1>2, EmptySeq
  <2> QED BY <2>1, PrefixType DEF Stripped
<1> QED BY <1>1, <1>2

-----------------------------------------------------------------------------

\* ChunkedReader::new satisfies the invariant.
LEMMA InvInit == Init => Inv
<1> SUFFICES ASSUME Init PROVE Inv
  OBVIOUS
<1>1. <<>> \in Seq(Byte) /\ <<>> \in Seq(Items) /\ Len(<<>>) = 0
  BY EmptySeq
<1>2. text \in Seq(Byte)
  BY TextsAssumption DEF Init
<1>3. TypeOK
  <2>1. buf = <<>> /\ Len(<<>>) < MaxChunkSize
    BY <1>1 DEF Init
  <2> QED BY <1>1, <1>2, <2>1 DEF Init, TypeOK
<1>4. LeftoverFits /\ NothingLeftBehind
  BY <1>1 DEF Init, LeftoverFits, NothingLeftBehind
<1> QED BY <1>3, <1>4 DEF Inv

\* A full buffer is cut or bailed out.
LEMMA CutStep ==
  ASSUME Inv, phase = "reading", NEW full \in Seq(Byte), Len(full) = MaxChunkSize,
         NEW unread \in Seq(Byte), source' = unread,
         UNCHANGED <<text, failed>>, Cut(full, unread)
  PROVE  Inv'
<1> USE DEF Inv
<1>1. CASE Deliver(BailOf(full, unread)) /\ UNCHANGED <<input, next_buf>>
  <2> DEFINE item == BailOf(full, unread)
  <2>1. item \in Items /\ item.kind = "bail" /\ item.rest = unread
    BY DEF BailOf, Items
  <2> HIDE DEF item
  <2>2. /\ items' = Append(items, item) /\ phase' = "idle" /\ buf' = <<>>
        /\ input' = input /\ next_buf' = next_buf
    BY <1>1 DEF Deliver, item
  <2>3. items' \in Seq(Items) /\ items' # <<>> /\ items'[Len(items')] = item
    <3>1. items \in Seq(Items)
      BY DEF TypeOK
    <3> QED BY <2>1, <2>2, <3>1, Pushed
  <2>4. TypeOK'
    BY <2>2, <2>3, EmptySeq DEF TypeOK
  <2>5. LeftoverFits' /\ NothingLeftBehind'
    BY <2>1, <2>2, <2>3, EmptySeq DEF LeftoverFits, NothingLeftBehind
  <2> QED BY <2>4, <2>5
<1>2. ASSUME NEW last \in Delims(full),
             Deliver(ItemOf(SubSeq(full, 1, last - 1))),
             next_buf' = From(full, last + 1), input' = TRUE
      PROVE  Inv'
  <2>1. last \in 1..MaxChunkSize /\ MaxChunkSize \in Nat
    BY DEF Delims
  <2>2. next_buf' \in Seq(Byte) /\ Len(next_buf') = MaxChunkSize - last
    BY <1>2, <2>1, FromType
  <2>3. SubSeq(full, 1, last - 1) \in Seq(Byte)
    BY <2>1, PrefixType
  <2>4. ItemOf(SubSeq(full, 1, last - 1)) \in Items
    BY <2>3, EmptySeq DEF ItemOf, Items
  <2>5. /\ items' \in Seq(Items) /\ phase' = "idle" /\ buf' = <<>>
    BY <1>2, <2>4, AppendProperties DEF Deliver, TypeOK
  <2>6. TypeOK'
    BY <1>2, <2>2, <2>5, EmptySeq DEF TypeOK
  <2>7. LeftoverFits' /\ NothingLeftBehind'
    BY <1>2, <2>1, <2>2, <2>5 DEF LeftoverFits, NothingLeftBehind
  <2> QED BY <2>6, <2>7
<1> QED BY <1>1, <1>2 DEF Cut

\* Every step of next() preserves it.
LEMMA InvNext == Inv /\ [Next]_vars => Inv'
<1> SUFFICES ASSUME Inv, [Next]_vars PROVE Inv'
  OBVIOUS
<1> USE DEF Inv
<1>1. CASE Call
  <2>1. /\ buf' = next_buf /\ next_buf' = <<>> /\ ~input' /\ phase' = "reading"
        /\ UNCHANGED <<text, source, items, failed>>
    BY <1>1 DEF Call
  <2>2. /\ <<>> \in Seq(Byte) /\ Len(<<>>) = 0 /\ MaxChunkSize \in Nat \ {0}
        /\ Len(next_buf) \in Nat
    BY EmptySeq DEF TypeOK
  <2>3. TypeOK'
    BY <1>1, <2>1, <2>2 DEF Call, TypeOK, LeftoverFits
  <2>4. LeftoverFits' /\ NothingLeftBehind'
    BY <2>1, <2>2 DEF LeftoverFits, NothingLeftBehind, Space
  <2> QED BY <2>3, <2>4
<1>2. CASE CallAfterEnd
  BY <1>2 DEF CallAfterEnd, TypeOK, LeftoverFits, NothingLeftBehind, Space
<1>3. CASE ReadSome
  <2>1. phase = "reading" /\ UNCHANGED <<text, failed>>
    BY <1>3 DEF ReadSome
  <2>2. PICK n \in 1..Len(source) :
          /\ n <= Space
          /\ source' = From(source, n + 1)
          /\ LET filled == buf \o SubSeq(source, 1, n)
             IN  \/ Len(filled) = MaxChunkSize /\ Cut(filled, From(source, n + 1))
                 \/ /\ Len(filled) # MaxChunkSize
                    /\ buf' = filled
                    /\ UNCHANGED <<input, next_buf, phase, items>>
    BY <1>3 DEF ReadSome
  <2> DEFINE filled == buf \o SubSeq(source, 1, n)
  <2>3. source' \in Seq(Byte)
    BY <2>2, FromType DEF TypeOK
  <2>4. SubSeq(source, 1, n) \in Seq(Byte) /\ Len(SubSeq(source, 1, n)) = n
    BY PrefixType DEF TypeOK
  <2>5. filled \in Seq(Byte) /\ Len(filled) = Len(buf) + n
    BY <2>4, ConcatProperties DEF TypeOK
  <2>6. CASE Len(filled) = MaxChunkSize /\ Cut(filled, From(source, n + 1))
    BY <2>1, <2>2, <2>3, <2>5, <2>6, CutStep
  <2>7. CASE /\ Len(filled) # MaxChunkSize /\ buf' = filled
             /\ UNCHANGED <<input, next_buf, phase, items>>
    <3>1. Len(filled) < MaxChunkSize
      <4>1. Len(buf) \in Nat /\ MaxChunkSize \in Nat /\ n \in Nat
        BY DEF TypeOK
      <4>2. n <= MaxChunkSize - Len(buf)
        BY <2>2 DEF Space
      <4> HIDE DEF filled
      <4> QED BY <2>5, <2>7, <4>1, <4>2
    <3> HIDE DEF filled
    <3>2. TypeOK'
      BY <2>1, <2>3, <2>5, <2>7, <3>1 DEF TypeOK
    <3>3. LeftoverFits' /\ NothingLeftBehind'
      BY <2>1, <2>5, <2>7, <3>1 DEF LeftoverFits, NothingLeftBehind, Space
    <3> QED BY <3>2, <3>3
  <2> QED BY <2>2, <2>6, <2>7
<1>4. CASE ReadNothing
  <2> DEFINE item == ItemOf(Stripped(buf))
  <2>1. item \in Items /\ item.kind = "chunk"
    BY StrippedType, EmptySeq DEF ItemOf, Items, TypeOK
  <2>2. /\ source = <<>> /\ next_buf = <<>> /\ ~input
        /\ items' = Append(items, item) /\ phase' = "idle" /\ buf' = <<>>
        /\ UNCHANGED <<text, source, input, next_buf, failed>>
    BY <1>4 DEF ReadNothing, Deliver, LeftoverFits
  <2> HIDE DEF item
  <2>3. items' \in Seq(Items) /\ items' # <<>> /\ items'[Len(items')] = item
    <3>1. items \in Seq(Items)
      BY DEF TypeOK
    <3> QED BY <2>1, <2>2, <3>1, Pushed
  <2>4. TypeOK'
    BY <2>2, <2>3, EmptySeq DEF TypeOK
  <2>5. LeftoverFits' /\ NothingLeftBehind'
    BY <2>1, <2>2, <2>3, EmptySeq DEF LeftoverFits, NothingLeftBehind
  <2> QED BY <2>4, <2>5
<1>5. CASE ReadError
  BY <1>5, EmptySeq DEF ReadError, TypeOK, LeftoverFits, NothingLeftBehind, Space
<1>6. CASE UNCHANGED vars
  BY <1>6 DEF vars, TypeOK, LeftoverFits, NothingLeftBehind, Space
<1> QED BY <1>1, <1>2, <1>3, <1>4, <1>5, <1>6 DEF Next, Ended

\* The types, and why they hold: the leftover always fits, so that a read is
\* never made with an empty slice; and nothing is left behind at the end.
THEOREM Invariance == Spec => []Inv
BY InvInit, InvNext, PTL DEF Spec

\* The leftover of a cut is shorter than the buffer it is read back into.
THEOREM LeftoverAlwaysFits == Spec => []LeftoverFits
<1>1. Inv => LeftoverFits
  BY DEF Inv
<1> QED BY <1>1, Invariance, PTL

\* The reader gives up its input only at its end, in a bail-out or on an error.
THEOREM NothingIsLeftBehind == Spec => []NothingLeftBehind
<1>1. Inv => NothingLeftBehind
  BY DEF Inv
<1> QED BY <1>1, Invariance, PTL

-----------------------------------------------------------------------------
(* Split, by recursion on the length of the text. *)

\* The last delimiter of a full buffer.
LEMMA LastDelimIsLast ==
  ASSUME NEW t \in Seq(Byte), MaxChunkSize <= Len(t), Delims(Full(t)) # {}
  PROVE  /\ LastDelim(t) \in Delims(Full(t)) /\ LastDelim(t) \in 1..MaxChunkSize
         /\ \A i \in Delims(Full(t)) : i <= LastDelim(t)
<1>1. Len(Full(t)) = MaxChunkSize
  BY CutInTwo DEF Full
<1>2. Delims(Full(t)) \subseteq 1..MaxChunkSize
  BY <1>1 DEF Delims
<1> QED BY <1>2, MaxIsGreatest DEF LastDelim

\* The definition of Split is one by recursion, and gives sequences of items.
LEMMA SplitDefined ==
  /\ \A t \in Seq(Byte) :
       Split[t] = IF Len(t) < MaxChunkSize THEN <<ItemOf(Stripped(t))>>
                  ELSE IF Delims(Full(t)) = {}
                  THEN <<BailOf(Full(t), From(t, MaxChunkSize + 1))>>
                  ELSE <<ItemOf(SubSeq(Full(t), 1, LastDelim(t) - 1))>>
                         \o Split[From(t, LastDelim(t) + 1)]
  /\ \A t \in Seq(Byte) : Split[t] \in Seq(Items)
<1> DEFINE S == Seq(Byte)
           V == Seq(Items)
           Ends(t) == Len(t) < MaxChunkSize \/ Delims(Full(t)) = {}
           First(t) == <<ItemOf(SubSeq(Full(t), 1, LastDelim(t) - 1))>>
           Rest(t) == From(t, LastDelim(t) + 1)
           Tip(t) == IF Len(t) < MaxChunkSize THEN <<ItemOf(Stripped(t))>>
                     ELSE <<BailOf(Full(t), From(t, MaxChunkSize + 1))>>
           size == [t \in S |-> Len(t)]
           Base == {t \in S : Ends(t)}
           base == [t \in Base |-> Tip(t)]
           smaller == [t \in S \ Base |-> Rest(t)]
           step == [t \in S \ Base |-> [v \in V |-> First(t) \o v]]
           Is(f) == f = [t \in S |-> IF Ends(t) THEN Tip(t) ELSE First(t) \o f[Rest(t)]]
<1>1. ASSUME NEW t \in S PROVE Tip(t) \in V
  <2>1. CASE Len(t) < MaxChunkSize
    BY <2>1, StrippedType, EmptySeq DEF ItemOf, Items
  <2>2. CASE ~ (Len(t) < MaxChunkSize)
    <3>1. MaxChunkSize \in 0..Len(t)
      BY <2>2, LenProperties
    <3>2. Full(t) \in S /\ From(t, MaxChunkSize + 1) \in S
      BY <3>1, CutInTwo DEF Full, From
    <3>3. BailOf(Full(t), From(t, MaxChunkSize + 1)) \in Items
      BY <3>2 DEF BailOf, Items
    <3> QED BY <2>2, <3>3, EmptySeq
  <2> QED BY <2>1, <2>2
<1>2. ASSUME NEW t \in S, ~ Ends(t)
      PROVE  First(t) \in V /\ Rest(t) \in S /\ Len(Rest(t)) < Len(t)
  <2>1. Len(t) \in Nat /\ MaxChunkSize <= Len(t) /\ MaxChunkSize \in 0..Len(t)
    BY <1>2, LenProperties
  <2>2. LastDelim(t) \in 1..MaxChunkSize
    BY <1>2, <2>1, LastDelimIsLast
  <2>3. Full(t) \in S /\ Len(Full(t)) = MaxChunkSize
    BY <2>1, CutInTwo DEF Full
  <2>4. SubSeq(Full(t), 1, LastDelim(t) - 1) \in S
    BY <2>2, <2>3, CutInTwo
  <2>5. ItemOf(SubSeq(Full(t), 1, LastDelim(t) - 1)) \in Items
    BY <2>4, EmptySeq DEF ItemOf, Items
  <2>6. Rest(t) \in S /\ Len(Rest(t)) = Len(t) - LastDelim(t)
    BY <2>1, <2>2, CutInTwo DEF From
  <2> QED BY <2>1, <2>2, <2>5, <2>6, EmptySeq
<1>3. Split = CHOOSE f : Is(f)
  BY DEF Split
<1> HIDE DEF V, Ends, First, Rest, Tip
<1>4. RecursionOn(S, V, size, Base, base, smaller, step)
  <2>1. size \in [S -> Nat] /\ Base \in SUBSET S
    BY LenProperties
  <2>2. base \in [Base -> V]
    BY <1>1
  <2>3. /\ smaller \in [S \ Base -> S]
        /\ \A t \in S \ Base : size[smaller[t]] < size[t]
    BY <1>2
  <2>4. ASSUME NEW t \in S \ Base, NEW v \in V PROVE First(t) \o v \in V
    BY <1>2, ConcatProperties DEF V
  <2>5. step \in [S \ Base -> [V -> V]]
    BY <2>4
  <2> HIDE DEF S, size, Base, base, smaller, step
  <2> QED BY <2>1, <2>2, <2>3, <2>5 DEF RecursionOn
<1>5. PICK f \in [S -> V] : Recursive(f, S, Base, base, smaller, step)
  <2> HIDE DEF S, size, Base, base, smaller, step
  <2> QED BY <1>4, RecursiveFunctionExists
<1>6. Is(f)
  <2>1. ASSUME NEW t \in S
        PROVE  f[t] = IF Ends(t) THEN Tip(t) ELSE First(t) \o f[Rest(t)]
    <3>1. CASE Ends(t)
      BY <1>5, <3>1 DEF Recursive
    <3>2. CASE ~ Ends(t)
      <4>1. f[t] = step[t][f[smaller[t]]] /\ smaller[t] = Rest(t) /\ f[Rest(t)] \in V
        BY <1>2, <1>5, <3>2 DEF Recursive
      <4>2. step[t][f[Rest(t)]] = First(t) \o f[Rest(t)]
        BY <3>2, <4>1
      <4> QED BY <3>2, <4>1, <4>2
    <3> QED BY <3>1, <3>2
  <2> HIDE DEF S
  <2> QED BY <1>5, <2>1
<1>7. Is(Split)
  <2> HIDE DEF Is
  <2> QED BY <1>3, <1>6
<1>8. \A t \in S : Split[t] \in V
  <2> DEFINE P == {t \in S : Split[t] \in V}
  <2>1. size \in [S -> Nat]
    BY LenProperties
  <2>2. ASSUME NEW t \in S, \A u \in S : size[u] < size[t] => u \in P
        PROVE  t \in P
    <3>1. CASE Ends(t)
      BY <1>1, <1>7, <3>1
    <3>2. CASE ~ Ends(t)
      <4>1. Rest(t) \in S /\ size[Rest(t)] < size[t]
        BY <1>2, <3>2
      <4>2. Split[Rest(t)] \in V /\ Split[t] = First(t) \o Split[Rest(t)]
        BY <1>7, <2>2, <3>2, <4>1
      <4>3. First(t) \o Split[Rest(t)] \in V
        BY <1>2, <3>2, <4>2, ConcatProperties DEF V
      <4> QED BY <4>2, <4>3
    <3> QED BY <3>1, <3>2
  <2> HIDE DEF P, size, S
  <2>3. \A t \in S : t \in P
    BY <2>1, <2>2, InductionOnSize
  <2> QED BY <2>3 DEF P
<1>9. ASSUME NEW t \in S
      PROVE  Split[t] = IF Len(t) < MaxChunkSize THEN <<ItemOf(Stripped(t))>>
                  ELSE IF Delims(Full(t)) = {}
                  THEN <<BailOf(Full(t), From(t, MaxChunkSize + 1))>>
                  ELSE <<ItemOf(SubSeq(Full(t), 1, LastDelim(t) - 1))>>
                         \o Split[From(t, LastDelim(t) + 1)]
  <2>1. Split[t] = IF Ends(t) THEN Tip(t) ELSE First(t) \o Split[Rest(t)]
    BY <1>7
  <2> QED BY <2>1 DEF Ends, Tip, First, Rest
<1> QED BY <1>8, <1>9 DEF V

-----------------------------------------------------------------------------
(* The items. *)

\* What next() has still to deliver is in the leftover or in the buffer, and in the
\* source.
Ahead == (IF phase = "reading" THEN buf ELSE next_buf) \o source

\* As long as the reader has its input, the items delivered and those of what is
\* ahead are the items of the text; afterwards the former are all of them, or the
\* input was lost in an error.
SplitInv ==
  /\ phase = "reading" \/ input => items \o Split[Ahead] = Split[text]
  /\ phase # "reading" /\ ~input /\ ~failed => items = Split[text]
  /\ input => phase = "idle"
  /\ failed => phase # "reading" /\ ~input
  /\ phase = "none" => ~input
  /\ IsPrefix(items, Split[text])

\* Before the first call nothing has been delivered, and the whole text is ahead.
LEMMA SplitInvInit == Init => SplitInv
<1> SUFFICES ASSUME Init PROVE SplitInv
  OBVIOUS
<1>1. /\ text \in Seq(Byte) /\ Ahead = <<>> \o text /\ items = <<>>
      /\ input /\ phase = "idle" /\ ~failed
  BY TextsAssumption DEF Init, Ahead
<1>2. Ahead = text
  BY <1>1, ConcatEmptySeq
<1>3. Split[text] \in Seq(Items) /\ <<>> \o Split[text] = Split[text] /\ <<>> \in Seq(Items)
  BY <1>1, SplitDefined, ConcatEmptySeq, EmptySeq
<1>4. IsPrefix(<<>>, <<>> \o Split[text])
  BY <1>3, PrefixOfConcat
<1> QED BY <1>1, <1>2, <1>3, <1>4 DEF SplitInv

\* What a full buffer gives: its items, then those of what is left in next_buf and in
\* the source.
LEMMA CutSplits ==
  ASSUME NEW full \in Seq(Byte), Len(full) = MaxChunkSize, NEW unread \in Seq(Byte)
  PROVE  /\ Delims(full) = {} => Split[full \o unread] = <<BailOf(full, unread)>>
         /\ \A last \in Delims(full) :
              (\A i \in Delims(full) : i <= last) =>
                Split[full \o unread] = <<ItemOf(SubSeq(full, 1, last - 1))>>
                                          \o Split[From(full, last + 1) \o unread]
<1> DEFINE t == full \o unread
<1>1. /\ t \in Seq(Byte) /\ Len(t) = MaxChunkSize + Len(unread)
      /\ Len(unread) \in Nat /\ MaxChunkSize <= Len(t) /\ ~ (Len(t) < MaxChunkSize)
  <2>1. t \in Seq(Byte) /\ Len(t) = MaxChunkSize + Len(unread) /\ Len(unread) \in Nat
    BY ConcatProperties, LenProperties
  <2> HIDE DEF t
  <2> QED BY <2>1
<1>2. Full(t) = full /\ From(t, MaxChunkSize + 1) = unread
  <2>1. MaxChunkSize \in 0..Len(full)
    OBVIOUS
  <2>2. /\ SubSeq(t, 1, MaxChunkSize) = SubSeq(full, 1, MaxChunkSize)
        /\ SubSeq(t, MaxChunkSize + 1, Len(t))
             = SubSeq(full, MaxChunkSize + 1, Len(full)) \o unread
    BY <2>1, CutOfConcat
  <2>3. SubSeq(full, 1, MaxChunkSize) = full
    BY SubSeqFull
  <2>4. SubSeq(full, MaxChunkSize + 1, Len(full)) = <<>>
    BY SubSeqEmpty
  <2>5. <<>> \o unread = unread
    BY ConcatEmptySeq
  <2> QED BY <2>2, <2>3, <2>4, <2>5 DEF Full, From
<1>3. CASE Delims(full) = {}
  BY <1>1, <1>2, <1>3, SplitDefined
<1>4. ASSUME NEW last \in Delims(full), \A i \in Delims(full) : i <= last
      PROVE  Split[t] = <<ItemOf(SubSeq(full, 1, last - 1))>>
                          \o Split[From(full, last + 1) \o unread]
  <2>1. last = LastDelim(t)
    <3>1. /\ LastDelim(t) \in Delims(full) /\ LastDelim(t) \in 1..MaxChunkSize
          /\ last <= LastDelim(t)
      <4>1. Delims(Full(t)) # {} /\ last \in Delims(Full(t))
        BY <1>2
      <4> HIDE DEF t
      <4> QED BY <1>1, <1>2, <4>1, LastDelimIsLast
    <3>2. last \in Nat
      BY DEF Delims
    <3> QED BY <1>4, <3>1, <3>2
  <2>2. last \in 0..Len(full)
    BY DEF Delims
  <2>3. From(t, last + 1) = From(full, last + 1) \o unread
    BY <2>2, CutOfConcat DEF From
  <2>4. Split[t] = <<ItemOf(SubSeq(Full(t), 1, LastDelim(t) - 1))>>
                     \o Split[From(t, LastDelim(t) + 1)]
    BY <1>1, <1>2, SplitDefined
  <2> QED BY <1>2, <2>1, <2>3, <2>4
<1> QED BY <1>3, <1>4

\* An item that is delivered is the next one of the text.
LEMMA Delivered ==
  ASSUME TypeOK, SplitInv, phase = "reading", NEW item \in Items, NEW rest \in Seq(Items),
         Split[Ahead] = <<item>> \o rest, items' = Append(items, item)
  PROVE  items' \o rest = Split[text] /\ IsPrefix(items', Split[text])
<1> DEFINE one == <<item>>
<1>1. items \in Seq(Items) /\ one \in Seq(Items)
  BY EmptySeq DEF TypeOK
<1>2. items' = items \o one
  BY <1>1, AppendIsConcat
<1>3. items \o (one \o rest) = Split[text]
  BY DEF SplitInv
<1> HIDE DEF one
<1>4. (items \o one) \o rest = items \o (one \o rest)
  BY <1>1, ConcatAssociative, SMTT(30)
<1>5. items' \in Seq(Items)
  BY <1>1, <1>2, ConcatProperties
<1>6. IsPrefix(items', items' \o rest)
  BY <1>5, PrefixOfConcat
<1> QED BY <1>2, <1>3, <1>4, <1>6

\* A full buffer delivers the next item, and leaves the others ahead.
LEMMA CutKeepsSplit ==
  ASSUME TypeOK, SplitInv, phase = "reading",
         NEW full \in Seq(Byte), Len(full) = MaxChunkSize, NEW unread \in Seq(Byte),
         Ahead = full \o unread, source' = unread, ~input,
         UNCHANGED <<text, failed>>, Cut(full, unread)
  PROVE  SplitInv'
<1>0. <<>> \in Seq(Items) /\ ~failed /\ text' = text /\ failed' = failed
  BY EmptySeq DEF SplitInv
<1>1. ASSUME Delims(full) = {}, Deliver(BailOf(full, unread)), UNCHANGED <<input, next_buf>>
      PROVE  SplitInv'
  <2> DEFINE item == BailOf(full, unread)
  <2>1. item \in Items
    BY DEF BailOf, Items
  <2>2. Split[Ahead] = <<item>>
    BY <1>1, CutSplits
  <2>3. items' = Append(items, item) /\ phase' = "idle" /\ ~input'
    BY <1>1 DEF Deliver
  <2> HIDE DEF item
  <2>4. <<item>> \in Seq(Items) /\ <<item>> = <<item>> \o <<>> /\ items' \in Seq(Items)
    BY <2>1, <2>3, <1>0, ConcatEmptySeq, AppendProperties, EmptySeq DEF TypeOK
  <2>5. items' \o <<>> = Split[text] /\ IsPrefix(items', Split[text])
    BY <1>0, <2>1, <2>2, <2>3, <2>4, Delivered
  <2>6. items' = Split[text]
    BY <2>4, <2>5, ConcatEmptySeq
  <2> QED BY <1>0, <2>3, <2>5, <2>6 DEF SplitInv
<1>2. ASSUME NEW last \in Delims(full), \A i \in Delims(full) : i <= last,
             Deliver(ItemOf(SubSeq(full, 1, last - 1))),
             next_buf' = From(full, last + 1), input' = TRUE
      PROVE  SplitInv'
  <2> DEFINE item == ItemOf(SubSeq(full, 1, last - 1))
             after == From(full, last + 1) \o unread
  <2>1. last \in 1..Len(full)
    BY DEF Delims
  <2>2. SubSeq(full, 1, last - 1) \in Seq(Byte) /\ From(full, last + 1) \in Seq(Byte)
    BY <2>1, CutInTwo DEF From
  <2>3. item \in Items
    BY <2>2, EmptySeq DEF ItemOf, Items
  <2>4. after \in Seq(Byte)
    BY <2>2, ConcatProperties
  <2>5. Split[Ahead] = <<item>> \o Split[after] /\ Split[after] \in Seq(Items)
    BY <1>2, <2>4, CutSplits, SplitDefined
  <2>6. items' = Append(items, item) /\ phase' = "idle" /\ input' /\ Ahead' = after
    BY <1>2 DEF Deliver, Ahead
  <2> HIDE DEF item, after
  <2>7. items' \o Split[after] = Split[text] /\ IsPrefix(items', Split[text])
    BY <2>3, <2>5, <2>6, Delivered
  <2> QED BY <1>0, <2>6, <2>7 DEF SplitInv
<1> QED BY <1>1, <1>2 DEF Cut

\* Every step of next() preserves it.
LEMMA SplitInvNext ==
  ASSUME Inv, SplitInv, [Next]_vars
  PROVE  SplitInv'
<1> USE DEF Inv
<1>0. text \in Seq(Byte) /\ Split[text] \in Seq(Items) /\ items \in Seq(Items)
  BY TextsAssumption, SplitDefined DEF TypeOK
<1>1. CASE Call
  <2>1. Ahead' = Ahead /\ phase' = "reading" /\ ~input' /\ UNCHANGED <<text, items, failed>>
    BY <1>1 DEF Call, Ahead
  <2> QED BY <1>1, <2>1 DEF SplitInv, Call
<1>2. CASE CallAfterEnd
  BY <1>2 DEF CallAfterEnd, SplitInv
<1>3. CASE ReadSome
  <2>1. phase = "reading" /\ ~input /\ UNCHANGED <<text, failed>>
    BY <1>3 DEF ReadSome, LeftoverFits
  <2>2. PICK n \in 1..Len(source) :
          /\ n <= Space
          /\ source' = From(source, n + 1)
          /\ LET filled == buf \o SubSeq(source, 1, n)
             IN  \/ Len(filled) = MaxChunkSize /\ Cut(filled, From(source, n + 1))
                 \/ /\ Len(filled) # MaxChunkSize
                    /\ buf' = filled
                    /\ UNCHANGED <<input, next_buf, phase, items>>
    BY <1>3 DEF ReadSome
  <2> DEFINE got == SubSeq(source, 1, n)
             filled == buf \o got
  <2>3. /\ got \in Seq(Byte) /\ source' \in Seq(Byte) /\ got \o source' = source
        /\ buf \in Seq(Byte) /\ source \in Seq(Byte)
    BY <2>2, CutInTwo DEF From, TypeOK
  <2> HIDE DEF got
  <2>4. filled \in Seq(Byte) /\ Ahead = filled \o source'
    <3>1. filled \in Seq(Byte)
      BY <2>3, ConcatProperties
    <3>2. \A x, y, z \in Seq(Byte) : (x \o y) \o z = x \o (y \o z)
      BY ConcatAssociative, SMTT(30)
    <3>3. Ahead = buf \o source
      BY <2>1 DEF Ahead
    <3>4. (buf \o got) \o source' = buf \o (got \o source')
      BY <2>3, <3>2, ZenonT(30)
    <3> QED BY <2>3, <3>1, <3>3, <3>4
  <2>5. CASE Len(filled) = MaxChunkSize /\ Cut(filled, From(source, n + 1))
    <3> HIDE DEF filled
    <3> QED BY <2>1, <2>2, <2>3, <2>4, <2>5, CutKeepsSplit
  <2>6. CASE buf' = filled /\ UNCHANGED <<input, next_buf, phase, items>>
    <3>1. Ahead' = Ahead
      BY <2>1, <2>4, <2>6 DEF Ahead
    <3> QED BY <2>1, <2>6, <3>1 DEF SplitInv
  <2> QED BY <2>2, <2>5, <2>6 DEF got
<1>4. CASE ReadNothing
  <2> DEFINE item == ItemOf(Stripped(buf))
  <2>1. /\ phase = "reading" /\ ~input /\ source = <<>> /\ items' = Append(items, item)
        /\ phase' = "idle" /\ UNCHANGED <<text, input, failed>>
    BY <1>4 DEF ReadNothing, Deliver, LeftoverFits
  <2>2. item \in Items
    BY StrippedType, EmptySeq DEF ItemOf, Items, TypeOK
  <2>3. Ahead = buf /\ Split[buf] = <<item>>
    <3>1. buf \in Seq(Byte) /\ Len(buf) < MaxChunkSize
      BY DEF TypeOK
    <3>2. Ahead = buf
      BY <2>1, <3>1, ConcatEmptySeq DEF Ahead
    <3> QED BY <3>1, <3>2, SplitDefined
  <2> HIDE DEF item
  <2>4. /\ <<item>> \in Seq(Items) /\ <<item>> = <<item>> \o <<>> /\ <<>> \in Seq(Items)
        /\ items' \in Seq(Items)
    BY <1>0, <2>1, <2>2, ConcatEmptySeq, AppendProperties, EmptySeq
  <2>5. items' \o <<>> = Split[text] /\ IsPrefix(items', Split[text])
    BY <2>1, <2>2, <2>3, <2>4, Delivered
  <2>6. items' = Split[text]
    BY <2>4, <2>5, ConcatEmptySeq
  <2> QED BY <2>1, <2>5, <2>6 DEF SplitInv
<1>5. CASE ReadError
  BY <1>5 DEF ReadError, SplitInv, LeftoverFits
<1>6. CASE UNCHANGED vars
  BY <1>6 DEF vars, SplitInv, Ahead
<1> QED BY <1>1, <1>2, <1>3, <1>4, <1>5, <1>6 DEF Next, Ended

\* The items do not depend on how the reads cut the input: they are those of Split,
\* in order, and when next() returns None without an error before, all of them.
THEOREM ItemsDoNotDependOnReads == Spec => []ItemsAsSplit
<1>1. SplitInv => ItemsAsSplit
  BY DEF SplitInv, ItemsAsSplit
<1> QED BY <1>1, Invariance, SplitInvInit, SplitInvNext, PTL DEF Spec

-----------------------------------------------------------------------------
(* wc: sums and counts. *)

Counters == [Counter -> Nat]

\* The counts of all of the jobs together.
CountsIn(jobs) == Sum([i \in 1..Len(jobs) |-> Count(jobs[i])])

\* The jobs that texts are cut into, one text after the other.
JobsOf(texts) == FlattenSeq([i \in 1..Len(texts) |-> Split[texts[i]]])

-----------------------------------------------------------------------------
(* Folds from the left. *)

\* The numbers before the last of a prefix of the numbers are the shorter prefix.
LEMMA LastOfPrefix ==
  ASSUME NEW k \in Nat
  PROVE  /\ Max(1..(k + 1)) = k + 1 /\ (1..(k + 1)) \ {k + 1} = 1..k
         /\ 1..(k + 1) # {} /\ 1..0 = {}
<1> DEFINE T == 1..(k + 1)
<1>1. T \subseteq 0..(k + 1) /\ k + 1 \in T /\ k + 1 \in Nat
  OBVIOUS
<1>2. \A y \in T : y <= k + 1
  OBVIOUS
<1> HIDE DEF T
<1>3. Max(T) \in T /\ \A y \in T : y <= Max(T)
  BY <1>1, MaxIsGreatest
<1> DEFINE m == Max(T)
<1>4. m \in T /\ \A y \in T : y <= m
  BY <1>3
<1> HIDE DEF m
<1>5. m \in Nat /\ m <= k + 1 /\ k + 1 <= m
  BY <1>1, <1>2, <1>4
<1>6. Max(T) = k + 1
  BY <1>5 DEF m
<1>7. (1..(k + 1)) \ {k + 1} = 1..k /\ 1..0 = {}
  OBVIOUS
<1>8. Max(1..(k + 1)) = k + 1 /\ 1..(k + 1) # {}
  BY <1>1, <1>6 DEF T
<1> QED BY <1>7, <1>8

\* What a fold of the elements 1..n of a sequence computes for their subsets, as long as
\* it stays in V.
FoldBy(f, n, V, base, step) ==
  /\ f[{}] = base
  /\ \A s \in SUBSET (1..n) :
       s # {} /\ f[s \ {Max(s)}] \in V => f[s] = step[Max(s)][f[s \ {Max(s)}]]

\* There is such a function.
LEMMA FoldExists ==
  ASSUME NEW V, NEW n \in Nat, NEW base \in V, NEW step \in [1..n -> [V -> V]]
  PROVE  \E f \in [SUBSET (1..n) -> V] : FoldBy(f, n, V, base, step)
<1> DEFINE D == SUBSET (1..n)
           size == [s \in D |-> Cardinality(s)]
           Base == {{}}
           first == [s \in Base |-> base]
           smaller == [s \in D \ Base |-> s \ {Max(s)}]
           next == [s \in D \ Base |-> step[Max(s)]]
<1>1. ASSUME NEW s \in D \ Base PROVE Max(s) \in s /\ Max(s) \in 1..n
  <2>1. s \subseteq 0..n /\ s # {}
    OBVIOUS
  <2> QED BY <2>1, MaxIsGreatest
<1>2. IsFiniteSet(1..n)
  BY FS_Interval
<1>3. size \in [D -> Nat] /\ Base \in SUBSET D /\ first \in [Base -> V]
  <2>1. \A s \in D : Cardinality(s) \in Nat
    BY <1>2, FS_Subset, FS_CardinalityType
  <2> QED BY <2>1
<1>4. smaller \in [D \ Base -> D]
  OBVIOUS
<1>5. ASSUME NEW s \in D \ Base PROVE size[smaller[s]] < size[s]
  <2>1. IsFiniteSet(s) /\ Max(s) \in s /\ Cardinality(s) \in Nat
    BY <1>1, <1>2, FS_Subset, FS_CardinalityType
  <2>2. Cardinality(s \ {Max(s)}) = Cardinality(s) - 1
    BY <2>1, FS_RemoveElement
  <2>3. smaller[s] = s \ {Max(s)} /\ smaller[s] \in D
    OBVIOUS
  <2> QED BY <2>1, <2>2, <2>3
<1>6. next \in [D \ Base -> [V -> V]]
  BY <1>1
<1>7. RecursionOn(D, V, size, Base, first, smaller, next)
  <2> HIDE DEF D, size, Base, first, smaller, next
  <2> QED BY <1>3, <1>4, <1>5, <1>6 DEF RecursionOn
<1>8. PICK f \in [D -> V] : Recursive(f, D, Base, first, smaller, next)
  <2> HIDE DEF D, size, Base, first, smaller, next
  <2> QED BY <1>7, RecursiveFunctionExists
<1>9. f[{}] = base
  <2>1. {} \in D /\ {} \in Base /\ first[{}] = base
    OBVIOUS
  <2> HIDE DEF D, Base, first
  <2> QED BY <1>8, <2>1 DEF Recursive
<1>10. ASSUME NEW s \in D, s # {} PROVE f[s] = step[Max(s)][f[s \ {Max(s)}]]
  <2>1. f[s] = IF s \in Base THEN first[s] ELSE next[s][f[smaller[s]]]
    BY <1>8 DEF Recursive
  <2>2. s \in D \ Base /\ smaller[s] = s \ {Max(s)} /\ next[s] = step[Max(s)]
    BY <1>10
  <2> QED BY <2>1, <2>2
<1> QED BY <1>8, <1>9, <1>10 DEF FoldBy

\* Each value is computed from the one before.
StepBy(h, n, base, step) == h[0] = base /\ \A k \in 1..n : h[k] = step[k][h[k - 1]]

\* What is computed for the prefixes of the sequence, one after the other.
LEMMA FoldOfPrefixes ==
  ASSUME NEW V, NEW n \in Nat, NEW base \in V, NEW step \in [1..n -> [V -> V]],
         NEW g, FoldBy(g, n, V, base, step)
  PROVE  \E h \in [0..n -> V] : StepBy(h, n, base, step) /\ h[n] = g[1..n]
<1> DEFINE h == [k \in 0..n |-> g[1..k]]
<1>1. h[0] = base
  <2>1. 1..0 = {} /\ 0 \in 0..n
    OBVIOUS
  <2> QED BY <2>1 DEF FoldBy
<1>2. ASSUME NEW k \in 1..n, h[k - 1] \in V PROVE h[k] = step[k][h[k - 1]]
  <2>1. k - 1 \in Nat /\ k = (k - 1) + 1 /\ k \in 0..n /\ k - 1 \in 0..n
    OBVIOUS
  <2>2. Max(1..k) = k /\ (1..k) \ {k} = 1..(k - 1) /\ 1..k # {}
    BY <2>1, LastOfPrefix
  <2>3. 1..k \in SUBSET (1..n) /\ g[1..(k - 1)] \in V
    BY <1>2, <2>1
  <2>4. g[1..k] = step[k][g[1..(k - 1)]]
    BY <2>2, <2>3 DEF FoldBy
  <2> QED BY <2>1, <2>4
<1> DEFINE P == {k \in Nat : k <= n => h[k] \in V}
<1>3. \A k \in Nat : k \in P
  <2> HIDE DEF h
  <2>1. 0 \in P
    BY <1>1
  <2>2. ASSUME NEW k \in Nat, k \in P PROVE k + 1 \in P
    <3>1. SUFFICES ASSUME k + 1 <= n PROVE h[k + 1] \in V
      OBVIOUS
    <3>2. k + 1 \in 1..n /\ h[k] \in V /\ (k + 1) - 1 = k
      BY <2>2, <3>1
    <3> QED BY <1>2, <3>2
  <2> HIDE DEF P
  <2> QED BY <2>1, <2>2, Induction
<1>4. h = [k \in 0..n |-> h[k]] /\ n \in 0..n /\ h[n] = g[1..n]
  OBVIOUS
<1> HIDE DEF h
<1>5. \A k \in 0..n : h[k] \in V
  BY <1>3
<1>6. \A k \in 1..n : h[k] = step[k][h[k - 1]]
  <2>1. \A k \in 1..n : k - 1 \in 0..n
    OBVIOUS
  <2> QED BY <1>2, <1>5, <2>1
<1>7. h \in [0..n -> V]
  BY <1>4, <1>5
<1> QED BY <1>1, <1>4, <1>6, <1>7 DEF StepBy

\* Each number is the one before and what is added.
Chain(f, s, n) == f[0] = Zero /\ \A k \in 1..n : f[k] = Add(f[k - 1], s[k])

\* Sum adds up from the first to the last.
LEMMA SumChain ==
  ASSUME NEW s \in Seq(Counters)
  PROVE  \E f \in [0..Len(s) -> Counters] : Chain(f, s, Len(s)) /\ Sum(s) = f[Len(s)]
<1> DEFINE n == Len(s)
           D == SUBSET (1..n)
           step == [k \in 1..n |-> [v \in Counters |-> Add(v, s[k])]]
           Is(f) == f = [x \in D |-> IF x = {} THEN Zero
                                     ELSE LET k == Max(x) IN Add(f[x \ {k}], s[k])]
           sums == CHOOSE g : Is(g)
<1>1. n \in Nat /\ Zero \in Counters /\ \A k \in 1..n : s[k] \in Counters
  BY LenProperties, ElementOfSeq DEF Zero, Counters
<1>2. step \in [1..n -> [Counters -> Counters]]
  BY <1>1 DEF Add, Counters
<1>3. ASSUME NEW x \in D, x # {} PROVE Max(x) \in 1..n /\ x \ {Max(x)} \in D
  <2>1. x \subseteq 0..n
    OBVIOUS
  <2> HIDE DEF n
  <2> QED BY <1>1, <1>3, <2>1, MaxIsGreatest
<1>4. ASSUME NEW x \in D, x # {}, NEW v \in Counters PROVE step[Max(x)][v] = Add(v, s[Max(x)])
  BY <1>3, <1>4
<1>5. \E f : Is(f)
  <2> HIDE DEF n, step
  <2>1. PICK f \in [D -> Counters] : FoldBy(f, n, Counters, Zero, step)
    BY <1>1, <1>2, FoldExists
  <2>2. ASSUME NEW x \in D, x # {} PROVE f[x] = Add(f[x \ {Max(x)}], s[Max(x)])
    <3>1. f[x \ {Max(x)}] \in Counters
      BY <1>3, <2>1, <2>2
    <3> QED BY <1>4, <2>1, <2>2, <3>1 DEF FoldBy
  <2> HIDE DEF D
  <2>3. Is(f)
    BY <2>1, <2>2 DEF FoldBy
  <2> QED BY <2>3
<1>6. Is(sums)
  <2> HIDE DEF Is
  <2> QED BY <1>5
<1>7. Sum(s) = sums[1..n]
  <2>1. DOMAIN s = 1..n
    BY LenProperties
  <2> QED BY <2>1 DEF Sum, FoldLeft, MapThenFoldSet
<1> HIDE DEF sums
<1>8. FoldBy(sums, n, Counters, Zero, step)
  <2>1. {} \in D
    OBVIOUS
  <2>2. /\ sums[{}] = Zero
        /\ \A x \in D : x # {} => sums[x] = Add(sums[x \ {Max(x)}], s[Max(x)])
    <3> HIDE DEF D
    <3> QED BY <1>6, <2>1
  <2>3. ASSUME NEW x \in D, x # {}, sums[x \ {Max(x)}] \in Counters
        PROVE  sums[x] = step[Max(x)][sums[x \ {Max(x)}]]
    <3> HIDE DEF D, step
    <3> QED BY <1>4, <2>2, <2>3
  <2> HIDE DEF step
  <2> QED BY <2>2, <2>3 DEF FoldBy
<1>9. PICK h \in [0..n -> Counters] : StepBy(h, n, Zero, step) /\ h[n] = sums[1..n]
  <2> HIDE DEF n, step
  <2> QED BY <1>1, <1>2, <1>8, FoldOfPrefixes
<1>10. ASSUME NEW k \in 1..n PROVE h[k] = Add(h[k - 1], s[k])
  <2>1. k - 1 \in 0..n
    BY <1>1
  <2> HIDE DEF n
  <2>2. h[k - 1] \in Counters
    BY <2>1
  <2> QED BY <1>9, <2>2 DEF StepBy
<1> HIDE DEF step
<1> QED BY <1>7, <1>9, <1>10 DEF Chain, StepBy

\* Two sums that are added up alike are the same.
LEMMA ChainsAgree ==
  \A n \in Nat : \A s, r, f, g :
    Chain(f, s, n) /\ Chain(g, r, n) /\ (\A k \in 1..n : s[k] = r[k]) => f[n] = g[n]
<1> SUFFICES ASSUME NEW n \in Nat, NEW s, NEW r, NEW f, NEW g,
                    Chain(f, s, n), Chain(g, r, n), \A k \in 1..n : s[k] = r[k]
             PROVE  f[n] = g[n]
  OBVIOUS
<1> USE DEF Chain
<1> DEFINE P == {k \in Nat : k <= n => f[k] = g[k]}
<1>1. 0 \in P
  OBVIOUS
<1>2. ASSUME NEW k \in Nat, k \in P PROVE k + 1 \in P
  <2>1. SUFFICES ASSUME k + 1 <= n PROVE f[k + 1] = g[k + 1]
    OBVIOUS
  <2>2. k + 1 \in 1..n /\ f[k] = g[k] /\ (k + 1) - 1 = k
    BY <1>2, <2>1
  <2>3. f[k + 1] = Add(f[k], s[k + 1]) /\ g[k + 1] = Add(g[k], r[k + 1])
    BY <2>2
  <2> QED BY <2>2, <2>3
<1> HIDE DEF P
<1>3. \A k \in Nat : k \in P
  BY <1>1, <1>2, Induction
<1> QED BY <1>3 DEF P

\* The sum of nothing, and of one more.
LEMMA SumAppend ==
  /\ Sum(<<>>) = Zero
  /\ \A s \in Seq(Counters) : Sum(s) \in Counters
  /\ \A s \in Seq(Counters), x \in Counters : Sum(Append(s, x)) = Add(Sum(s), x)
<1>1. ASSUME NEW s \in Seq(Counters), NEW x \in Counters
      PROVE  Sum(Append(s, x)) = Add(Sum(s), x)
  <2> DEFINE r == Append(s, x)
             n == Len(s)
  <2>1. /\ r \in Seq(Counters) /\ Len(r) = n + 1 /\ r[n + 1] = x /\ n \in Nat
        /\ \A k \in 1..n : s[k] = r[k]
    BY AppendProperties, LenProperties
  <2> HIDE DEF r
  <2>2. PICK f \in [0..n -> Counters] :
          Chain(f, s, n) /\ Sum(s) = f[n]
    BY SumChain
  <2>3. PICK g \in [0..Len(r) -> Counters] :
          Chain(g, r, Len(r)) /\ Sum(r) = g[Len(r)]
    BY <2>1, SumChain
  <2> HIDE DEF n
  <2>4. Chain(g, r, n) /\ g[n + 1] = Add(g[n], r[n + 1])
    <3>1. 1..n \subseteq 1..(n + 1) /\ n + 1 \in 1..(n + 1) /\ (n + 1) - 1 = n
      BY <2>1
    <3> QED BY <2>1, <2>3, <3>1 DEF Chain
  <2>5. f[n] = g[n]
    <3>1. n \in Nat /\ Chain(f, s, n) /\ Chain(g, r, n)
      BY <2>1, <2>2, <2>4
    <3>2. \A k \in 1..n : s[k] = r[k]
      BY <2>1
    <3> QED BY <3>1, <3>2, ChainsAgree
  <2> QED BY <2>1, <2>2, <2>3, <2>4, <2>5 DEF r
<1>2. <<>> \in Seq(Counters) /\ Len(<<>>) = 0
  BY EmptySeq
<1>3. Sum(<<>>) = Zero
  BY <1>2, SumChain DEF Chain
<1>4. ASSUME NEW s \in Seq(Counters) PROVE Sum(s) \in Counters
  <2>1. Len(s) \in 0..Len(s)
    BY LenProperties
  <2> QED BY <2>1, SumChain
<1> QED BY <1>1, <1>3, <1>4

\* The same for numbers.
NumberChain(f, s, n) == f[0] = 0 /\ \A k \in 1..n : f[k] = f[k - 1] + s[k]

\* So does a fold of numbers.
LEMMA NumbersChain ==
  ASSUME NEW s \in Seq(Nat)
  PROVE  \E f \in [0..Len(s) -> Nat] : NumberChain(f, s, Len(s)) /\ FoldLeft(+, 0, s) = f[Len(s)]
<1> DEFINE n == Len(s)
           D == SUBSET (1..n)
           step == [k \in 1..n |-> [v \in Nat |-> v + s[k]]]
           Is(f) == f = [x \in D |-> IF x = {} THEN 0
                                     ELSE LET k == Max(x) IN f[x \ {k}] + s[k]]
           sums == CHOOSE g : Is(g)
<1>1. n \in Nat /\ 0 \in Nat /\ \A k \in 1..n : s[k] \in Nat
  BY LenProperties, ElementOfSeq
<1>2. step \in [1..n -> [Nat -> Nat]]
  BY <1>1
<1>3. ASSUME NEW x \in D, x # {} PROVE Max(x) \in 1..n /\ x \ {Max(x)} \in D
  <2>1. x \subseteq 0..n
    OBVIOUS
  <2> HIDE DEF n
  <2> QED BY <1>1, <1>3, <2>1, MaxIsGreatest
<1>4. ASSUME NEW x \in D, x # {}, NEW v \in Nat PROVE step[Max(x)][v] = v + s[Max(x)]
  BY <1>3, <1>4
<1>5. \E f : Is(f)
  <2> HIDE DEF n, step
  <2>1. PICK f \in [D -> Nat] : FoldBy(f, n, Nat, 0, step)
    BY <1>1, <1>2, FoldExists
  <2>2. ASSUME NEW x \in D, x # {} PROVE f[x] = f[x \ {Max(x)}] + s[Max(x)]
    <3>1. f[x \ {Max(x)}] \in Nat
      BY <1>3, <2>1, <2>2
    <3> QED BY <1>4, <2>1, <2>2, <3>1 DEF FoldBy
  <2> HIDE DEF D
  <2>3. Is(f)
    BY <2>1, <2>2 DEF FoldBy
  <2> QED BY <2>3
<1>6. Is(sums)
  <2> HIDE DEF Is
  <2> QED BY <1>5
<1>7. FoldLeft(+, 0, s) = sums[1..n]
  <2>1. DOMAIN s = 1..n
    BY LenProperties
  <2> QED BY <2>1 DEF FoldLeft, MapThenFoldSet
<1> HIDE DEF sums
<1>8. FoldBy(sums, n, Nat, 0, step)
  <2>1. {} \in D
    OBVIOUS
  <2>2. /\ sums[{}] = 0
        /\ \A x \in D : x # {} => sums[x] = sums[x \ {Max(x)}] + s[Max(x)]
    <3> HIDE DEF D
    <3> QED BY <1>6, <2>1
  <2>3. ASSUME NEW x \in D, x # {}, sums[x \ {Max(x)}] \in Nat
        PROVE  sums[x] = step[Max(x)][sums[x \ {Max(x)}]]
    <3> HIDE DEF D, step
    <3> QED BY <1>4, <2>2, <2>3
  <2> HIDE DEF step
  <2> QED BY <2>2, <2>3 DEF FoldBy
<1>9. PICK h \in [0..n -> Nat] : StepBy(h, n, 0, step) /\ h[n] = sums[1..n]
  <2> HIDE DEF n, step
  <2> DEFINE zero == 0
             V == Nat
  <2>1. zero \in V /\ step \in [1..n -> [V -> V]] /\ FoldBy(sums, n, V, zero, step)
    BY <1>1, <1>2, <1>8
  <2> HIDE DEF zero, V
  <2>2. \E h \in [0..n -> V] : StepBy(h, n, zero, step) /\ h[n] = sums[1..n]
    BY <1>1, <2>1, FoldOfPrefixes
  <2> QED BY <2>2 DEF zero, V
<1>10. ASSUME NEW k \in 1..n PROVE h[k] = h[k - 1] + s[k]
  <2>1. k - 1 \in 0..n
    BY <1>1
  <2> HIDE DEF n
  <2>2. h[k - 1] \in Nat
    BY <2>1
  <2> QED BY <1>9, <2>2 DEF StepBy
<1> HIDE DEF step
<1> QED BY <1>7, <1>9, <1>10 DEF NumberChain, StepBy

\* Two such sums are the same.
LEMMA NumberChainsAgree ==
  \A n \in Nat : \A s, r, f, g :
    NumberChain(f, s, n) /\ NumberChain(g, r, n) /\ (\A k \in 1..n : s[k] = r[k]) => f[n] = g[n]
<1> SUFFICES ASSUME NEW n \in Nat, NEW s, NEW r, NEW f, NEW g,
                    NumberChain(f, s, n), NumberChain(g, r, n), \A k \in 1..n : s[k] = r[k]
             PROVE  f[n] = g[n]
  OBVIOUS
<1> USE DEF NumberChain
<1> DEFINE P == {k \in Nat : k <= n => f[k] = g[k]}
<1>1. 0 \in P
  OBVIOUS
<1>2. ASSUME NEW k \in Nat, k \in P PROVE k + 1 \in P
  <2>1. SUFFICES ASSUME k + 1 <= n PROVE f[k + 1] = g[k + 1]
    OBVIOUS
  <2>2. k + 1 \in 1..n /\ f[k] = g[k] /\ (k + 1) - 1 = k
    BY <1>2, <2>1
  <2>3. f[k + 1] = f[k] + s[k + 1] /\ g[k + 1] = g[k] + r[k + 1]
    BY <2>2
  <2> QED BY <2>2, <2>3
<1> HIDE DEF P
<1>3. \A k \in Nat : k \in P
  BY <1>1, <1>2, Induction
<1> QED BY <1>3 DEF P

\* The sum of no numbers, and of one more.
LEMMA NumbersAppend ==
  /\ FoldLeft(+, 0, <<>>) = 0
  /\ \A s \in Seq(Nat) : FoldLeft(+, 0, s) \in Nat
  /\ \A s \in Seq(Nat), x \in Nat : FoldLeft(+, 0, Append(s, x)) = FoldLeft(+, 0, s) + x
<1>1. ASSUME NEW s \in Seq(Nat), NEW x \in Nat
      PROVE  FoldLeft(+, 0, Append(s, x)) = FoldLeft(+, 0, s) + x
  <2> DEFINE r == Append(s, x)
             n == Len(s)
  <2>1. /\ r \in Seq(Nat) /\ Len(r) = n + 1 /\ r[n + 1] = x /\ n \in Nat
        /\ \A k \in 1..n : s[k] = r[k]
    BY AppendProperties, LenProperties
  <2> HIDE DEF r
  <2>2. PICK f \in [0..n -> Nat] : NumberChain(f, s, n) /\ FoldLeft(+, 0, s) = f[n]
    BY NumbersChain
  <2>3. PICK g \in [0..Len(r) -> Nat] :
          NumberChain(g, r, Len(r)) /\ FoldLeft(+, 0, r) = g[Len(r)]
    BY <2>1, NumbersChain
  <2> HIDE DEF n
  <2>4. NumberChain(g, r, n) /\ g[n + 1] = g[n] + r[n + 1]
    <3>1. 1..n \subseteq 1..(n + 1) /\ n + 1 \in 1..(n + 1) /\ (n + 1) - 1 = n
      BY <2>1
    <3> QED BY <2>1, <2>3, <3>1 DEF NumberChain
  <2>5. f[n] = g[n]
    <3>1. n \in Nat /\ NumberChain(f, s, n) /\ NumberChain(g, r, n)
      BY <2>1, <2>2, <2>4
    <3>2. \A k \in 1..n : s[k] = r[k]
      BY <2>1
    <3> QED BY <3>1, <3>2, NumberChainsAgree
  <2> QED BY <2>1, <2>2, <2>3, <2>4, <2>5 DEF r
<1>2. <<>> \in Seq(Nat) /\ Len(<<>>) = 0
  BY EmptySeq
<1>3. FoldLeft(+, 0, <<>>) = 0
  BY <1>2, NumbersChain DEF NumberChain
<1>4. ASSUME NEW s \in Seq(Nat) PROVE FoldLeft(+, 0, s) \in Nat
  <2>1. Len(s) \in 0..Len(s)
    BY LenProperties
  <2> QED BY <2>1, NumbersChain
<1> QED BY <1>1, <1>3, <1>4

-----------------------------------------------------------------------------
(* The characters. *)

Char == Byte \cup {"panic"}

\* The number of bytes of a character.
LEMMA WidthType == \A b \in Byte : Width(b) \in {0, 1, 2}
BY DEF Width

\* The definition of Chars is one by recursion, and gives sequences of first bytes, and
\* of panics.
LEMMA CharsDefined ==
  /\ \A data \in Seq(Byte) :
       Chars[data] = IF data = <<>> THEN <<>>
                     ELSE IF Width(data[1]) \notin 1..Len(data) THEN <<"panic">>
                     ELSE <<data[1]>> \o Chars[From(data, Width(data[1]) + 1)]
  /\ \A data \in Seq(Byte) : Chars[data] \in Seq(Char)
<1> DEFINE S == Seq(Byte)
           V == Seq(Char)
           Ends(t) == t = <<>> \/ Width(t[1]) \notin 1..Len(t)
           First(t) == <<t[1]>>
           Rest(t) == From(t, Width(t[1]) + 1)
           Tip(t) == IF t = <<>> THEN <<>> ELSE <<"panic">>
           size == [t \in S |-> Len(t)]
           Base == {t \in S : Ends(t)}
           base == [t \in Base |-> Tip(t)]
           smaller == [t \in S \ Base |-> Rest(t)]
           step == [t \in S \ Base |-> [v \in V |-> First(t) \o v]]
           Is(f) == f = [t \in S |-> IF Ends(t) THEN Tip(t) ELSE First(t) \o f[Rest(t)]]
<1>1. ASSUME NEW t \in S PROVE Tip(t) \in V
  <2>1. <<>> \in V /\ <<"panic">> \in V
    BY EmptySeq DEF Char
  <2> QED BY <2>1
<1>2. ASSUME NEW t \in S, ~ Ends(t)
      PROVE  First(t) \in V /\ Rest(t) \in S /\ Len(Rest(t)) < Len(t)
  <2>1. Len(t) \in Nat /\ 1 \in 1..Len(t) /\ t[1] \in Byte
    <3>1. Len(t) \in Nat /\ Len(t) # 0
      BY <1>2, EmptySeq
    <3> QED BY <3>1, ElementOfSeq
  <2> DEFINE n == Width(t[1])
  <2>2. n \in 1..Len(t)
    BY <1>2
  <2> HIDE DEF n
  <2>3. From(t, n + 1) \in S /\ Len(From(t, n + 1)) = Len(t) - n
    BY <2>1, <2>2, CutInTwo DEF From
  <2>4. First(t) \in V
    BY <2>1 DEF Char
  <2>5. Len(From(t, n + 1)) < Len(t)
    BY <2>1, <2>2, <2>3
  <2> QED BY <2>3, <2>4, <2>5 DEF n
<1>3. Chars = CHOOSE f : Is(f)
  <2> DEFINE g(f) == [t \in S |-> IF t = <<>> THEN <<>>
                                  ELSE IF Width(t[1]) \notin 1..Len(t) THEN <<"panic">>
                                  ELSE <<t[1]>> \o f[From(t, Width(t[1]) + 1)]]
  <2>1. Chars = CHOOSE f : f = g(f)
    BY DEF Chars
  <2>2. ASSUME NEW f PROVE Is(f) <=> f = g(f)
    <3>1. ASSUME NEW t \in S
          PROVE  (IF Ends(t) THEN Tip(t) ELSE First(t) \o f[Rest(t)])
                   = IF t = <<>> THEN <<>>
                     ELSE IF Width(t[1]) \notin 1..Len(t) THEN <<"panic">>
                     ELSE <<t[1]>> \o f[From(t, Width(t[1]) + 1)]
      <4>1. CASE t = <<>>
        BY <4>1
      <4>2. CASE t # <<>> /\ Width(t[1]) \notin 1..Len(t)
        BY <4>2
      <4>3. CASE t # <<>> /\ Width(t[1]) \in 1..Len(t)
        BY <4>3
      <4> QED BY <4>1, <4>2, <4>3
    <3> HIDE DEF S, Ends, Tip, First, Rest
    <3>2. [t \in S |-> IF Ends(t) THEN Tip(t) ELSE First(t) \o f[Rest(t)]] = g(f)
      BY <3>1
    <3> QED BY <3>2
  <2> HIDE DEF Is, g
  <2> QED BY <2>1, <2>2
<1> HIDE DEF V, Ends, First, Rest, Tip
<1>4. RecursionOn(S, V, size, Base, base, smaller, step)
  <2>1. size \in [S -> Nat] /\ Base \in SUBSET S
    BY LenProperties
  <2>2. base \in [Base -> V]
    BY <1>1
  <2>3. /\ smaller \in [S \ Base -> S]
        /\ \A t \in S \ Base : size[smaller[t]] < size[t]
    BY <1>2
  <2>4. ASSUME NEW t \in S \ Base, NEW v \in V PROVE First(t) \o v \in V
    BY <1>2, ConcatProperties DEF V
  <2>5. step \in [S \ Base -> [V -> V]]
    BY <2>4
  <2> HIDE DEF S, size, Base, base, smaller, step
  <2> QED BY <2>1, <2>2, <2>3, <2>5 DEF RecursionOn
<1>5. PICK f \in [S -> V] : Recursive(f, S, Base, base, smaller, step)
  <2> HIDE DEF S, size, Base, base, smaller, step
  <2> QED BY <1>4, RecursiveFunctionExists
<1>6. Is(f)
  <2>1. ASSUME NEW t \in S
        PROVE  f[t] = IF Ends(t) THEN Tip(t) ELSE First(t) \o f[Rest(t)]
    <3>1. CASE Ends(t)
      BY <1>5, <3>1 DEF Recursive
    <3>2. CASE ~ Ends(t)
      <4>1. f[t] = step[t][f[smaller[t]]] /\ smaller[t] = Rest(t) /\ f[Rest(t)] \in V
        BY <1>2, <1>5, <3>2 DEF Recursive
      <4>2. step[t][f[Rest(t)]] = First(t) \o f[Rest(t)]
        BY <3>2, <4>1
      <4> QED BY <3>2, <4>1, <4>2
    <3> QED BY <3>1, <3>2
  <2> HIDE DEF S
  <2> QED BY <1>5, <2>1
<1>7. Is(Chars)
  <2> HIDE DEF Is
  <2> QED BY <1>3, <1>6
<1>8. \A t \in S : Chars[t] \in V
  <2> DEFINE P == {t \in S : Chars[t] \in V}
  <2>1. size \in [S -> Nat]
    BY LenProperties
  <2>2. ASSUME NEW t \in S, \A u \in S : size[u] < size[t] => u \in P
        PROVE  t \in P
    <3>1. CASE Ends(t)
      BY <1>1, <1>7, <3>1
    <3>2. CASE ~ Ends(t)
      <4>1. Rest(t) \in S /\ size[Rest(t)] < size[t]
        BY <1>2, <3>2
      <4>2. Chars[Rest(t)] \in V /\ Chars[t] = First(t) \o Chars[Rest(t)]
        BY <1>7, <2>2, <3>2, <4>1
      <4>3. First(t) \o Chars[Rest(t)] \in V
        BY <1>2, <3>2, <4>2, ConcatProperties DEF V
      <4> QED BY <4>2, <4>3
    <3> QED BY <3>1, <3>2
  <2> HIDE DEF P, size, S
  <2>3. \A t \in S : t \in P
    BY <2>1, <2>2, InductionOnSize
  <2> QED BY <2>3 DEF P
<1>9. ASSUME NEW t \in S
      PROVE  Chars[t] = IF t = <<>> THEN <<>>
                        ELSE IF Width(t[1]) \notin 1..Len(t) THEN <<"panic">>
                        ELSE <<t[1]>> \o Chars[From(t, Width(t[1]) + 1)]
  <2>1. Chars[t] = IF Ends(t) THEN Tip(t) ELSE First(t) \o Chars[Rest(t)]
    BY <1>7
  <2>2. CASE t = <<>>
    BY <2>1, <2>2 DEF Ends, Tip
  <2>3. CASE t # <<>> /\ Width(t[1]) \notin 1..Len(t)
    BY <2>1, <2>3 DEF Ends, Tip
  <2>4. CASE t # <<>> /\ Width(t[1]) \in 1..Len(t)
    BY <2>1, <2>4 DEF Ends, First, Rest
  <2> QED BY <2>2, <2>3, <2>4
<1> QED BY <1>8, <1>9 DEF V

-----------------------------------------------------------------------------
(* Counting. *)

\* Among k + m positions, C are A, of the first n, and B, counted from the last m.
Joined(n, k, m, A, B, C) ==
  /\ n <= k /\ A \in SUBSET (1..n) /\ B \in SUBSET (1..m) /\ C \in SUBSET (1..(k + m))
  /\ \A i \in 1..n : i \in C <=> i \in A
  /\ \A i \in (n + 1)..k : i \notin C
  /\ \A j \in 1..m : k + j \in C <=> j \in B

\* They are as many as those and these.
LEMMA PositionsAddUp ==
  ASSUME NEW n \in Nat, NEW k \in Nat, NEW m \in Nat, NEW A, NEW B, NEW C,
         Joined(n, k, m, A, B, C)
  PROVE  /\ Cardinality(A) \in Nat /\ Cardinality(B) \in Nat
         /\ Cardinality(C) = Cardinality(A) + Cardinality(B)
<1> DEFINE D == {i \in (k + 1)..(k + m) : i - k \in B}
           f == [j \in B |-> k + j]
<1> USE DEF Joined
<1>1. IsFiniteSet(A) /\ IsFiniteSet(B) /\ IsFiniteSet(D)
  <2>1. IsFiniteSet(1..n) /\ IsFiniteSet(1..m) /\ IsFiniteSet((k + 1)..(k + m))
    BY FS_Interval
  <2> QED BY <2>1, FS_Subset
<1>2. ExistsBijection(B, D)
  <2>1. f \in [B -> D]
    OBVIOUS
  <2>2. \A i, j \in B : f[i] = f[j] => i = j
    OBVIOUS
  <2>3. ASSUME NEW i \in D PROVE \E j \in B : f[j] = i
    <3>1. i - k \in B /\ k + (i - k) = i
      OBVIOUS
    <3> QED BY <3>1
  <2> HIDE DEF f, D
  <2>4. f \in Bijection(B, D)
    BY <2>1, <2>2, <2>3 DEF Bijection, Injection, IsInjective, Surjection
  <2> QED BY <2>4 DEF ExistsBijection
<1>3. Cardinality(D) = Cardinality(B)
  BY <1>1, <1>2, FS_Bijection
<1>4. C = A \cup D
  <2>1. ASSUME NEW i \in C PROVE i \in A \cup D
    <3>1. i \in 1..n \/ i \in (n + 1)..k \/ i \in (k + 1)..(k + m)
      OBVIOUS
    <3>2. CASE i \in (k + 1)..(k + m)
      <4>1. i - k \in 1..m /\ k + (i - k) = i
        BY <3>2
      <4> QED BY <3>2, <4>1
    <3> QED BY <3>1, <3>2
  <2>2. ASSUME NEW i \in A PROVE i \in C
    OBVIOUS
  <2>3. ASSUME NEW i \in D PROVE i \in C
    <3>1. i - k \in 1..m /\ k + (i - k) = i /\ i - k \in B
      OBVIOUS
    <3> QED BY <3>1
  <2> HIDE DEF D
  <2> QED BY <2>1, <2>2, <2>3
<1>5. A \cap D = {}
  OBVIOUS
<1>6. Cardinality(A \cup D) = Cardinality(A) + Cardinality(D)
  <2>1. Cardinality(A) \in Nat /\ Cardinality(D) \in Nat
    BY <1>1, FS_CardinalityType
  <2>2. Cardinality(A \cup D) = Cardinality(A) + Cardinality(D) - Cardinality(A \cap D)
    BY <1>1, FS_Union
  <2>3. Cardinality(A \cap D) = 0
    BY <1>5, FS_EmptySet
  <2> QED BY <2>1, <2>2, <2>3
<1> HIDE DEF D
<1> QED BY <1>1, <1>3, <1>4, <1>6, FS_CardinalityType

\* Positions are positions, and there are finitely many.
LEMMA PositionsType ==
  ASSUME NEW E, NEW s \in Seq(E), NEW class
  PROVE  /\ Positions(s, class) \in SUBSET (1..Len(s)) /\ IsFiniteSet(Positions(s, class))
         /\ Cardinality(Positions(s, class)) \in Nat
<1>1. Len(s) \in Nat
  BY LenProperties
<1>2. IsFiniteSet(1..Len(s)) /\ Positions(s, class) \in SUBSET (1..Len(s))
  BY <1>1, FS_Interval DEF Positions
<1> QED BY <1>2, FS_Subset, FS_CardinalityType

\* The positions in two sequences add up.
LEMMA PositionsConcat ==
  ASSUME NEW E, NEW s \in Seq(E), NEW r \in Seq(E), NEW class
  PROVE  Cardinality(Positions(s \o r, class))
           = Cardinality(Positions(s, class)) + Cardinality(Positions(r, class))
<1> DEFINE A == Positions(s, class)
           B == Positions(r, class)
           C == Positions(s \o r, class)
           n == Len(s)
           m == Len(r)
<1>1. /\ n \in Nat /\ m \in Nat /\ s \o r \in Seq(E) /\ Len(s \o r) = n + m
      /\ \A i \in 1..n : (s \o r)[i] = s[i]
      /\ \A j \in 1..m : (s \o r)[n + j] = r[j]
  <2>1. /\ n \in Nat /\ m \in Nat /\ s \o r \in Seq(E) /\ Len(s \o r) = n + m
        /\ \A i \in 1..(n + m) : (s \o r)[i] = IF i <= n THEN s[i] ELSE r[i - n]
    BY LenProperties, ConcatProperties
  <2> HIDE DEF n, m
  <2>2. ASSUME NEW i \in 1..n PROVE (s \o r)[i] = s[i]
    BY <2>1
  <2>3. ASSUME NEW j \in 1..m PROVE (s \o r)[n + j] = r[j]
    <3>1. n + j \in 1..(n + m) /\ ~ (n + j <= n) /\ (n + j) - n = j
      BY <2>1
    <3> QED BY <2>1, <3>1
  <2> QED BY <2>1, <2>2, <2>3
<1>2. /\ A \in SUBSET (1..n) /\ B \in SUBSET (1..m) /\ C \in SUBSET (1..(n + m))
      /\ \A i \in 1..n : i \in C <=> i \in A
      /\ \A j \in 1..m : n + j \in C <=> j \in B
  BY <1>1 DEF Positions
<1>3. \A i \in (n + 1)..n : i \notin C
  BY <1>1
<1> HIDE DEF A, B, C, n, m
<1>4. Joined(n, n, m, A, B, C)
  BY <1>1, <1>2, <1>3 DEF Joined
<1>5. Cardinality(C) = Cardinality(A) + Cardinality(B)
  BY <1>1, <1>4, PositionsAddUp
<1> QED BY <1>5 DEF A, B, C

\* The lengths of lines are no longer than the text.
LEMMA LineLengthsType ==
  ASSUME NEW E, NEW s \in Seq(E)
  PROVE  Max({0} \cup LineLengths(s)) \in Nat
<1> DEFINE ends == Positions(s, {"nl"})
           before(n) == {0} \cup {m \in ends : m < n}
<1>1. Len(s) \in Nat /\ ends \subseteq 1..Len(s)
  BY LenProperties, PositionsType
<1> HIDE DEF ends
<1>2. ASSUME NEW n \in ends PROVE n - 1 - Max(before(n)) \in 0..Len(s)
  <2>1. n \in 1..Len(s) /\ n - 1 \in Nat /\ Len(s) \in Nat
    BY <1>1
  <2>2. before(n) \subseteq 0..(n - 1) /\ before(n) # {}
    <3>1. \A m \in ends : m \in 1..Len(s)
      BY <1>1
    <3>2. \A m \in before(n) : m \in 0..(n - 1)
      BY <2>1, <3>1
    <3> QED BY <3>2
  <2> HIDE DEF before
  <2>3. Max(before(n)) \in 0..(n - 1)
    BY <2>1, <2>2, MaxIsGreatest
  <2> QED BY <2>1, <2>3
<1>3. LineLengths(s) \subseteq 0..Len(s)
  BY <1>2 DEF LineLengths, ends
<1>4. {0} \cup LineLengths(s) \subseteq 0..Len(s) /\ {0} \cup LineLengths(s) # {}
  BY <1>1, <1>3
<1>5. Max({0} \cup LineLengths(s)) \in 0..Len(s)
  BY <1>1, <1>4, MaxIsGreatest
<1> QED BY <1>1, <1>5

\* The ends of words are positions.
LEMMA WordEndsType ==
  ASSUME NEW E, NEW s \in Seq(E), NEW white
  PROVE  /\ WordEnds(s, white) \in SUBSET (1..Len(s))
         /\ Cardinality(WordEnds(s, white)) \in Nat
<1>1. Len(s) \in Nat
  BY LenProperties
<1>2. IsFiniteSet(1..Len(s)) /\ WordEnds(s, white) \in SUBSET (1..Len(s))
  BY <1>1, FS_Interval DEF WordEnds
<1> QED BY <1>2, FS_Subset, FS_CardinalityType

\* A job has bytes.
LEMMA ContentsType == \A job \in Job : Contents(job) \in Seq(Byte)
<1> TAKE job \in Job
<1>1. job.data \in Seq(Byte) /\ job.rest \in Seq(Byte)
  BY DEF Job
<1> QED BY <1>1, ConcatProperties DEF Contents

\* The counts of a job are numbers.
LEMMA CountType == \A job \in Job : Count(job) \in Counters
<1> SUFFICES ASSUME NEW job \in Job PROVE Count(job) \in Counters
  OBVIOUS
<1> DEFINE data == Contents(job)
           chars == Chars[data]
           final == IF NewlineEnds(chars) THEN 0 ELSE 1
<1>1. data \in Seq(Byte) /\ chars \in Seq(Char) /\ final \in Nat
  BY ContentsType, CharsDefined
<1> HIDE DEF data
<1>2. CountBytes(data) \in Counters
  <2>1. Len(data) + 1 \in Nat /\ Cardinality(Positions(data, {"nl"})) + 1 \in Nat
    BY <1>1, LenProperties, PositionsType
  <2> QED BY <2>1 DEF CountBytes, Zero, Counters, Counter
<1>3. CountAll(data) \in Counters
  <2>1. /\ Len(data) \in Nat /\ Len(chars) \in Nat
        /\ Cardinality(WordEnds(chars, {"nl", "ws"})) \in Nat
        /\ Cardinality(Positions(chars, {"nl"})) \in Nat
        /\ Max({0} \cup LineLengths(chars)) \in Nat
    <3> HIDE DEF chars
    <3>1. Len(data) \in Nat /\ Len(chars) \in Nat
      BY <1>1, LenProperties
    <3>2. Cardinality(WordEnds(chars, {"nl", "ws"})) \in Nat
      BY <1>1, WordEndsType
    <3>3. Cardinality(Positions(chars, {"nl"})) \in Nat
      BY <1>1, PositionsType
    <3>4. Max({0} \cup LineLengths(chars)) \in Nat
      BY <1>1, LineLengthsType
    <3> QED BY <3>1, <3>2, <3>3, <3>4
  <2>2. CountAll(data) =
          [bytes |-> Len(data) + final, chars |-> Len(chars) + final,
           words |-> Cardinality(WordEnds(chars, {"nl", "ws"})),
           lines |-> Cardinality(Positions(chars, {"nl"})) + final,
           max_line_length |-> Max({0} \cup LineLengths(chars))]
    BY DEF CountAll
  <2> HIDE DEF chars, final
  <2>3. Len(data) + final \in Nat /\ Len(chars) + final \in Nat
        /\ Cardinality(Positions(chars, {"nl"})) + final \in Nat
    BY <1>1, <2>1
  <2>4. \A a, b, c, d, e \in Nat :
          [bytes |-> a, chars |-> b, words |-> c, lines |-> d, max_line_length |-> e]
            \in Counters
    BY DEF Counters, Counter
  <2> QED BY <2>1, <2>2, <2>3, <2>4
<1> QED BY <1>2, <1>3 DEF Count, data

-----------------------------------------------------------------------------
(* The counts of several jobs. *)

\* Induction over sequences that grow at the end.
LEMMA InductionOnAppend ==
  ASSUME NEW E, NEW P, <<>> \in P,
         \A s \in Seq(E), x \in E : s \in P => Append(s, x) \in P
  PROVE  \A s \in Seq(E) : s \in P
<1> DEFINE S == Seq(E)
           size == [s \in S |-> Len(s)]
<1>1. size \in [S -> Nat]
  BY LenProperties
<1>2. ASSUME NEW s \in S, \A r \in S : size[r] < size[s] => r \in P
      PROVE  s \in P
  <2>1. CASE s # <<>>
    <3>1. PICK t \in S, x \in E : s = Append(t, x) /\ Len(s) = Len(t) + 1
      BY <2>1, FrontAndLast
    <3>2. size[t] < size[s]
      <4>1. Len(t) \in Nat
        BY LenProperties
      <4> QED BY <3>1, <4>1
    <3> QED BY <1>2, <3>1, <3>2
  <2> QED BY <2>1
<1> HIDE DEF S, size
<1>3. \A s \in S : s \in P
  BY <1>1, <1>2, InductionOnSize
<1> QED BY <1>3 DEF S

\* Adding is associative, and adding nothing changes nothing.
LEMMA AddProperties ==
  /\ \A t, u \in Counters : Add(t, u) \in Counters
  /\ \A t, u, v \in Counters : Add(Add(t, u), v) = Add(t, Add(u, v))
  /\ \A t \in Counters : Add(t, Zero) = t /\ Add(Zero, t) = t /\ Zero \in Counters
  /\ \A t, u \in Counters, c \in Counter : Add(t, u)[c] = t[c] + u[c]
<1>1. \A t, u \in Counters : Add(t, u) \in Counters
  BY DEF Add, Counters
<1>2. ASSUME NEW t \in Counters, NEW u \in Counters, NEW v \in Counters
      PROVE  Add(Add(t, u), v) = Add(t, Add(u, v))
  <2>1. ASSUME NEW c \in Counter PROVE (t[c] + u[c]) + v[c] = t[c] + (u[c] + v[c])
    BY DEF Counters
  <2>2. /\ Add(Add(t, u), v) = [c \in Counter |-> (t[c] + u[c]) + v[c]]
        /\ Add(t, Add(u, v)) = [c \in Counter |-> t[c] + (u[c] + v[c])]
    BY DEF Add
  <2> QED BY <2>1, <2>2
<1>3. \A t \in Counters : Add(t, Zero) = t /\ Add(Zero, t) = t /\ Zero \in Counters
  BY DEF Add, Zero, Counters
<1>4. \A t, u \in Counters, c \in Counter : Add(t, u)[c] = t[c] + u[c]
  BY DEF Add
<1> QED BY <1>1, <1>2, <1>3, <1>4

\* The counts of no jobs, and of one more.
LEMMA CountsInAppend ==
  /\ CountsIn(<<>>) = Zero
  /\ \A jobs \in Seq(Job) : CountsIn(jobs) \in Counters
  /\ \A jobs \in Seq(Job), job \in Job :
       CountsIn(Append(jobs, job)) = Add(CountsIn(jobs), Count(job))
<1> DEFINE map(jobs) == [i \in 1..Len(jobs) |-> Count(jobs[i])]
<1>1. ASSUME NEW jobs \in Seq(Job) PROVE map(jobs) \in Seq(Counters) /\ Len(map(jobs)) = Len(jobs)
  <2>1. Len(jobs) \in Nat /\ \A i \in 1..Len(jobs) : Count(jobs[i]) \in Counters
    BY LenProperties, ElementOfSeq, CountType
  <2> QED BY <2>1
<1>2. map(<<>>) = <<>>
  BY EmptySeq
<1>3. ASSUME NEW jobs \in Seq(Job), NEW job \in Job
      PROVE  map(Append(jobs, job)) = Append(map(jobs), Count(job))
  <2> DEFINE longer == Append(jobs, job)
             n == Len(jobs)
  <2>1. /\ n \in Nat /\ longer \in Seq(Job) /\ Len(longer) = n + 1
        /\ \A i \in 1..n : longer[i] = jobs[i]
        /\ longer[n + 1] = job
    BY LenProperties, AppendProperties
  <2>2. Count(job) \in Counters
    BY CountType
  <2>3. /\ Append(map(jobs), Count(job)) \in Seq(Counters)
        /\ Len(Append(map(jobs), Count(job))) = n + 1
        /\ \A i \in 1..n : Append(map(jobs), Count(job))[i] = map(jobs)[i]
        /\ Append(map(jobs), Count(job))[n + 1] = Count(job)
    <3> HIDE DEF map
    <3> QED BY <1>1, <2>2, AppendProperties
  <2>4. map(longer) \in Seq(Counters) /\ Len(map(longer)) = n + 1
    <3> HIDE DEF map, longer
    <3> QED BY <1>1, <2>1
  <2>5. ASSUME NEW i \in 1..(n + 1)
        PROVE  map(longer)[i] = Append(map(jobs), Count(job))[i]
    <3> HIDE DEF longer, n
    <3>1. map(longer)[i] = Count(longer[i])
      BY <2>1
    <3>2. CASE i \in 1..n
      <4>1. map(jobs)[i] = Count(jobs[i])
        BY <3>2 DEF n
      <4> QED BY <2>1, <2>3, <3>1, <3>2, <4>1
    <3>3. CASE i = n + 1
      BY <2>1, <2>3, <3>1, <3>3
    <3>4. i \in 1..n \/ i = n + 1
      BY <2>1
    <3> QED BY <3>2, <3>3, <3>4
  <2> HIDE DEF map, longer, n
  <2>6. map(longer) = Append(map(jobs), Count(job))
    BY <2>3, <2>4, <2>5, SeqEqual
  <2> QED BY <2>6 DEF longer
<1>4. \A jobs : CountsIn(jobs) = Sum(map(jobs))
  BY DEF CountsIn
<1> HIDE DEF map
<1>5. CountsIn(<<>>) = Zero
  BY <1>2, <1>4, SumAppend
<1>6. \A jobs \in Seq(Job) : CountsIn(jobs) \in Counters
  BY <1>1, <1>4, SumAppend
<1>7. ASSUME NEW jobs \in Seq(Job), NEW job \in Job
      PROVE  CountsIn(Append(jobs, job)) = Add(CountsIn(jobs), Count(job))
  <2>1. map(jobs) \in Seq(Counters) /\ Count(job) \in Counters
    BY <1>1, CountType
  <2> QED BY <1>3, <1>4, <2>1, SumAppend
<1> QED BY <1>5, <1>6, <1>7

\* The counts of two sequences of jobs add up.
LEMMA CountsInConcat ==
  \A a, b \in Seq(Job) : CountsIn(a \o b) = Add(CountsIn(a), CountsIn(b))
<1> SUFFICES ASSUME NEW a \in Seq(Job)
             PROVE  \A b \in Seq(Job) : CountsIn(a \o b) = Add(CountsIn(a), CountsIn(b))
  OBVIOUS
<1> DEFINE P == {b \in Seq(Job) : CountsIn(a \o b) = Add(CountsIn(a), CountsIn(b))}
<1>1. <<>> \in P
  <2>1. a \o <<>> = a /\ <<>> \in Seq(Job)
    BY ConcatEmptySeq, EmptySeq
  <2>2. Add(CountsIn(a), CountsIn(<<>>)) = CountsIn(a)
    BY CountsInAppend, AddProperties
  <2> QED BY <2>1, <2>2
<1>2. ASSUME NEW b \in Seq(Job), NEW job \in Job, b \in P PROVE Append(b, job) \in P
  <2>1. a \o Append(b, job) = Append(a \o b, job) /\ a \o b \in Seq(Job)
    BY ConcatAppend
  <2>2. Append(b, job) \in Seq(Job)
    BY AppendProperties
  <2>3. CountsIn(a \o Append(b, job)) = Add(CountsIn(a \o b), Count(job))
    BY <2>1, CountsInAppend
  <2>4. CountsIn(a \o b) = Add(CountsIn(a), CountsIn(b))
    BY <1>2
  <2>5. CountsIn(Append(b, job)) = Add(CountsIn(b), Count(job))
    BY CountsInAppend
  <2>6. /\ CountsIn(a) \in Counters /\ CountsIn(b) \in Counters /\ Count(job) \in Counters
    BY CountsInAppend, CountType
  <2>7. Add(Add(CountsIn(a), CountsIn(b)), Count(job))
          = Add(CountsIn(a), Add(CountsIn(b), Count(job)))
    BY <2>6, AddProperties
  <2> QED BY <2>2, <2>3, <2>4, <2>5, <2>7
<1> HIDE DEF P
<1>3. \A b \in Seq(Job) : b \in P
  BY <1>1, <1>2, InductionOnAppend
<1> QED BY <1>3 DEF P

\* The counts of one job.
LEMMA CountsInOne == \A job \in Job : CountsIn(<<job>>) = Count(job)
<1> TAKE job \in Job
<1>1. <<>> \in Seq(Job) /\ <<job>> = Append(<<>>, job)
  BY EmptySeq
<1>2. CountsIn(<<job>>) = Add(CountsIn(<<>>), Count(job))
  BY <1>1, CountsInAppend
<1>3. Count(job) \in Counters
  BY CountType
<1> QED BY <1>2, <1>3, CountsInAppend, AddProperties

-----------------------------------------------------------------------------
(* The jobs of several texts. *)

\* No text has no jobs; the jobs of one more text come behind the others.
LEMMA JobsOfAppend ==
  /\ JobsOf(<<>>) = <<>>
  /\ \A texts \in Seq(Seq(Byte)) : JobsOf(texts) \in Seq(Job)
  /\ \A texts \in Seq(Seq(Byte)), t \in Seq(Byte) :
       JobsOf(Append(texts, t)) = JobsOf(texts) \o Split[t]
<1> DEFINE map(texts) == [i \in 1..Len(texts) |-> Split[texts[i]]]
<1>1. \A t \in Seq(Byte) : Split[t] \in Seq(Job)
  <2>1. Items = Job
    BY DEF Items, Job
  <2> QED BY <2>1, SplitDefined
<1>2. ASSUME NEW texts \in Seq(Seq(Byte))
      PROVE  map(texts) \in Seq(Seq(Job)) /\ Len(map(texts)) = Len(texts)
  <2>1. Len(texts) \in Nat /\ \A i \in 1..Len(texts) : Split[texts[i]] \in Seq(Job)
    BY <1>1, LenProperties, ElementOfSeq
  <2> QED BY <2>1
<1>3. map(<<>>) = <<>>
  BY EmptySeq
<1>4. ASSUME NEW texts \in Seq(Seq(Byte)), NEW t \in Seq(Byte)
      PROVE  map(Append(texts, t)) = Append(map(texts), Split[t])
  <2> DEFINE longer == Append(texts, t)
             n == Len(texts)
  <2>1. /\ n \in Nat /\ longer \in Seq(Seq(Byte)) /\ Len(longer) = n + 1
        /\ \A i \in 1..n : longer[i] = texts[i]
        /\ longer[n + 1] = t
    BY LenProperties, AppendProperties
  <2>2. Split[t] \in Seq(Job)
    BY <1>1
  <2>3. /\ Append(map(texts), Split[t]) \in Seq(Seq(Job))
        /\ Len(Append(map(texts), Split[t])) = n + 1
        /\ \A i \in 1..n : Append(map(texts), Split[t])[i] = map(texts)[i]
        /\ Append(map(texts), Split[t])[n + 1] = Split[t]
    <3> HIDE DEF map
    <3> QED BY <1>2, <2>2, AppendProperties
  <2>4. map(longer) \in Seq(Seq(Job)) /\ Len(map(longer)) = n + 1
    <3> HIDE DEF map, longer
    <3> QED BY <1>2, <2>1
  <2>5. ASSUME NEW i \in 1..(n + 1)
        PROVE  map(longer)[i] = Append(map(texts), Split[t])[i]
    <3> HIDE DEF longer, n
    <3>1. map(longer)[i] = Split[longer[i]]
      BY <2>1
    <3>2. CASE i \in 1..n
      <4>1. map(texts)[i] = Split[texts[i]]
        BY <3>2 DEF n
      <4> QED BY <2>1, <2>3, <3>1, <3>2, <4>1
    <3>3. CASE i = n + 1
      BY <2>1, <2>3, <3>1, <3>3
    <3>4. i \in 1..n \/ i = n + 1
      BY <2>1
    <3> QED BY <3>2, <3>3, <3>4
  <2> HIDE DEF map, longer, n
  <2>6. map(longer) = Append(map(texts), Split[t])
    BY <2>3, <2>4, <2>5, SeqEqual
  <2> QED BY <2>6 DEF longer
<1>5. \A texts : JobsOf(texts) = FlattenSeq(map(texts))
  BY DEF JobsOf
<1> HIDE DEF map
<1>6. JobsOf(<<>>) = <<>>
  BY <1>3, <1>5, FlattenEmpty
<1>7. \A texts \in Seq(Seq(Byte)) : JobsOf(texts) \in Seq(Job)
  BY <1>2, <1>5, FlattenType
<1>8. ASSUME NEW texts \in Seq(Seq(Byte)), NEW t \in Seq(Byte)
      PROVE  JobsOf(Append(texts, t)) = JobsOf(texts) \o Split[t]
  <2>1. map(texts) \in Seq(Seq(Job)) /\ Split[t] \in Seq(Job)
    BY <1>1, <1>2
  <2> QED BY <1>4, <1>5, <2>1, FlattenAppend
<1> QED BY <1>6, <1>7, <1>8

-----------------------------------------------------------------------------
(* Claims about a text and its chunks. *)

\* The last chunk, which may have lost the newline at its end.
EndsWith(t, d) == Split[t] = <<ItemOf(d)>> /\ (t = d \/ t = d \o <<"nl">>)

\* A line that does not fit is bailed out, with everything behind it.
BailsOut(t, d, r) == Split[t] = <<BailOf(d, r)>> /\ d \o r = t

\* A chunk, a newline, and what comes behind.
CutInto(t, d, r) == Split[t] = <<ItemOf(d)>> \o Split[r] /\ t = (d \o <<"nl">>) \o r

\* A text is cut in one of these ways.
LEMMA SplitCases ==
  ASSUME NEW t \in Seq(Byte)
  PROVE  \/ \E d \in Seq(Byte) : EndsWith(t, d)
         \/ \E d, r \in Seq(Byte) : BailsOut(t, d, r)
         \/ \E d, r \in Seq(Byte) : CutInto(t, d, r) /\ Len(r) < Len(t)
<1>1. Len(t) \in Nat /\ MaxChunkSize \in Nat /\ Delim = "nl"
  BY LenProperties, ByteAssumption
<1>2. CASE Len(t) < MaxChunkSize
  <2>1. Split[t] = <<ItemOf(Stripped(t))>> /\ Stripped(t) \in Seq(Byte)
    BY <1>2, SplitDefined, StrippedType
  <2>2. t = Stripped(t) \/ t = Stripped(t) \o <<"nl">>
    <3>1. CASE t # <<>> /\ t[Len(t)] = Delim
      <4> DEFINE d == SubSeq(t, 1, Len(t) - 1)
      <4>1. d \in Seq(Byte) /\ t = Append(d, "nl") /\ "nl" \in Byte
        BY <1>1, <3>1, FrontOf
      <4>2. Stripped(t) = d
        BY <3>1 DEF Stripped
      <4> HIDE DEF d
      <4>3. t = d \o <<"nl">>
        BY <4>1, AppendIsConcat
      <4> QED BY <4>2, <4>3
    <3>2. CASE ~ (t # <<>> /\ t[Len(t)] = Delim)
      BY <3>2 DEF Stripped
    <3> QED BY <3>1, <3>2
  <2> QED BY <2>1, <2>2 DEF EndsWith
<1>3. CASE ~ (Len(t) < MaxChunkSize)
  <2>1. MaxChunkSize \in 0..Len(t) /\ MaxChunkSize <= Len(t)
    BY <1>1, <1>3
  <2>2. /\ Full(t) \in Seq(Byte) /\ From(t, MaxChunkSize + 1) \in Seq(Byte)
        /\ Full(t) \o From(t, MaxChunkSize + 1) = t /\ Len(Full(t)) = MaxChunkSize
        /\ \A i \in 1..MaxChunkSize : Full(t)[i] = t[i]
    BY <2>1, CutInTwo DEF Full, From
  <2>3. CASE Delims(Full(t)) = {}
    <3>1. Split[t] = <<BailOf(Full(t), From(t, MaxChunkSize + 1))>>
      BY <1>3, <2>3, SplitDefined
    <3> QED BY <2>2, <3>1 DEF BailsOut
  <2>4. CASE Delims(Full(t)) # {}
    <3> DEFINE last == LastDelim(t)
               d == SubSeq(t, 1, last - 1)
               r == From(t, last + 1)
    <3>1. last \in Delims(Full(t)) /\ last \in 1..MaxChunkSize
      BY <2>1, <2>4, LastDelimIsLast
    <3>2. Split[t] = <<ItemOf(SubSeq(Full(t), 1, last - 1))>> \o Split[r]
      BY <1>3, <2>4, SplitDefined
    <3> HIDE DEF last
    <3>3. last \in 1..Len(t) /\ t[last] = "nl" /\ last - 1 \in 0..Len(t) /\ last \in 0..Len(t)
      BY <1>1, <2>1, <2>2, <3>1 DEF Delims
    <3>4. /\ d \in Seq(Byte) /\ r \in Seq(Byte) /\ Len(r) = Len(t) - last
      BY <3>3, CutInTwo DEF From
    <3>5. t = (d \o <<t[last]>>) \o r
      BY <3>3, SplitAround DEF From
    <3>6. SubSeq(Full(t), 1, last - 1) = d
      <4>1. 1 \in 1..(Len(Full(t)) + 1) /\ last - 1 \in 0..Len(Full(t))
        BY <1>1, <2>2, <3>1
      <4>2. SubSeq(Full(t) \o From(t, MaxChunkSize + 1), 1, last - 1)
              = SubSeq(Full(t), 1, last - 1)
        BY <2>2, <4>1, PartOfConcat
      <4> QED BY <2>2, <4>2
    <3>7. CutInto(t, d, r) /\ Len(r) < Len(t)
      <4>1. Len(r) < Len(t)
        BY <1>1, <3>3, <3>4
      <4> HIDE DEF d, r
      <4> QED BY <3>2, <3>3, <3>5, <3>6, <4>1 DEF CutInto
    <3> HIDE DEF d, r
    <3> QED BY <3>4, <3>7
  <2> QED BY <2>3, <2>4
<1> QED BY <1>2, <1>3

\* What holds for the last chunk, for a bail-out, and for a text when it holds for what
\* is behind its first chunk, holds for every text.
LEMMA SplitInduction ==
  ASSUME NEW P,
         \A t, d \in Seq(Byte) : EndsWith(t, d) => t \in P,
         \A t, d, r \in Seq(Byte) : BailsOut(t, d, r) => t \in P,
         \A t, d, r \in Seq(Byte) : CutInto(t, d, r) /\ r \in P => t \in P
  PROVE  \A t \in Seq(Byte) : t \in P
<1> DEFINE S == Seq(Byte)
           size == [t \in S |-> Len(t)]
<1>1. size \in [S -> Nat]
  BY LenProperties
<1>2. ASSUME NEW t \in S, \A u \in S : size[u] < size[t] => u \in P
      PROVE  t \in P
  <2>1. CASE \E d \in Seq(Byte) : EndsWith(t, d)
    BY <2>1
  <2>2. CASE \E d, r \in Seq(Byte) : BailsOut(t, d, r)
    BY <2>2
  <2>3. CASE \E d, r \in Seq(Byte) : CutInto(t, d, r) /\ Len(r) < Len(t)
    <3>1. PICK d, r \in Seq(Byte) : CutInto(t, d, r) /\ Len(r) < Len(t)
      BY <2>3
    <3>2. r \in P
      BY <1>2, <3>1
    <3> QED BY <3>1, <3>2
  <2> QED BY <2>1, <2>2, <2>3, SplitCases
<1> HIDE DEF S, size
<1>3. \A t \in S : t \in P
  BY <1>1, <1>2, InductionOnSize
<1> QED BY <1>3 DEF S

\* The jobs of those texts, and what they count.
LEMMA JobTypes ==
  /\ \A d \in Seq(Byte) : ItemOf(d) \in Job /\ Contents(ItemOf(d)) = d
  /\ \A d, r \in Seq(Byte) : BailOf(d, r) \in Job /\ Contents(BailOf(d, r)) = d \o r
  /\ \A t \in Seq(Byte) : Split[t] \in Seq(Job)
<1>1. ASSUME NEW d \in Seq(Byte) PROVE ItemOf(d) \in Job /\ Contents(ItemOf(d)) = d
  <2>1. d \o <<>> = d /\ <<>> \in Seq(Byte)
    BY ConcatEmptySeq, EmptySeq
  <2> QED BY <2>1 DEF ItemOf, Job, Contents
<1>2. ASSUME NEW d \in Seq(Byte), NEW r \in Seq(Byte)
      PROVE  BailOf(d, r) \in Job /\ Contents(BailOf(d, r)) = d \o r
  BY DEF BailOf, Job, Contents
<1>3. Items = Job
  BY DEF Items, Job
<1> QED BY <1>1, <1>2, <1>3, SplitDefined

\* The counts of a text that is cut.
LEMMA CountsOfCut ==
  ASSUME NEW t \in Seq(Byte), NEW d \in Seq(Byte), NEW r \in Seq(Byte), CutInto(t, d, r)
  PROVE  CountsIn(Split[t]) = Add(Count(ItemOf(d)), CountsIn(Split[r]))
<1>1. <<ItemOf(d)>> \in Seq(Job) /\ Split[r] \in Seq(Job) /\ ItemOf(d) \in Job
  BY JobTypes
<1> QED BY <1>1, CountsInConcat, CountsInOne DEF CutInto

-----------------------------------------------------------------------------
(* What is printed. *)

\* The jobs of all of the texts count what the jobs of each text count.
LEMMA EveryJobCounted ==
  \A texts \in Seq(Seq(Byte)) :
    CountsIn(JobsOf(texts)) = Sum([i \in 1..Len(texts) |-> CountsOf(texts[i])])
<1> DEFINE map(texts) == [i \in 1..Len(texts) |-> CountsOf(texts[i])]
           P == {texts \in Seq(Seq(Byte)) : CountsIn(JobsOf(texts)) = Sum(map(texts))}
<1>1. \A t \in Seq(Byte) : CountsOf(t) = CountsIn(Split[t]) /\ CountsOf(t) \in Counters
  <2>1. \A t : CountsOf(t) = CountsIn(Split[t])
    BY DEF CountsOf, CountsIn
  <2> QED BY <2>1, JobTypes, CountsInAppend
<1>2. ASSUME NEW texts \in Seq(Seq(Byte))
      PROVE  map(texts) \in Seq(Counters) /\ Len(map(texts)) = Len(texts)
  <2>1. Len(texts) \in Nat /\ \A i \in 1..Len(texts) : CountsOf(texts[i]) \in Counters
    BY <1>1, LenProperties, ElementOfSeq
  <2> QED BY <2>1
<1>3. map(<<>>) = <<>> /\ <<>> \in Seq(Seq(Byte))
  BY EmptySeq
<1>4. ASSUME NEW texts \in Seq(Seq(Byte)), NEW t \in Seq(Byte)
      PROVE  map(Append(texts, t)) = Append(map(texts), CountsOf(t))
  <2> DEFINE longer == Append(texts, t)
             n == Len(texts)
  <2>1. /\ n \in Nat /\ longer \in Seq(Seq(Byte)) /\ Len(longer) = n + 1
        /\ \A i \in 1..n : longer[i] = texts[i]
        /\ longer[n + 1] = t
    BY LenProperties, AppendProperties
  <2>2. CountsOf(t) \in Counters
    BY <1>1
  <2>3. /\ Append(map(texts), CountsOf(t)) \in Seq(Counters)
        /\ Len(Append(map(texts), CountsOf(t))) = n + 1
        /\ \A i \in 1..n : Append(map(texts), CountsOf(t))[i] = map(texts)[i]
        /\ Append(map(texts), CountsOf(t))[n + 1] = CountsOf(t)
    <3> HIDE DEF map
    <3> QED BY <1>2, <2>2, AppendProperties
  <2>4. map(longer) \in Seq(Counters) /\ Len(map(longer)) = n + 1
    <3> HIDE DEF map, longer
    <3> QED BY <1>2, <2>1
  <2>5. ASSUME NEW i \in 1..(n + 1)
        PROVE  map(longer)[i] = Append(map(texts), CountsOf(t))[i]
    <3> HIDE DEF longer, n
    <3>1. map(longer)[i] = CountsOf(longer[i])
      BY <2>1
    <3>2. CASE i \in 1..n
      <4>1. map(texts)[i] = CountsOf(texts[i])
        BY <3>2 DEF n
      <4> QED BY <2>1, <2>3, <3>1, <3>2, <4>1
    <3>3. CASE i = n + 1
      BY <2>1, <2>3, <3>1, <3>3
    <3>4. i \in 1..n \/ i = n + 1
      BY <2>1
    <3> QED BY <3>2, <3>3, <3>4
  <2> HIDE DEF map, longer, n
  <2>6. map(longer) = Append(map(texts), CountsOf(t))
    BY <2>3, <2>4, <2>5, SeqEqual
  <2> QED BY <2>6 DEF longer
<1> HIDE DEF map
<1>5. <<>> \in P
  BY <1>3, JobsOfAppend, CountsInAppend, SumAppend
<1>6. ASSUME NEW texts \in Seq(Seq(Byte)), NEW t \in Seq(Byte), texts \in P
      PROVE  Append(texts, t) \in P
  <2>1. Append(texts, t) \in Seq(Seq(Byte)) /\ JobsOf(texts) \in Seq(Job) /\ Split[t] \in Seq(Job)
    BY AppendProperties, JobsOfAppend, JobTypes
  <2>2. CountsIn(JobsOf(Append(texts, t))) = Add(CountsIn(JobsOf(texts)), CountsIn(Split[t]))
    BY <2>1, JobsOfAppend, CountsInConcat
  <2>3. Sum(map(Append(texts, t))) = Add(Sum(map(texts)), CountsOf(t))
    BY <1>1, <1>2, <1>4, SumAppend
  <2>4. CountsIn(JobsOf(texts)) = Sum(map(texts))
    BY <1>6
  <2> QED BY <1>1, <2>1, <2>2, <2>3, <2>4
<1> HIDE DEF P
<1>7. \A texts \in Seq(Seq(Byte)) : texts \in P
  BY <1>5, <1>6, InductionOnAppend
<1> QED BY <1>7 DEF P, map

-----------------------------------------------------------------------------
(* wc -b and wc -l. *)

Newlines(s) == Cardinality(Positions(s, {"nl"}))

\* Both counts of these jobs are those of the text, and one more, or not.
OffByOne(t, jobs) ==
  \E k \in 0..1 : /\ CountsIn(jobs)["bytes"] = Len(t) + k
                  /\ CountsIn(jobs)["lines"] = Newlines(t) + k

\* The newlines of sequences add up.
LEMMA NewlinesAddUp ==
  /\ \A s \in Seq(Byte) : Newlines(s) \in Nat
  /\ \A s, r \in Seq(Byte) : Newlines(s \o r) = Newlines(s) + Newlines(r)
  /\ <<"nl">> \in Seq(Byte) /\ Newlines(<<"nl">>) = 1
<1>1. \A s \in Seq(Byte) : Newlines(s) \in Nat
  BY PositionsType DEF Newlines
<1>2. \A s, r \in Seq(Byte) : Newlines(s \o r) = Newlines(s) + Newlines(r)
  BY PositionsConcat DEF Newlines
<1>3. <<"nl">> \in Seq(Byte)
  BY ByteAssumption
<1>4. Positions(<<"nl">>, {"nl"}) = {1}
  BY DEF Positions
<1>5. Newlines(<<"nl">>) = 1
  BY <1>4, FS_Singleton DEF Newlines
<1> QED BY <1>1, <1>2, <1>3, <1>5

\* One job counts a byte and a newline more than it has.
LEMMA BytesOfJob ==
  ASSUME mode = "bytes", NEW job \in Job
  PROVE  /\ Count(job)["bytes"] = Len(Contents(job)) + 1
         /\ Count(job)["lines"] = Newlines(Contents(job)) + 1
BY DEF Count, CountBytes, Zero, Counter, Newlines

\* The counts of a text are off by at most one, both by as much.
LEMMA BytesOfText ==
  ASSUME mode = "bytes"
  PROVE  \A t \in Seq(Byte) : OffByOne(t, Split[t])
<1> DEFINE P == {t \in Seq(Byte) : OffByOne(t, Split[t])}
<1>1. ASSUME NEW t \in Seq(Byte), NEW d \in Seq(Byte), EndsWith(t, d) PROVE t \in P
  <2> DEFINE c == CountsIn(Split[t])
  <2>1. c["bytes"] = Len(d) + 1 /\ c["lines"] = Newlines(d) + 1
    BY <1>1, JobTypes, CountsInOne, BytesOfJob DEF EndsWith
  <2>2. Len(d) \in Nat /\ Newlines(d) \in Nat
    BY LenProperties, NewlinesAddUp
  <2>3. CASE t = d
    BY <2>1, <2>3 DEF OffByOne
  <2>4. CASE t = d \o <<"nl">>
    <3>1. Len(t) = Len(d) + 1
      BY <2>4, ConcatProperties, NewlinesAddUp
    <3>2. Newlines(t) = Newlines(d) + 1
      BY <2>4, NewlinesAddUp
    <3>3. c["bytes"] = Len(t) + 0 /\ c["lines"] = Newlines(t) + 0 /\ 0 \in 0..1
      BY <2>1, <2>2, <3>1, <3>2
    <3> QED BY <3>3 DEF OffByOne
  <2> QED BY <1>1, <2>3, <2>4 DEF EndsWith
<1>2. ASSUME NEW t \in Seq(Byte), NEW d \in Seq(Byte), NEW r \in Seq(Byte), BailsOut(t, d, r)
      PROVE  t \in P
  <2>1. CountsIn(Split[t]) = Count(BailOf(d, r)) /\ Contents(BailOf(d, r)) = t
    BY <1>2, JobTypes, CountsInOne DEF BailsOut
  <2>2. Count(BailOf(d, r))["bytes"] = Len(t) + 1 /\ Count(BailOf(d, r))["lines"] = Newlines(t) + 1
    BY <2>1, JobTypes, BytesOfJob
  <2> QED BY <2>1, <2>2 DEF OffByOne
<1>3. ASSUME NEW t \in Seq(Byte), NEW d \in Seq(Byte), NEW r \in Seq(Byte),
             CutInto(t, d, r), r \in P
      PROVE  t \in P
  <2>1. PICK k \in 0..1 : /\ CountsIn(Split[r])["bytes"] = Len(r) + k
                          /\ CountsIn(Split[r])["lines"] = Newlines(r) + k
    BY <1>3 DEF OffByOne
  <2> DEFINE e == Count(ItemOf(d))
             f == CountsIn(Split[r])
  <2>2. CountsIn(Split[t]) = Add(e, f)
    BY <1>3, CountsOfCut
  <2>3. e \in Counters /\ f \in Counters /\ {"bytes", "lines"} \subseteq Counter
    BY JobTypes, CountType, CountsInAppend DEF Counter
  <2>4. e["bytes"] = Len(d) + 1 /\ e["lines"] = Newlines(d) + 1
    BY JobTypes, BytesOfJob
  <2>5. f["bytes"] = Len(r) + k /\ f["lines"] = Newlines(r) + k
    BY <2>1
  <2> HIDE DEF e, f
  <2>6. /\ CountsIn(Split[t])["bytes"] = e["bytes"] + f["bytes"]
        /\ CountsIn(Split[t])["lines"] = e["lines"] + f["lines"]
    BY <2>2, <2>3, AddProperties
  <2>7. /\ Len(d) \in Nat /\ Len(r) \in Nat /\ d \o <<"nl">> \in Seq(Byte)
        /\ Len(t) = (Len(d) + 1) + Len(r)
    <3>1. d \o <<"nl">> \in Seq(Byte) /\ Len(d \o <<"nl">>) = Len(d) + 1
      BY ConcatProperties, NewlinesAddUp
    <3>2. Len(t) = Len(d \o <<"nl">>) + Len(r)
      BY <1>3, <3>1, ConcatProperties DEF CutInto
    <3> QED BY <3>1, <3>2, LenProperties
  <2>8. /\ Newlines(d) \in Nat /\ Newlines(r) \in Nat
        /\ Newlines(t) = (Newlines(d) + 1) + Newlines(r)
    <3> DEFINE u == d \o <<"nl">>
    <3>1. u \in Seq(Byte) /\ t = u \o r /\ Newlines(u) = Newlines(d) + 1
      BY <1>3, <2>7, NewlinesAddUp DEF CutInto
    <3> HIDE DEF u
    <3>2. Newlines(t) = Newlines(u) + Newlines(r)
      BY <3>1, NewlinesAddUp
    <3> QED BY <3>1, <3>2, NewlinesAddUp
  <2>9. /\ CountsIn(Split[t])["bytes"] = Len(t) + k
        /\ CountsIn(Split[t])["lines"] = Newlines(t) + k
    BY <2>4, <2>5, <2>6, <2>7, <2>8
  <2> QED BY <2>9 DEF OffByOne
<1> HIDE DEF P
<1>4. \A t \in Seq(Byte) : t \in P
  BY <1>1, <1>2, <1>3, SplitInduction
<1> QED BY <1>4 DEF P

\* The counts of several texts are off by at most one for each.
LEMMA BytesOfTexts ==
  ASSUME mode = "bytes"
  PROVE  \A texts \in Seq(Seq(Byte)) : \E k \in 0..Len(texts) :
           /\ CountsIn(JobsOf(texts))["bytes"] = Len(FlattenSeq(texts)) + k
           /\ CountsIn(JobsOf(texts))["lines"] = Newlines(FlattenSeq(texts)) + k
<1> DEFINE Q(texts) == \E k \in 0..Len(texts) :
             /\ CountsIn(JobsOf(texts))["bytes"] = Len(FlattenSeq(texts)) + k
             /\ CountsIn(JobsOf(texts))["lines"] = Newlines(FlattenSeq(texts)) + k
           P == {texts \in Seq(Seq(Byte)) : Q(texts)}
<1>1. <<>> \in P
  <2>1. /\ <<>> \in Seq(Seq(Byte)) /\ FlattenSeq(<<>>) = <<>> /\ Len(<<>>) = 0
        /\ CountsIn(JobsOf(<<>>)) = Zero /\ Zero["bytes"] = 0 /\ Zero["lines"] = 0
    BY EmptySeq, FlattenEmpty, JobsOfAppend, CountsInAppend DEF Zero, Counter
  <2>2. Newlines(<<>>) = 0
    <3>1. Positions(<<>>, {"nl"}) = {}
      BY DEF Positions
    <3> QED BY <3>1, FS_EmptySet DEF Newlines
  <2>3. 0 \in 0..Len(<<>>) /\ Len(<<>>) + 0 = 0 /\ Newlines(<<>>) + 0 = 0
    BY <2>1, <2>2
  <2>4. Q(<<>>)
    BY <2>1, <2>3
  <2> QED BY <2>1, <2>4
<1>2. ASSUME NEW texts \in Seq(Seq(Byte)), NEW t \in Seq(Byte), texts \in P
      PROVE  Append(texts, t) \in P
  <2> DEFINE longer == Append(texts, t)
             all == FlattenSeq(texts)
             e == CountsIn(JobsOf(texts))
             f == CountsIn(Split[t])
  <2>1. PICK k \in 0..Len(texts) : e["bytes"] = Len(all) + k /\ e["lines"] = Newlines(all) + k
    BY <1>2
  <2>2. PICK l \in 0..1 : f["bytes"] = Len(t) + l /\ f["lines"] = Newlines(t) + l
    BY BytesOfText DEF OffByOne
  <2>3. /\ longer \in Seq(Seq(Byte)) /\ Len(longer) = Len(texts) + 1 /\ Len(texts) \in Nat
        /\ FlattenSeq(longer) = all \o t /\ all \in Seq(Byte)
    BY AppendProperties, LenProperties, FlattenAppend, FlattenType
  <2>4. /\ Len(all \o t) = Len(all) + Len(t) /\ Len(all) \in Nat /\ Len(t) \in Nat
        /\ Newlines(all \o t) = Newlines(all) + Newlines(t)
        /\ Newlines(all) \in Nat /\ Newlines(t) \in Nat
    BY <2>3, ConcatProperties, LenProperties, NewlinesAddUp
  <2>5. CountsIn(JobsOf(longer)) = Add(e, f) /\ e \in Counters /\ f \in Counters
    <3>1. JobsOf(texts) \in Seq(Job) /\ Split[t] \in Seq(Job)
      BY JobsOfAppend, JobTypes
    <3> QED BY <3>1, JobsOfAppend, CountsInConcat, CountsInAppend
  <2> HIDE DEF longer, all, e, f
  <2>6. /\ CountsIn(JobsOf(longer))["bytes"] = e["bytes"] + f["bytes"]
        /\ CountsIn(JobsOf(longer))["lines"] = e["lines"] + f["lines"]
    <3>1. {"bytes", "lines"} \subseteq Counter
      BY DEF Counter
    <3> QED BY <2>5, <3>1, AddProperties
  <2>7. /\ k + l \in 0..Len(longer)
        /\ CountsIn(JobsOf(longer))["bytes"] = Len(FlattenSeq(longer)) + (k + l)
        /\ CountsIn(JobsOf(longer))["lines"] = Newlines(FlattenSeq(longer)) + (k + l)
    <3> DEFINE x == Newlines(all)
               y == Newlines(t)
               a == Len(all)
               b == Len(t)
               m == Len(texts)
    <3>1. /\ x \in Nat /\ y \in Nat /\ a \in Nat /\ b \in Nat /\ m \in Nat
          /\ k \in 0..m /\ l \in 0..1 /\ Len(longer) = m + 1
          /\ e["bytes"] = a + k /\ e["lines"] = x + k
          /\ f["bytes"] = b + l /\ f["lines"] = y + l
          /\ Len(FlattenSeq(longer)) = a + b /\ Newlines(FlattenSeq(longer)) = x + y
      BY <2>1, <2>2, <2>3, <2>4
    <3> HIDE DEF x, y, a, b, m
    <3>2. k + l \in 0..(m + 1)
      BY <3>1
    <3>3. /\ CountsIn(JobsOf(longer))["bytes"] = (a + k) + (b + l)
          /\ CountsIn(JobsOf(longer))["lines"] = (x + k) + (y + l)
      BY <2>6, <3>1
    <3>4. (a + k) + (b + l) = (a + b) + (k + l) /\ (x + k) + (y + l) = (x + y) + (k + l)
      BY <3>1
    <3> QED BY <3>1, <3>2, <3>3, <3>4
  <2>8. Q(longer)
    BY <2>7
  <2> QED BY <2>3, <2>8 DEF longer
<1> HIDE DEF P
<1>3. \A texts \in Seq(Seq(Byte)) : texts \in P
  BY <1>1, <1>2, InductionOnAppend
<1> QED BY <1>3 DEF P

-----------------------------------------------------------------------------
(* The characters of a text that is cut. *)

\* The last of a sequence and one behind it.
LEMMA LastOfConcat ==
  ASSUME NEW E, NEW s \in Seq(E), NEW r \in Seq(E), r # <<>>
  PROVE  s \o r # <<>> /\ Last(s \o r) = Last(r)
<1> DEFINE n == Len(s)
           m == Len(r)
<1>1. n \in Nat /\ m \in Nat \ {0}
  BY EmptySeq, LenProperties
<1>2. /\ s \o r \in Seq(E) /\ Len(s \o r) = n + m
      /\ \A i \in 1..(n + m) : (s \o r)[i] = IF i <= n THEN s[i] ELSE r[i - n]
  BY ConcatProperties
<1> HIDE DEF n, m
<1>3. n + m \in 1..(n + m) /\ ~ (n + m <= n) /\ (n + m) - n = m /\ n + m # 0
  BY <1>1
<1>4. (s \o r)[n + m] = r[m]
  BY <1>2, <1>3
<1>5. s \o r # <<>>
  BY <1>2, <1>3, EmptySeq
<1> QED BY <1>2, <1>4, <1>5 DEF Last, m

\* The characters of valid text and of what is behind it.
LEMMA CharsConcat ==
  \A a \in Seq(Byte) : ~ Invalid(a) =>
    \A b \in Seq(Byte) : Chars[a \o b] = Chars[a] \o Chars[b]
<1> DEFINE S == Seq(Byte)
           size == [a \in S |-> Len(a)]
           Adds(a) == \A b \in S : Chars[a \o b] = Chars[a] \o Chars[b]
           P == {a \in S : ~ Invalid(a) => Adds(a)}
<1>1. size \in [S -> Nat]
  BY LenProperties
<1>2. ASSUME NEW a \in S, \A c \in S : size[c] < size[a] => c \in P
      PROVE  a \in P
  <2>1. SUFFICES ASSUME ~ Invalid(a), NEW b \in S
                 PROVE  Chars[a \o b] = Chars[a] \o Chars[b]
    OBVIOUS
  <2>2. CASE a = <<>>
    BY <2>2, CharsDefined, ConcatEmptySeq
  <2>3. CASE a # <<>> /\ Width(a[1]) \notin 1..Len(a)
    <3>1. Chars[a] = <<"panic">>
      BY <2>3, CharsDefined
    <3> QED BY <2>1, <3>1 DEF Invalid, Last
  <2>4. CASE a # <<>> /\ Width(a[1]) \in 1..Len(a)
    <3> DEFINE w == Width(a[1])
               r == From(a, w + 1)
               ab == a \o b
    <3>1. Len(a) \in Nat \ {0} /\ Len(b) \in Nat
      BY <2>4, EmptySeq, LenProperties
    <3>2. w \in 0..Len(a) /\ w \in 1..Len(a)
      BY <2>4
    <3>3. ab \in S /\ Len(ab) = Len(a) + Len(b) /\ ab[1] = a[1] /\ ab # <<>>
      <4>1. /\ ab \in S /\ Len(ab) = Len(a) + Len(b)
            /\ \A i \in 1..(Len(a) + Len(b)) : ab[i] = IF i <= Len(a) THEN a[i] ELSE b[i - Len(a)]
        BY ConcatProperties
      <4>2. 1 \in 1..(Len(a) + Len(b)) /\ 1 <= Len(a) /\ Len(a) + Len(b) # 0
        BY <3>1
      <4> QED BY <4>1, <4>2, EmptySeq
    <3> HIDE DEF w
    <3>4. r \in S /\ Len(r) = Len(a) - w
      BY <3>2, CutInTwo DEF From
    <3>5. From(ab, w + 1) = r \o b
      BY <3>2, CutOfConcat DEF From
    <3> HIDE DEF ab, r
    <3>6. w \in 1..Len(ab)
      BY <3>1, <3>2, <3>3
    <3>7. Chars[ab] = <<a[1]>> \o Chars[r \o b]
      BY <3>3, <3>5, <3>6, CharsDefined DEF w
    <3>8. Chars[a] = <<a[1]>> \o Chars[r]
      BY <2>4, CharsDefined DEF w, r
    <3>9. /\ <<a[1]>> \in Seq(Char) /\ Chars[r] \in Seq(Char) /\ Chars[b] \in Seq(Char)
      <4>1. 1 \in 1..Len(a)
        BY <3>1
      <4>2. a[1] \in Byte
        BY <4>1, ElementOfSeq
      <4> QED BY <3>4, <4>2, CharsDefined DEF Char
    <3>10. ~ Invalid(r)
      BY <2>1, <3>8, <3>9, LastOfConcat DEF Invalid
    <3>11. Chars[r \o b] = Chars[r] \o Chars[b]
      <4>1. size[r] < size[a]
        BY <3>1, <3>2, <3>4
      <4> QED BY <1>2, <3>4, <3>10, <4>1
    <3>12. (<<a[1]>> \o Chars[r]) \o Chars[b] = <<a[1]>> \o (Chars[r] \o Chars[b])
      <4> DEFINE x == <<a[1]>>
                 y == Chars[r]
                 z == Chars[b]
      <4>1. x \in Seq(Char) /\ y \in Seq(Char) /\ z \in Seq(Char)
        BY <3>9
      <4> HIDE DEF x, y, z
      <4>2. (x \o y) \o z = x \o (y \o z)
        BY <4>1, ConcatAssociative
      <4> QED BY <4>2 DEF x, y, z
    <3> QED BY <3>7, <3>8, <3>11, <3>12 DEF ab
  <2> QED BY <2>2, <2>3, <2>4
<1> HIDE DEF P, S, size
<1>3. \A a \in S : a \in P
  BY <1>1, <1>2, InductionOnSize
<1> QED BY <1>3 DEF P, S

\* A newline is a character.
LEMMA NewlineChars ==
  /\ <<"nl">> \in Seq(Byte) /\ <<>> \in Seq(Byte)
  /\ Chars[<<"nl">>] = <<"nl">> /\ Chars[<<>>] = <<>>
<1>1. <<"nl">> \in Seq(Byte) /\ <<>> \in Seq(Byte)
  BY ByteAssumption, EmptySeq
<1>2. Chars[<<>>] = <<>>
  BY <1>1, CharsDefined
<1>3. Width("nl") = 1 /\ Len(<<"nl">>) = 1 /\ <<"nl">>[1] = "nl" /\ <<"nl">> # <<>>
  BY DEF Width
<1>4. From(<<"nl">>, 2) = <<>>
  <2>1. SubSeq(<<"nl">>, 2, 1) = <<>>
    OBVIOUS
  <2> QED BY <1>3, <2>1 DEF From
<1>5. 1 \in 1..1 /\ 1 + 1 = 2
  OBVIOUS
<1> DEFINE t == <<"nl">>
<1> HIDE DEF t
<1>6. t \in Seq(Byte) /\ t # <<>> /\ t[1] = "nl" /\ Len(t) = 1
  BY <1>1, <1>3 DEF t
<1>7. Chars[t] = <<"nl">> \o Chars[From(t, 2)]
  BY <1>3, <1>5, <1>6, CharsDefined
<1>8. Chars[t] = <<"nl">> \o <<>>
  BY <1>2, <1>4, <1>7 DEF t
<1>9. <<"nl">> \o <<>> = <<"nl">>
  BY <1>1, ConcatEmptySeq
<1> QED BY <1>1, <1>2, <1>8, <1>9 DEF t

\* A line is valid, or not, with its newline as without.
LEMMA CharsOfLine ==
  ASSUME NEW d \in Seq(Byte), ~ Invalid(d)
  PROVE  /\ Chars[d \o <<"nl">>] = Chars[d] \o <<"nl">> /\ ~ Invalid(d \o <<"nl">>)
         /\ \A r \in Seq(Byte) :
              Chars[(d \o <<"nl">>) \o r] = (Chars[d] \o <<"nl">>) \o Chars[r]
<1> DEFINE u == d \o <<"nl">>
<1>1. u \in Seq(Byte)
  BY NewlineChars, ConcatProperties
<1>2. Chars[u] = Chars[d] \o <<"nl">>
  BY NewlineChars, CharsConcat
<1>3. <<"nl">> \in Seq(Char) /\ <<"nl">> # <<>> /\ Last(<<"nl">>) = "nl" /\ Chars[d] \in Seq(Char)
  BY ByteAssumption, CharsDefined DEF Char, Last
<1> HIDE DEF u
<1>4. ~ Invalid(u)
  <2> DEFINE c == Chars[d]
             n == <<"nl">>
  <2>1. c \in Seq(Char) /\ n \in Seq(Char) /\ n # <<>> /\ Last(n) # "panic"
    BY <1>3
  <2> HIDE DEF c, n
  <2>2. Last(c \o n) = Last(n)
    BY <2>1, LastOfConcat, Zenon
  <2>3. Last(Chars[u]) # "panic"
    BY <1>2, <2>1, <2>2 DEF c, n
  <2> QED BY <2>3 DEF Invalid
<1>5. \A r \in Seq(Byte) : Chars[u \o r] = Chars[u] \o Chars[r]
  BY <1>1, <1>4, CharsConcat
<1> QED BY <1>2, <1>4, <1>5 DEF u

-----------------------------------------------------------------------------
(* Words. *)

WordsOf(t) == Cardinality(WordEnds(Chars[t], {"nl", "ws"}))

\* No word ends at a white character, or goes on behind it.
LEMMA WordEndsConcat ==
  ASSUME NEW E, NEW x \in Seq(E), NEW y \in Seq(E), "nl" \in E, NEW white, "nl" \in white
  PROVE  Cardinality(WordEnds((x \o <<"nl">>) \o y, white))
           = Cardinality(WordEnds(x, white)) + Cardinality(WordEnds(y, white))
<1> DEFINE u == x \o <<"nl">>
           z == u \o y
           n == Len(x)
           k == n + 1
           m == Len(y)
           A == WordEnds(x, white)
           B == WordEnds(y, white)
           C == WordEnds(z, white)
<1>1. /\ n \in Nat /\ m \in Nat /\ u \in Seq(E) /\ Len(u) = k
      /\ \A i \in 1..n : u[i] = x[i]
      /\ u[k] = "nl"
  <2>1. <<"nl">> \in Seq(E) /\ Len(<<"nl">>) = 1 /\ <<"nl">>[1] = "nl"
    OBVIOUS
  <2>2. /\ u \in Seq(E) /\ Len(u) = n + 1
        /\ \A i \in 1..(n + 1) : u[i] = IF i <= n THEN x[i] ELSE <<"nl">>[i - n]
    BY <2>1, ConcatProperties
  <2>3. n \in Nat /\ m \in Nat
    BY LenProperties
  <2> HIDE DEF n, m
  <2>4. n + 1 \in 1..(n + 1) /\ ~ (n + 1 <= n) /\ (n + 1) - n = 1
    BY <2>3
  <2>5. u[n + 1] = "nl"
    BY <2>1, <2>2, <2>4
  <2>6. ASSUME NEW i \in 1..n PROVE u[i] = x[i]
    BY <2>2, <2>3
  <2> QED BY <2>2, <2>3, <2>5, <2>6
<1> HIDE DEF u
<1>2. /\ Len(z) = k + m
      /\ \A i \in 1..n : z[i] = x[i]
      /\ z[k] = "nl"
      /\ \A j \in 1..m : z[k + j] = y[j]
  <2>1. /\ Len(z) = k + m
        /\ \A i \in 1..(k + m) : z[i] = IF i <= k THEN u[i] ELSE y[i - k]
    <3>1. /\ Len(z) = Len(u) + Len(y)
          /\ \A i \in 1..(Len(u) + Len(y)) : z[i] = IF i <= Len(u) THEN u[i] ELSE y[i - Len(u)]
      BY <1>1, ConcatProperties
    <3> HIDE DEF z, k
    <3> QED BY <1>1, <3>1
  <2> HIDE DEF z, m, n
  <2>2. ASSUME NEW i \in 1..n PROVE z[i] = x[i]
    <3>1. i \in 1..(k + m) /\ i <= k
      BY <1>1
    <3> QED BY <1>1, <2>1, <3>1
  <2>3. z[k] = "nl"
    <3>1. k \in 1..(k + m) /\ k <= k
      BY <1>1
    <3> QED BY <1>1, <2>1, <3>1
  <2>4. ASSUME NEW j \in 1..m PROVE z[k + j] = y[j]
    <3>1. k + j \in 1..(k + m) /\ ~ (k + j <= k) /\ (k + j) - k = j
      BY <1>1
    <3> QED BY <2>1, <3>1
  <2> QED BY <2>1, <2>2, <2>3, <2>4
<1> HIDE DEF z
<1>3. /\ \A i : i \in A <=> i \in 1..n /\ x[i] \notin white /\ (i = n \/ x[i + 1] \in white)
      /\ \A i : i \in B <=> i \in 1..m /\ y[i] \notin white /\ (i = m \/ y[i + 1] \in white)
      /\ \A i : i \in C <=> i \in 1..(k + m) /\ z[i] \notin white
                              /\ (i = k + m \/ z[i + 1] \in white)
  BY <1>2 DEF WordEnds
<1> HIDE DEF A, B, C, n, m
<1>4. ASSUME NEW i \in 1..n PROVE i \in C <=> i \in A
  <2>1. i \in 1..(k + m) /\ i # k + m /\ z[i] = x[i]
    BY <1>1, <1>2
  <2>2. CASE i = n
    BY <1>2, <1>3, <2>1, <2>2
  <2>3. CASE i # n
    <3>1. i + 1 \in 1..n
      BY <1>1, <2>3
    <3>2. z[i + 1] = x[i + 1]
      BY <1>2, <3>1
    <3> QED BY <1>3, <2>1, <2>3, <3>2
  <2> QED BY <2>2, <2>3
<1>5. ASSUME NEW i \in (n + 1)..k PROVE i \notin C
  <2>1. i = k
    BY <1>1
  <2> QED BY <1>2, <1>3, <2>1
<1>6. ASSUME NEW j \in 1..m PROVE k + j \in C <=> j \in B
  <2>1. k + j \in 1..(k + m) /\ z[k + j] = y[j] /\ (k + j = k + m <=> j = m)
    BY <1>1, <1>2
  <2>2. CASE j = m
    BY <1>3, <2>1, <2>2
  <2>3. CASE j # m
    <3>1. j + 1 \in 1..m /\ (k + j) + 1 = k + (j + 1)
      BY <1>1, <2>3
    <3>2. z[(k + j) + 1] = y[j + 1]
      BY <1>2, <3>1
    <3> QED BY <1>3, <2>1, <2>3, <3>2
  <2> QED BY <2>2, <2>3
<1>7. n \in Nat /\ k \in Nat /\ m \in Nat /\ n <= k
  BY <1>1
<1>8. A \in SUBSET (1..n) /\ B \in SUBSET (1..m) /\ C \in SUBSET (1..(k + m))
  BY <1>3
<1> HIDE DEF k
<1>9. Joined(n, k, m, A, B, C)
  BY <1>4, <1>5, <1>6, <1>7, <1>8 DEF Joined
<1>10. Cardinality(C) = Cardinality(A) + Cardinality(B)
  BY <1>7, <1>9, PositionsAddUp
<1> QED BY <1>10 DEF A, B, C, z, u

\* Words are counted.
LEMMA WordsType == \A t \in Seq(Byte) : WordsOf(t) \in Nat
BY CharsDefined, WordEndsType DEF WordsOf

\* A newline is between words.
LEMMA WordsOfCut ==
  ASSUME NEW d \in Seq(Byte), ~ Invalid(d)
  PROVE  /\ WordsOf(d \o <<"nl">>) = WordsOf(d)
         /\ \A r \in Seq(Byte) : WordsOf((d \o <<"nl">>) \o r) = WordsOf(d) + WordsOf(r)
<1>1. ASSUME NEW r \in Seq(Byte)
      PROVE  WordsOf((d \o <<"nl">>) \o r) = WordsOf(d) + WordsOf(r)
  <2> DEFINE x == Chars[d]
             y == Chars[r]
             white == {"nl", "ws"}
  <2>1. Chars[(d \o <<"nl">>) \o r] = (x \o <<"nl">>) \o y
    BY CharsOfLine
  <2>2. x \in Seq(Char) /\ y \in Seq(Char) /\ "nl" \in Char /\ "nl" \in white
    BY CharsDefined, ByteAssumption DEF Char
  <2> HIDE DEF x, y, white
  <2>3. Cardinality(WordEnds((x \o <<"nl">>) \o y, white))
          = Cardinality(WordEnds(x, white)) + Cardinality(WordEnds(y, white))
    BY <2>2, WordEndsConcat
  <2> QED BY <2>1, <2>3 DEF WordsOf, x, y, white
<1>2. WordsOf(<<>>) = 0
  <2>1. WordEnds(<<>>, {"nl", "ws"}) = {}
    BY DEF WordEnds
  <2> QED BY <2>1, NewlineChars, FS_EmptySet DEF WordsOf
<1>3. WordsOf((d \o <<"nl">>) \o <<>>) = WordsOf(d) + 0
  BY <1>1, <1>2, NewlineChars
<1>4. (d \o <<"nl">>) \o <<>> = d \o <<"nl">>
  <2>1. d \o <<"nl">> \in Seq(Byte)
    BY NewlineChars, ConcatProperties
  <2> QED BY <2>1, ConcatEmptySeq
<1> QED BY <1>1, <1>3, <1>4, WordsType

\* All of these jobs can be counted.
AllSucceed(jobs) == \A i \in 1..Len(jobs) : Succeeds(jobs[i])

\* They can when the first and the others can.
LEMMA SucceedConcat ==
  /\ \A a, b \in Seq(Job) : AllSucceed(a \o b) => AllSucceed(a) /\ AllSucceed(b)
  /\ \A job \in Job : AllSucceed(<<job>>) => Succeeds(job)
<1>1. ASSUME NEW a \in Seq(Job), NEW b \in Seq(Job), AllSucceed(a \o b)
      PROVE  AllSucceed(a) /\ AllSucceed(b)
  <2> DEFINE n == Len(a)
             m == Len(b)
  <2>1. /\ n \in Nat /\ m \in Nat /\ Len(a \o b) = n + m
        /\ \A i \in 1..(n + m) : (a \o b)[i] = IF i <= n THEN a[i] ELSE b[i - n]
    BY LenProperties, ConcatProperties
  <2> HIDE DEF n, m
  <2>2. \A i \in 1..(n + m) : Succeeds((a \o b)[i])
    BY <1>1, <2>1 DEF AllSucceed
  <2>3. ASSUME NEW i \in 1..n PROVE Succeeds(a[i])
    <3>1. i \in 1..(n + m) /\ i <= n
      BY <2>1
    <3> QED BY <2>1, <2>2, <3>1
  <2>4. ASSUME NEW i \in 1..m PROVE Succeeds(b[i])
    <3>1. n + i \in 1..(n + m) /\ ~ (n + i <= n) /\ (n + i) - n = i
      BY <2>1
    <3>2. (a \o b)[n + i] = b[i]
      BY <2>1, <3>1
    <3> QED BY <2>2, <3>1, <3>2
  <2> QED BY <2>3, <2>4 DEF AllSucceed, n, m
<1>2. ASSUME NEW job \in Job, AllSucceed(<<job>>) PROVE Succeeds(job)
  <2>1. Len(<<job>>) = 1 /\ <<job>>[1] = job /\ 1 \in 1..1
    OBVIOUS
  <2> QED BY <1>2, <2>1 DEF AllSucceed
<1> QED BY <1>1, <1>2

\* A job that can be counted counts its words.
LEMMA WordsOfJob ==
  ASSUME mode = "all", NEW job \in Job
  PROVE  /\ Succeeds(job) => ~ Invalid(Contents(job))
         /\ Count(job)["words"] = WordsOf(Contents(job))
BY DEF Succeeds, Count, CountAll, WordsOf

\* The words of the chunks are those of the text.
WordsKept(t, jobs) == AllSucceed(jobs) => CountsIn(jobs)["words"] = WordsOf(t)

\* It is so of every text.
LEMMA WordsOfText ==
  ASSUME mode = "all"
  PROVE  \A t \in Seq(Byte) : WordsKept(t, Split[t])
<1> DEFINE P == {t \in Seq(Byte) : WordsKept(t, Split[t])}
<1>1. ASSUME NEW t \in Seq(Byte), NEW d \in Seq(Byte), EndsWith(t, d) PROVE t \in P
  <2>1. SUFFICES ASSUME AllSucceed(Split[t]) PROVE CountsIn(Split[t])["words"] = WordsOf(t)
    BY DEF WordsKept
  <2>2. ItemOf(d) \in Job /\ Contents(ItemOf(d)) = d /\ Split[t] = <<ItemOf(d)>>
    BY <1>1, JobTypes DEF EndsWith
  <2>3. CountsIn(Split[t])["words"] = WordsOf(d)
    BY <2>2, CountsInOne, WordsOfJob
  <2>4. ~ Invalid(d)
    BY <2>1, <2>2, SucceedConcat, WordsOfJob
  <2>5. WordsOf(d \o <<"nl">>) = WordsOf(d)
    BY <2>4, WordsOfCut
  <2> QED BY <1>1, <2>3, <2>5 DEF EndsWith
<1>2. ASSUME NEW t \in Seq(Byte), NEW d \in Seq(Byte), NEW r \in Seq(Byte), BailsOut(t, d, r)
      PROVE  t \in P
  <2>1. CountsIn(Split[t]) = Count(BailOf(d, r)) /\ Contents(BailOf(d, r)) = t
    BY <1>2, JobTypes, CountsInOne DEF BailsOut
  <2>2. Count(BailOf(d, r))["words"] = WordsOf(t)
    BY <2>1, JobTypes, WordsOfJob
  <2> QED BY <2>1, <2>2 DEF WordsKept
<1>3. ASSUME NEW t \in Seq(Byte), NEW d \in Seq(Byte), NEW r \in Seq(Byte),
             CutInto(t, d, r), r \in P
      PROVE  t \in P
  <2>1. SUFFICES ASSUME AllSucceed(Split[t]) PROVE CountsIn(Split[t])["words"] = WordsOf(t)
    BY DEF WordsKept
  <2> DEFINE e == Count(ItemOf(d))
             f == CountsIn(Split[r])
  <2>2. /\ ItemOf(d) \in Job /\ Contents(ItemOf(d)) = d /\ Split[r] \in Seq(Job)
        /\ <<ItemOf(d)>> \in Seq(Job)
    BY JobTypes
  <2>3. AllSucceed(<<ItemOf(d)>>) /\ AllSucceed(Split[r])
    BY <1>3, <2>1, <2>2, SucceedConcat DEF CutInto
  <2>4. ~ Invalid(d)
    BY <2>2, <2>3, SucceedConcat, WordsOfJob
  <2>5. CountsIn(Split[t]) = Add(e, f)
    BY <1>3, CountsOfCut
  <2>6. e \in Counters /\ f \in Counters /\ "words" \in Counter
    BY <2>2, CountType, CountsInAppend DEF Counter
  <2>7. e["words"] = WordsOf(d) /\ f["words"] = WordsOf(r)
    BY <1>3, <2>2, <2>3, WordsOfJob DEF WordsKept
  <2> HIDE DEF e, f
  <2>8. CountsIn(Split[t])["words"] = e["words"] + f["words"]
    BY <2>5, <2>6, AddProperties
  <2>9. WordsOf(t) = WordsOf(d) + WordsOf(r)
    BY <1>3, <2>4, WordsOfCut DEF CutInto
  <2> QED BY <2>7, <2>8, <2>9
<1> HIDE DEF P
<1>4. \A t \in Seq(Byte) : t \in P
  BY <1>1, <1>2, <1>3, SplitInduction
<1> QED BY <1>4 DEF P

\* The words of the chunks are those of the texts.
LEMMA WordsOfTexts ==
  ASSUME mode = "all"
  PROVE  \A texts \in Seq(Seq(Byte)) : AllSucceed(JobsOf(texts)) =>
           CountsIn(JobsOf(texts))["words"]
             = FoldLeft(+, 0, [i \in 1..Len(texts) |-> WordsOf(texts[i])])
<1> DEFINE map(texts) == [i \in 1..Len(texts) |-> WordsOf(texts[i])]
           Kept(texts) == AllSucceed(JobsOf(texts)) =>
             CountsIn(JobsOf(texts))["words"] = FoldLeft(+, 0, map(texts))
           P == {texts \in Seq(Seq(Byte)) : Kept(texts)}
<1>1. ASSUME NEW texts \in Seq(Seq(Byte))
      PROVE  map(texts) \in Seq(Nat) /\ Len(map(texts)) = Len(texts)
  <2>1. Len(texts) \in Nat /\ \A i \in 1..Len(texts) : WordsOf(texts[i]) \in Nat
    BY WordsType, LenProperties, ElementOfSeq
  <2> QED BY <2>1
<1>2. map(<<>>) = <<>> /\ <<>> \in Seq(Seq(Byte))
  BY EmptySeq
<1>3. ASSUME NEW texts \in Seq(Seq(Byte)), NEW t \in Seq(Byte)
      PROVE  map(Append(texts, t)) = Append(map(texts), WordsOf(t))
  <2> DEFINE longer == Append(texts, t)
             n == Len(texts)
  <2>1. /\ n \in Nat /\ longer \in Seq(Seq(Byte)) /\ Len(longer) = n + 1
        /\ \A i \in 1..n : longer[i] = texts[i]
        /\ longer[n + 1] = t
    BY LenProperties, AppendProperties
  <2>2. WordsOf(t) \in Nat
    BY WordsType
  <2>3. /\ Append(map(texts), WordsOf(t)) \in Seq(Nat)
        /\ Len(Append(map(texts), WordsOf(t))) = n + 1
        /\ \A i \in 1..n : Append(map(texts), WordsOf(t))[i] = map(texts)[i]
        /\ Append(map(texts), WordsOf(t))[n + 1] = WordsOf(t)
    <3> HIDE DEF map
    <3> QED BY <1>1, <2>2, AppendProperties
  <2>4. map(longer) \in Seq(Nat) /\ Len(map(longer)) = n + 1
    <3> HIDE DEF map, longer
    <3> QED BY <1>1, <2>1
  <2>5. ASSUME NEW i \in 1..(n + 1)
        PROVE  map(longer)[i] = Append(map(texts), WordsOf(t))[i]
    <3> HIDE DEF longer, n
    <3>1. map(longer)[i] = WordsOf(longer[i])
      BY <2>1
    <3>2. CASE i \in 1..n
      <4>1. map(texts)[i] = WordsOf(texts[i])
        BY <3>2 DEF n
      <4> QED BY <2>1, <2>3, <3>1, <3>2, <4>1
    <3>3. CASE i = n + 1
      BY <2>1, <2>3, <3>1, <3>3
    <3>4. i \in 1..n \/ i = n + 1
      BY <2>1
    <3> QED BY <3>2, <3>3, <3>4
  <2> HIDE DEF map, longer, n
  <2>6. map(longer) = Append(map(texts), WordsOf(t))
    BY <2>3, <2>4, <2>5, SeqEqual
  <2> QED BY <2>6 DEF longer
<1> HIDE DEF map
<1>4. <<>> \in P
  <2>1. CountsIn(JobsOf(<<>>))["words"] = 0
    BY JobsOfAppend, CountsInAppend DEF Zero, Counter
  <2> QED BY <1>2, <2>1, NumbersAppend
<1>5. ASSUME NEW texts \in Seq(Seq(Byte)), NEW t \in Seq(Byte), texts \in P
      PROVE  Append(texts, t) \in P
  <2> DEFINE longer == Append(texts, t)
             e == CountsIn(JobsOf(texts))
             f == CountsIn(Split[t])
  <2>1. longer \in Seq(Seq(Byte)) /\ JobsOf(texts) \in Seq(Job) /\ Split[t] \in Seq(Job)
    BY AppendProperties, JobsOfAppend, JobTypes
  <2>2. SUFFICES ASSUME AllSucceed(JobsOf(longer))
                 PROVE  CountsIn(JobsOf(longer))["words"] = FoldLeft(+, 0, map(longer))
    BY <2>1
  <2>3. JobsOf(longer) = JobsOf(texts) \o Split[t]
    BY JobsOfAppend
  <2>4. AllSucceed(JobsOf(texts)) /\ AllSucceed(Split[t])
    BY <2>1, <2>2, <2>3, SucceedConcat
  <2>5. CountsIn(JobsOf(longer)) = Add(e, f)
    BY <2>1, <2>3, CountsInConcat
  <2>6. e \in Counters /\ f \in Counters /\ "words" \in Counter
    BY <2>1, CountsInAppend DEF Counter
  <2>7. e["words"] = FoldLeft(+, 0, map(texts)) /\ f["words"] = WordsOf(t)
    <3>1. e["words"] = FoldLeft(+, 0, map(texts))
      BY <1>5, <2>4
    <3>2. f["words"] = WordsOf(t)
      BY <2>4, WordsOfText DEF WordsKept
    <3> QED BY <3>1, <3>2
  <2>8. FoldLeft(+, 0, map(longer)) = FoldLeft(+, 0, map(texts)) + WordsOf(t)
    BY <1>1, <1>3, WordsType, NumbersAppend
  <2> HIDE DEF e, f, longer
  <2>9. CountsIn(JobsOf(longer))["words"] = e["words"] + f["words"]
    BY <2>5, <2>6, AddProperties
  <2> QED BY <2>7, <2>8, <2>9
<1> HIDE DEF P
<1>6. \A texts \in Seq(Seq(Byte)) : texts \in P
  BY <1>4, <1>5, InductionOnAppend
<1> QED BY <1>6 DEF P, map

-----------------------------------------------------------------------------
(* The boundaries of characters. *)

\* Every first byte has the other behind it, and every other its first.
Complete(t) ==
  \A i \in 1..Len(t) :
    /\ t[i] = "lead" => i + 1 \in 1..Len(t) /\ t[i + 1] = "cont"
    /\ t[i] = "cont" => i - 1 \in 1..Len(t) /\ t[i - 1] = "lead"

\* That is what makes a text valid.
LEMMA ValidIsComplete == \A t \in Seq(Byte) : ValidUtf8(t) => Complete(t)
<1> SUFFICES ASSUME NEW t \in Seq(Byte), ValidUtf8(t) PROVE Complete(t)
  OBVIOUS
<1> DEFINE n == Len(t)
<1>1. n \in Nat /\ {i + 1 : i \in Positions(t, {"lead"})} = Positions(t, {"cont"})
  BY LenProperties DEF ValidUtf8
<1>2. /\ \A i : i \in Positions(t, {"lead"}) <=> i \in 1..n /\ t[i] = "lead"
      /\ \A i : i \in Positions(t, {"cont"}) <=> i \in 1..n /\ t[i] = "cont"
  BY DEF Positions
<1> HIDE DEF n
<1>3. ASSUME NEW i \in 1..n, t[i] = "lead" PROVE i + 1 \in 1..n /\ t[i + 1] = "cont"
  <2>1. i + 1 \in Positions(t, {"cont"})
    BY <1>1, <1>2, <1>3
  <2> QED BY <1>2, <2>1
<1>4. ASSUME NEW i \in 1..n, t[i] = "cont" PROVE i - 1 \in 1..n /\ t[i - 1] = "lead"
  <2>1. i \in {j + 1 : j \in Positions(t, {"lead"})}
    BY <1>1, <1>2, <1>4
  <2>2. PICK j \in Positions(t, {"lead"}) : i = j + 1
    BY <2>1
  <2>3. j \in 1..n /\ t[j] = "lead" /\ i - 1 = j
    BY <1>1, <1>2, <2>2
  <2> QED BY <2>3
<1> QED BY <1>3, <1>4 DEF Complete, n

\* Behind a byte that is no first byte, a text goes on as complete as it was.
LEMMA CompleteRest ==
  ASSUME NEW t \in Seq(Byte), Complete(t), NEW k \in 1..Len(t), t[k] # "lead"
  PROVE  Complete(From(t, k + 1))
<1> DEFINE r == From(t, k + 1)
           n == Len(t)
           m == Len(r)
<1>1. n \in Nat /\ m = n - k /\ \A i \in 1..(n - k) : r[i] = t[k + i]
  <2>1. k \in 0..Len(t) /\ n \in Nat
    BY LenProperties
  <2> QED BY <2>1, CutInTwo DEF From
<1> HIDE DEF r, n, m
<1>2. \A i \in 1..n : /\ t[i] = "lead" => i + 1 \in 1..n /\ t[i + 1] = "cont"
                      /\ t[i] = "cont" => i - 1 \in 1..n /\ t[i - 1] = "lead"
  BY DEF Complete, n
<1>3. k \in 1..n
  BY DEF n
<1>4. ASSUME NEW i \in 1..m, r[i] = "lead" PROVE i + 1 \in 1..m /\ r[i + 1] = "cont"
  <2>1. k + i \in 1..n /\ t[k + i] = "lead"
    BY <1>1, <1>3, <1>4
  <2>2. (k + i) + 1 \in 1..n /\ t[(k + i) + 1] = "cont"
    BY <1>2, <2>1
  <2>3. i + 1 \in 1..m /\ (k + i) + 1 = k + (i + 1)
    BY <1>1, <1>3, <2>2
  <2> QED BY <1>1, <2>2, <2>3
<1>5. ASSUME NEW i \in 1..m, r[i] = "cont" PROVE i - 1 \in 1..m /\ r[i - 1] = "lead"
  <2>1. k + i \in 1..n /\ t[k + i] = "cont"
    BY <1>1, <1>3, <1>5
  <2>2. (k + i) - 1 \in 1..n /\ t[(k + i) - 1] = "lead"
    BY <1>2, <2>1
  <2>3. i # 1
    <3>1. SUFFICES ASSUME i = 1 PROVE FALSE
      OBVIOUS
    <3>2. (k + i) - 1 = k
      BY <1>3, <3>1
    <3> QED BY <2>2, <3>2
  <2>4. i - 1 \in 1..m /\ (k + i) - 1 = k + (i - 1)
    BY <1>1, <1>3, <2>3
  <2> QED BY <1>1, <2>2, <2>4
<1>6. Complete(r)
  BY <1>4, <1>5 DEF Complete, m
<1> QED BY <1>6 DEF r

\* So does what is before one that is not the second.
LEMMA CompleteFront ==
  ASSUME NEW d \in Seq(Byte), NEW r \in Seq(Byte), NEW b \in Byte, b # "cont",
         Complete((d \o <<b>>) \o r)
  PROVE  Complete(d)
<1> DEFINE u == d \o <<b>>
           z == u \o r
           n == Len(d)
           m == Len(r)
<1>1. n \in Nat /\ m \in Nat /\ <<b>> \in Seq(Byte) /\ Len(<<b>>) = 1 /\ <<b>>[1] = b
  BY LenProperties
<1>2. u \in Seq(Byte) /\ Len(u) = n + 1
      /\ \A i \in 1..(n + 1) : u[i] = IF i <= n THEN d[i] ELSE <<b>>[i - n]
  BY <1>1, ConcatProperties
<1>3. /\ Len(z) = Len(u) + m
      /\ \A i \in 1..(Len(u) + m) : z[i] = IF i <= Len(u) THEN u[i] ELSE r[i - Len(u)]
  <2> HIDE DEF u
  <2> QED BY <1>2, ConcatProperties
<1>4. Complete(z)
  OBVIOUS
<1> HIDE DEF u, z, n, m
<1>5. \A i \in 1..n : i \in 1..Len(z) /\ z[i] = d[i]
  BY <1>1, <1>2, <1>3
<1>6. n + 1 \in 1..Len(z) /\ z[n + 1] = b
  <2>1. n + 1 \in 1..(n + 1) /\ ~ (n + 1 <= n) /\ (n + 1) - n = 1
    BY <1>1
  <2>2. u[n + 1] = b
    BY <1>1, <1>2, <2>1
  <2>3. n + 1 \in 1..(Len(u) + m) /\ n + 1 <= Len(u)
    BY <1>1, <1>2
  <2>4. z[n + 1] = u[n + 1]
    BY <1>3, <2>3
  <2> QED BY <1>3, <2>2, <2>3, <2>4
<1>7. ASSUME NEW i \in 1..n, d[i] = "lead" PROVE i + 1 \in 1..n /\ d[i + 1] = "cont"
  <2>1. z[i + 1] = "cont"
    BY <1>4, <1>5, <1>7 DEF Complete
  <2>2. i # n
    BY <1>6, <2>1
  <2>3. i + 1 \in 1..n
    BY <1>1, <2>2
  <2> QED BY <1>5, <2>1, <2>3
<1>8. ASSUME NEW i \in 1..n, d[i] = "cont" PROVE i - 1 \in 1..n /\ d[i - 1] = "lead"
  <2>1. i - 1 \in 1..Len(z) /\ z[i - 1] = "lead"
    BY <1>4, <1>5, <1>8 DEF Complete
  <2>2. i - 1 \in 1..n
    BY <1>1, <2>1
  <2> QED BY <1>5, <2>1, <2>2
<1> QED BY <1>7, <1>8 DEF Complete, n

\* A valid line has valid text before and behind its newline.
LEMMA CompleteParts ==
  ASSUME NEW d \in Seq(Byte), NEW r \in Seq(Byte), Complete((d \o <<"nl">>) \o r)
  PROVE  Complete(d) /\ Complete(r)
<1> DEFINE u == d \o <<"nl">>
           t == u \o r
           k == Len(d) + 1
<1>1. "nl" \in Byte /\ <<"nl">> \in Seq(Byte) /\ Len(<<"nl">>) = 1 /\ <<"nl">>[1] = "nl"
  BY ByteAssumption
<1>2. Complete(d)
  BY <1>1, CompleteFront
<1>3. u \in Seq(Byte) /\ Len(u) = k /\ k \in Nat /\ u[k] = "nl"
  <2> DEFINE n == Len(d)
  <2>1. /\ u \in Seq(Byte) /\ Len(u) = n + 1 /\ n \in Nat
        /\ \A i \in 1..(n + 1) : u[i] = IF i <= n THEN d[i] ELSE <<"nl">>[i - n]
    BY <1>1, ConcatProperties, LenProperties
  <2> HIDE DEF n, u
  <2>2. n + 1 \in 1..(n + 1) /\ ~ (n + 1 <= n) /\ (n + 1) - n = 1
    BY <2>1
  <2>3. u[n + 1] = "nl" /\ n + 1 \in Nat
    BY <1>1, <2>1, <2>2
  <2> QED BY <2>1, <2>3 DEF n
<1> HIDE DEF u
<1>4. From(t, Len(u) + 1) = r
  BY <1>3, RestOfConcat DEF From
<1>5. /\ t \in Seq(Byte) /\ Len(t) = Len(u) + Len(r) /\ Len(r) \in Nat
      /\ \A i \in 1..(Len(u) + Len(r)) : t[i] = IF i <= Len(u) THEN u[i] ELSE r[i - Len(u)]
  BY <1>3, ConcatProperties, LenProperties
<1>6. Len(u) \in Nat \ {0}
  <2>1. Len(d) \in Nat
    BY LenProperties
  <2> QED BY <1>3, <2>1
<1>7. Complete(t)
  BY DEF u
<1> HIDE DEF t, k
<1>8. k \in 1..Len(t) /\ t[k] = u[k]
  BY <1>3, <1>5, <1>6
<1>9. Complete(From(t, k + 1))
  BY <1>3, <1>5, <1>7, <1>8, CompleteRest
<1> QED BY <1>2, <1>3, <1>4, <1>9

\* The characters of a valid text are found without a panic.
LEMMA CompleteIsValid == \A t \in Seq(Byte) : Complete(t) => ~ Invalid(t)
<1> DEFINE S == Seq(Byte)
           size == [t \in S |-> Len(t)]
           P == {t \in S : Complete(t) => ~ Invalid(t)}
<1>1. size \in [S -> Nat]
  BY LenProperties
<1>2. ASSUME NEW t \in S, \A u \in S : size[u] < size[t] => u \in P
      PROVE  t \in P
  <2>1. SUFFICES ASSUME Complete(t), t # <<>> PROVE ~ Invalid(t)
    <3>1. CASE t = <<>>
      BY <3>1, NewlineChars DEF Invalid
    <3> QED BY <3>1
  <2> DEFINE n == Len(t)
             w == Width(t[1])
             r == From(t, w + 1)
  <2>2. n \in Nat \ {0} /\ 1 \in 1..n
    <3>1. n \in Nat \ {0}
      BY <2>1, EmptySeq
    <3> QED BY <3>1
  <2>3. t[1] \in Byte
    BY <2>2, ElementOfSeq
  <2>4. t[1] # "cont"
    <3>1. SUFFICES ASSUME t[1] = "cont" PROVE FALSE
      OBVIOUS
    <3>2. 1 - 1 \in 1..n
      BY <2>1, <2>2, <3>1 DEF Complete
    <3> QED BY <2>2, <3>2
  <2>5. w \in 1..n /\ t[w] # "lead"
    <3>1. CASE t[1] = "lead"
      <4>1. 1 + 1 \in 1..n /\ t[1 + 1] = "cont"
        BY <2>1, <2>2, <3>1 DEF Complete
      <4>2. w = 2 /\ 1 + 1 = 2
        BY <3>1 DEF Width
      <4> QED BY <4>1, <4>2
    <3>2. CASE t[1] # "lead"
      <4>1. w = 1
        BY <2>4, <3>2 DEF Width
      <4> QED BY <2>2, <3>2, <4>1
    <3> QED BY <3>1, <3>2
  <2>6. Chars[t] = <<t[1]>> \o Chars[r]
    BY <2>1, <2>5, CharsDefined
  <2> HIDE DEF w
  <2>7. r \in S /\ Len(r) = n - w
    <3>1. w \in 0..n
      BY <2>5
    <3> QED BY <3>1, CutInTwo DEF From
  <2>8. Complete(r)
    BY <2>1, <2>5, CompleteRest
  <2> HIDE DEF r
  <2>9. ~ Invalid(r)
    <3>1. size[r] < size[t]
      BY <2>2, <2>5, <2>7
    <3> QED BY <1>2, <2>7, <2>8, <3>1
  <2>10. <<t[1]>> \in Seq(Char) /\ Chars[r] \in Seq(Char) /\ t[1] # "panic"
    BY <2>3, <2>7, CharsDefined, ByteAssumption DEF Char, Classes
  <2>11. CASE Chars[r] = <<>>
    <3>1. Chars[t] = <<t[1]>>
      BY <2>6, <2>10, <2>11, ConcatEmptySeq
    <3> QED BY <2>10, <3>1 DEF Invalid, Last
  <2>12. CASE Chars[r] # <<>>
    <3>1. Last(Chars[t]) = Last(Chars[r]) /\ Last(Chars[r]) # "panic"
      BY <2>6, <2>9, <2>10, <2>12, LastOfConcat DEF Invalid
    <3> QED BY <3>1 DEF Invalid
  <2> QED BY <2>11, <2>12
<1> HIDE DEF P, S, size
<1>3. \A t \in S : t \in P
  BY <1>1, <1>2, InductionOnSize
<1> QED BY <1>3 DEF P, S

\* None of these jobs can fail.
NoneFails(jobs) == \A i \in 1..Len(jobs) : ~ Fails(jobs[i])

\* That is so of two sequences when it is so of each.
LEMMA NoneFailsConcat ==
  /\ NoneFails(<<>>)
  /\ \A a, b \in Seq(Job) : NoneFails(a) /\ NoneFails(b) => NoneFails(a \o b)
  /\ \A job \in Job : ~ Fails(job) => NoneFails(<<job>>)
<1>1. ASSUME NEW a \in Seq(Job), NEW b \in Seq(Job), NoneFails(a), NoneFails(b)
      PROVE  NoneFails(a \o b)
  <2> DEFINE n == Len(a)
             m == Len(b)
  <2>1. /\ n \in Nat /\ m \in Nat /\ Len(a \o b) = n + m
        /\ \A i \in 1..(n + m) : (a \o b)[i] = IF i <= n THEN a[i] ELSE b[i - n]
    BY LenProperties, ConcatProperties
  <2>2. (\A i \in 1..n : ~ Fails(a[i])) /\ (\A i \in 1..m : ~ Fails(b[i]))
    BY <1>1 DEF NoneFails
  <2> HIDE DEF n, m
  <2>3. ASSUME NEW i \in 1..(n + m) PROVE ~ Fails((a \o b)[i])
    <3>1. CASE i <= n
      <4>1. i \in 1..n
        BY <2>1, <3>1
      <4> QED BY <2>1, <2>2, <3>1, <4>1
    <3>2. CASE ~ (i <= n)
      <4>1. i - n \in 1..m
        BY <2>1, <3>2
      <4> QED BY <2>1, <2>2, <3>2, <4>1
    <3> QED BY <3>1, <3>2
  <2> QED BY <2>1, <2>3 DEF NoneFails
<1>2. ASSUME NEW job \in Job, ~ Fails(job) PROVE NoneFails(<<job>>)
  <2>1. Len(<<job>>) = 1 /\ <<job>>[1] = job
    OBVIOUS
  <2> QED BY <1>2, <2>1 DEF NoneFails
<1>3. NoneFails(<<>>)
  <2>1. 1..Len(<<>>) = {}
    BY EmptySeq
  <2> QED BY <2>1 DEF NoneFails
<1> QED BY <1>1, <1>2, <1>3

\* A job that is not bailed out, of valid text, cannot fail.
LEMMA ValidJobs == \A d \in Seq(Byte) : Complete(d) => NoneFails(<<ItemOf(d)>>)
<1> SUFFICES ASSUME NEW d \in Seq(Byte), Complete(d) PROVE NoneFails(<<ItemOf(d)>>)
  OBVIOUS
<1>1. ItemOf(d) \in Job /\ Contents(ItemOf(d)) = d /\ ~ Invalid(d)
  BY JobTypes, CompleteIsValid
<1>2. ItemOf(d).kind # "bail"
  BY DEF ItemOf
<1>3. ~ Fails(ItemOf(d))
  BY <1>1, <1>2 DEF Fails
<1> QED BY <1>1, <1>3, NoneFailsConcat

\* The text is valid and no line of it is too long.
Sound(t) == Complete(t) /\ Last(Split[t]).kind # "bail"

\* None of its jobs can fail.
LEMMA SoundText == \A t \in Seq(Byte) : Sound(t) => NoneFails(Split[t])
<1> DEFINE P == {t \in Seq(Byte) : Split[t] # <<>> /\ (Sound(t) => NoneFails(Split[t]))}
<1>1. ASSUME NEW t \in Seq(Byte), NEW d \in Seq(Byte), EndsWith(t, d) PROVE t \in P
  <2>1. Split[t] = <<ItemOf(d)>> /\ <<ItemOf(d)>> # <<>>
    BY <1>1 DEF EndsWith
  <2>2. ASSUME Complete(t) PROVE Complete(d)
    <3>1. CASE t = d
      BY <2>2, <3>1
    <3>2. CASE t = d \o <<"nl">>
      <4>1. d \o <<"nl">> \in Seq(Byte) /\ <<>> \in Seq(Byte)
        BY NewlineChars, ConcatProperties
      <4>2. t = (d \o <<"nl">>) \o <<>>
        BY <3>2, <4>1, ConcatEmptySeq
      <4> QED BY <2>2, <4>1, <4>2, CompleteParts
    <3> QED BY <1>1, <3>1, <3>2 DEF EndsWith
  <2> QED BY <2>1, <2>2, ValidJobs DEF Sound
<1>2. ASSUME NEW t \in Seq(Byte), NEW d \in Seq(Byte), NEW r \in Seq(Byte), BailsOut(t, d, r)
      PROVE  t \in P
  <2> DEFINE job == BailOf(d, r)
  <2>1. Split[t] = <<job>> /\ job.kind = "bail"
    BY <1>2 DEF BailsOut, BailOf
  <2> HIDE DEF job
  <2>2. Last(Split[t]) = job /\ Split[t] # <<>>
    BY <2>1 DEF Last
  <2> QED BY <2>1, <2>2 DEF Sound
<1>3. ASSUME NEW t \in Seq(Byte), NEW d \in Seq(Byte), NEW r \in Seq(Byte),
             CutInto(t, d, r), r \in P
      PROVE  t \in P
  <2>1. <<ItemOf(d)>> \in Seq(Job) /\ Split[r] \in Seq(Job) /\ Split[r] # <<>>
    BY <1>3, JobTypes
  <2>2. Split[t] = <<ItemOf(d)>> \o Split[r] /\ t = (d \o <<"nl">>) \o r
    BY <1>3 DEF CutInto
  <2>3. Split[t] # <<>> /\ Last(Split[t]) = Last(Split[r])
    BY <2>1, <2>2, LastOfConcat
  <2>4. ASSUME Sound(t) PROVE NoneFails(Split[t])
    <3>1. Complete(d) /\ Complete(r)
      BY <2>2, <2>4, CompleteParts DEF Sound
    <3>2. NoneFails(Split[r])
      BY <1>3, <2>3, <2>4, <3>1 DEF Sound
    <3>3. NoneFails(<<ItemOf(d)>>)
      BY <3>1, ValidJobs
    <3> QED BY <2>1, <2>2, <3>2, <3>3, NoneFailsConcat
  <2> QED BY <2>3, <2>4
<1> HIDE DEF P
<1>4. \A t \in Seq(Byte) : t \in P
  BY <1>1, <1>2, <1>3, SplitInduction
<1> QED BY <1>4 DEF P

\* A text to blame a failure on.
Blamed(texts) == \E i \in 1..Len(texts) : ~ ValidUtf8(texts[i]) \/ Last(Split[texts[i]]).kind = "bail"

\* When there is none, no job can fail, and one more text blames no less.
LEMMA NoneToBlame ==
  /\ \A texts \in Seq(Seq(Byte)) : ~ Blamed(texts) => NoneFails(JobsOf(texts))
  /\ \A texts \in Seq(Seq(Byte)), t \in Seq(Byte) : Blamed(texts) => Blamed(Append(texts, t))
<1> DEFINE P == {texts \in Seq(Seq(Byte)) : ~ Blamed(texts) => NoneFails(JobsOf(texts))}
<1>1. <<>> \in P
  <2>1. JobsOf(<<>>) = <<>> /\ <<>> \in Seq(Seq(Byte))
    BY JobsOfAppend, EmptySeq
  <2> QED BY <2>1, NoneFailsConcat
<1>2. ASSUME NEW texts \in Seq(Seq(Byte)), NEW t \in Seq(Byte)
      PROVE  /\ Blamed(texts) => Blamed(Append(texts, t))
             /\ ~ Blamed(Append(texts, t)) => Sound(t)
  <2> DEFINE longer == Append(texts, t)
             n == Len(texts)
  <2>1. /\ n \in Nat /\ Len(longer) = n + 1
        /\ \A i \in 1..n : longer[i] = texts[i]
        /\ longer[n + 1] = t
    BY LenProperties, AppendProperties
  <2> HIDE DEF longer, n
  <2>2. ASSUME Blamed(texts) PROVE Blamed(longer)
    <3>1. PICK i \in 1..n : ~ ValidUtf8(texts[i]) \/ Last(Split[texts[i]]).kind = "bail"
      BY <2>2 DEF Blamed, n
    <3>2. i \in 1..Len(longer) /\ longer[i] = texts[i]
      BY <2>1
    <3> QED BY <3>1, <3>2 DEF Blamed
  <2>3. ASSUME ~ Blamed(longer) PROVE Sound(t)
    <3>1. n + 1 \in 1..Len(longer)
      BY <2>1
    <3>2. ValidUtf8(t) /\ Last(Split[t]).kind # "bail"
      BY <2>1, <2>3, <3>1 DEF Blamed
    <3> QED BY <3>2, ValidIsComplete DEF Sound
  <2> QED BY <2>2, <2>3 DEF longer
<1>3. ASSUME NEW texts \in Seq(Seq(Byte)), NEW t \in Seq(Byte), texts \in P
      PROVE  Append(texts, t) \in P
  <2>1. Append(texts, t) \in Seq(Seq(Byte)) /\ JobsOf(texts) \in Seq(Job) /\ Split[t] \in Seq(Job)
    BY AppendProperties, JobsOfAppend, JobTypes
  <2>2. ASSUME ~ Blamed(Append(texts, t)) PROVE NoneFails(JobsOf(Append(texts, t)))
    <3>1. NoneFails(JobsOf(texts)) /\ NoneFails(Split[t])
      BY <1>2, <1>3, <2>2, SoundText
    <3> QED BY <2>1, <3>1, JobsOfAppend, NoneFailsConcat
  <2> QED BY <2>1, <2>2
<1> HIDE DEF P
<1>4. \A texts \in Seq(Seq(Byte)) : texts \in P
  BY <1>1, <1>3, InductionOnAppend
<1> QED BY <1>2, <1>4 DEF P

-----------------------------------------------------------------------------
(* The inductive invariant of wc. *)

WcTypeOK ==
  /\ PoolTypeOK
  /\ mode \in {"bytes", "all"} /\ profile \in {"unwind", "abort"}
  /\ files \in Seq(Seq(Byte)) /\ opened \in Seq(Seq(Byte))
  /\ chunks \in Seq(Job)
  /\ total \in Counters
  /\ main \in MainState /\ joined \in 0..Size

\* Only the worker that holds the mutex receives, or runs a job.
LockInv ==
  \A w \in Workers : /\ worker[w] \in {"recv", "run"} => holder = w
                     /\ worker[w] = "run" => running[w] \in Job

\* A worker leaves its loop when there is nothing left to count.
ExitInv == (\E w \in Workers : worker[w] = "exited") => queue = <<>> /\ ~ sender

\* A panic of a job is one of a worker.
PoisonInv == poisoned => \E w \in Workers : worker[w] = "panicked"

\* The main thread has joined these workers.
JoinInv ==
  /\ \A w \in 1..joined : worker[w] = "exited"
  /\ main \in {"read", "submit"} => joined = 0
  /\ main = "submit" => chunks # <<>>
  /\ main = "joining" => joined < Size
  /\ main = "success" => joined = Size
  /\ main \in {"joining", "success"} => chunks = <<>>

\* The job that a worker runs.
InHand == IF holder \in Workers /\ worker[holder] = "run" THEN <<running[holder]>> ELSE <<>>

\* All of the jobs: those that have been counted, the one that is, those in the channel and
\* those not yet submitted.
AllOf(done, hand, waiting, ahead) == ((done \o hand) \o waiting) \o ahead

\* Unless a job has panicked, every job is in one of these places, and once.
CountInv ==
  ~ poisoned =>
    \E done \in Seq(Job) :
      /\ total = CountsIn(done) /\ AllSucceed(done)
      /\ AllOf(done, InHand, queue, chunks) = JobsOf(opened)

WcInv == /\ WcTypeOK /\ LockInv /\ ExitInv /\ PoisonInv /\ JoinInv /\ CountInv
         /\ BoundariesRespected

-----------------------------------------------------------------------------
(* Jobs on their way. *)

\* The next job is taken from the channel.
LEMMA AllOfRecv ==
  ASSUME NEW done \in Seq(Job), NEW q \in Seq(Job), NEW c \in Seq(Job), q # <<>>
  PROVE  AllOf(done, <<Head(q)>>, Tail(q), c) = AllOf(done, <<>>, q, c)
<1> DEFINE h == <<Head(q)>>
           r == Tail(q)
<1>1. h \in Seq(Job) /\ r \in Seq(Job) /\ q = h \o r
  BY HeadTailProperties
<1> HIDE DEF h, r
<1>2. done \o <<>> = done
  BY ConcatEmptySeq
<1>3. (done \o h) \o r = done \o (h \o r)
  BY <1>1, ConcatAssociative
<1>4. (done \o h) \o r = (done \o <<>>) \o q
  BY <1>1, <1>2, <1>3
<1> QED BY <1>4 DEF AllOf, h, r

\* A job has been counted.
LEMMA AllOfDone ==
  ASSUME NEW done \in Seq(Job), NEW q \in Seq(Job), NEW c \in Seq(Job), NEW job \in Job
  PROVE  /\ AllOf(Append(done, job), <<>>, q, c) = AllOf(done, <<job>>, q, c)
         /\ AllSucceed(done) /\ Succeeds(job) => AllSucceed(Append(done, job))
<1> DEFINE more == Append(done, job)
<1>1. more \in Seq(Job) /\ more = done \o <<job>>
  BY AppendProperties, AppendIsConcat
<1>2. Len(more) = Len(done) + 1 /\ Len(done) \in Nat
      /\ (\A i \in 1..Len(done) : more[i] = done[i]) /\ more[Len(done) + 1] = job
  BY AppendProperties, LenProperties
<1> HIDE DEF more
<1>3. more \o <<>> = more
  BY <1>1, ConcatEmptySeq
<1>4. ASSUME AllSucceed(done), Succeeds(job) PROVE AllSucceed(more)
  <2>1. ASSUME NEW i \in 1..Len(more) PROVE Succeeds(more[i])
    <3>1. i \in 1..Len(done) \/ i = Len(done) + 1
      BY <1>2
    <3> QED BY <1>2, <1>4, <3>1 DEF AllSucceed
  <2> QED BY <2>1 DEF AllSucceed
<1> QED BY <1>1, <1>3, <1>4 DEF AllOf, more

\* Where the parentheses are does not matter.
LEMMA ThreeParts == \A E : \A a, b, c \in Seq(E) : (a \o b) \o c = a \o (b \o c)
<1> SUFFICES ASSUME NEW E, NEW a \in Seq(E), NEW b \in Seq(E), NEW c \in Seq(E)
             PROVE  (a \o b) \o c = a \o (b \o c)
  OBVIOUS
<1> QED BY ConcatAssociative

SameParts(a, b, c, d) == (a \o (b \o c)) \o d = (a \o b) \o (c \o d)

\* Four parts can be joined in either order.
LEMMA FourParts == \A E : \A a, b, c, d \in Seq(E) : SameParts(a, b, c, d)
<1> SUFFICES ASSUME NEW E, NEW a \in Seq(E), NEW b \in Seq(E), NEW c \in Seq(E), NEW d \in Seq(E)
             PROVE  (a \o (b \o c)) \o d = (a \o b) \o (c \o d)
  BY DEF SameParts
<1> DEFINE x == a \o b
<1>1. x \in Seq(E)
  BY ConcatProperties
<1>2. (a \o b) \o c = a \o (b \o c)
  BY ThreeParts
<1> HIDE DEF x
<1>3. (x \o c) \o d = x \o (c \o d)
  BY <1>1, ThreeParts
<1> QED BY <1>2, <1>3 DEF x

\* A chunk is submitted.
LEMMA AllOfSubmit ==
  ASSUME NEW done \in Seq(Job), NEW hand \in Seq(Job), NEW q \in Seq(Job), NEW c \in Seq(Job),
         c # <<>>
  PROVE  AllOf(done, hand, Append(q, Head(c)), Tail(c)) = AllOf(done, hand, q, c)
<1> DEFINE h == <<Head(c)>>
           r == Tail(c)
           a == done \o hand
<1>1. h \in Seq(Job) /\ r \in Seq(Job) /\ c = h \o r /\ Head(c) \in Job
  BY HeadTailProperties
<1>2. a \in Seq(Job)
  BY ConcatProperties
<1>3. Append(q, Head(c)) = q \o h
  BY <1>1, AppendIsConcat
<1> HIDE DEF h, r, a
<1>4. q \in Seq(Job)
  OBVIOUS
<1>5. SameParts(a, q, h, r)
  BY <1>1, <1>2, <1>4, FourParts
<1> QED BY <1>1, <1>3, <1>5 DEF SameParts, AllOf, h, r, a

\* A text is opened once all of the chunks have been submitted.
LEMMA AllOfOpen ==
  ASSUME NEW done \in Seq(Job), NEW hand \in Seq(Job), NEW q \in Seq(Job), NEW c \in Seq(Job)
  PROVE  AllOf(done, hand, q, c) = AllOf(done, hand, q, <<>>) \o c
<1>1. (done \o hand) \o q \in Seq(Job)
  BY ConcatProperties
<1>2. ((done \o hand) \o q) \o <<>> = (done \o hand) \o q
  BY <1>1, ConcatEmptySeq
<1> QED BY <1>2 DEF AllOf

\* The job that is being counted is one of them.
LEMMA InHandIsOne ==
  ASSUME NEW done \in Seq(Job), NEW job \in Job, NEW q \in Seq(Job), NEW c \in Seq(Job)
  PROVE  NoneFails(AllOf(done, <<job>>, q, c)) => ~ Fails(job)
<1> DEFINE all == AllOf(done, <<job>>, q, c)
           n == Len(done) + 1
           a == done \o <<job>>
           b == a \o q
<1>1. <<job>> \in Seq(Job) /\ Len(<<job>>) = 1 /\ <<job>>[1] = job
      /\ Len(done) \in Nat /\ Len(q) \in Nat /\ Len(c) \in Nat
  BY LenProperties
<1>2. a \in Seq(Job) /\ Len(a) = n /\ a[n] = job
  <2>1. /\ a \in Seq(Job) /\ Len(a) = Len(done) + 1
        /\ \A i \in 1..(Len(done) + 1) :
             a[i] = IF i <= Len(done) THEN done[i] ELSE <<job>>[i - Len(done)]
    BY <1>1, ConcatProperties
  <2>2. n \in 1..(Len(done) + 1) /\ ~ (n <= Len(done)) /\ n - Len(done) = 1
    BY <1>1
  <2> HIDE DEF a, n
  <2>3. a[n] = job
    BY <1>1, <2>1, <2>2
  <2> QED BY <2>1, <2>3 DEF n
<1>3. n \in Nat \ {0}
  BY <1>1
<1> HIDE DEF a, n
<1>4. b \in Seq(Job) /\ Len(b) = n + Len(q) /\ b[n] = job
  <2>1. /\ b \in Seq(Job) /\ Len(b) = Len(a) + Len(q)
        /\ \A i \in 1..(Len(a) + Len(q)) : b[i] = IF i <= Len(a) THEN a[i] ELSE q[i - Len(a)]
    BY <1>2, ConcatProperties
  <2> HIDE DEF b
  <2>2. n \in 1..(Len(a) + Len(q)) /\ n <= Len(a)
    BY <1>1, <1>2, <1>3
  <2> QED BY <1>2, <2>1, <2>2
<1> HIDE DEF b
<1>5. all = b \o c
  BY DEF AllOf, a, b
<1> HIDE DEF all
<1>6. n \in 1..Len(all) /\ all[n] = job
  <2>1. /\ Len(all) = Len(b) + Len(c)
        /\ \A i \in 1..(Len(b) + Len(c)) : all[i] = IF i <= Len(b) THEN b[i] ELSE c[i - Len(b)]
    BY <1>4, <1>5, ConcatProperties
  <2>2. n \in 1..(Len(b) + Len(c)) /\ n <= Len(b)
    BY <1>1, <1>3, <1>4
  <2> QED BY <1>4, <2>1, <2>2
<1>7. ASSUME NoneFails(all) PROVE ~ Fails(job)
  BY <1>6, <1>7 DEF NoneFails
<1> QED BY <1>7 DEF all

ControlInv == WcTypeOK /\ LockInv /\ ExitInv /\ PoisonInv /\ JoinInv

\* Initially nothing has been read.
LEMMA WcInvInit == WcInit => WcInv
<1> SUFFICES ASSUME WcInit PROVE WcInv
  OBVIOUS
<1>1. <<>> \in Seq(Job) /\ <<>> \in Seq(Seq(Byte))
  BY EmptySeq
<1>2. Zero \in Counters
  BY <1>1, CountsInAppend
<1>3. WcTypeOK
  <2>1. PoolTypeOK
    BY <1>1 DEF WcInit, New, PoolTypeOK, WorkerState, NoWorker
  <2>2. mode \in {"bytes", "all"} /\ profile \in {"unwind", "abort"} /\ files \in Seq(Seq(Byte))
    BY FilesAssumption, ProfilesAssumption DEF WcInit
  <2>3. joined \in 0..Size
    BY ProcessorsAssumption DEF WcInit
  <2> QED BY <1>1, <1>2, <2>1, <2>2, <2>3 DEF WcTypeOK, WcInit, MainState
<1>4. LockInv /\ ExitInv /\ PoisonInv /\ BoundariesRespected
  BY DEF WcInit, New, LockInv, ExitInv, PoisonInv, BoundariesRespected
<1>5. JoinInv
  <2>1. 1..joined = {}
    BY DEF WcInit
  <2> QED BY <2>1 DEF WcInit, JoinInv
<1>6. CountInv
  <2>1. InHand = <<>>
    BY DEF InHand, WcInit, New
  <2>2. AllOf(<<>>, <<>>, <<>>, <<>>) = <<>>
    BY <1>1, ConcatEmptySeq DEF AllOf
  <2>3. JobsOf(opened) = <<>> /\ total = CountsIn(<<>>) /\ queue = <<>> /\ chunks = <<>>
    BY JobsOfAppend, CountsInAppend DEF WcInit, New
  <2>4. AllSucceed(<<>>)
    BY DEF AllSucceed
  <2> QED BY <1>1, <2>1, <2>2, <2>3, <2>4 DEF CountInv
<1> QED BY <1>3, <1>4, <1>5, <1>6 DEF WcInv

-----------------------------------------------------------------------------
(* Each step keeps control. *)

\* What the main thread reads, sends and joins.
LEMMA MainControl == ControlInv /\ Main => ControlInv'
<1> SUFFICES ASSUME ControlInv, Main PROVE ControlInv'
  OBVIOUS
<1> USE DEF ControlInv
<1>1. /\ queue \in Seq(Job) /\ worker \in [Workers -> WorkerState] /\ joined \in 0..Size
      /\ chunks \in Seq(Job) /\ files \in Seq(Seq(Byte)) /\ opened \in Seq(Seq(Byte))
      /\ AfterPanic \in {"failure", "panicked"} /\ Size \in Nat \ {0}
  BY ProcessorsAssumption DEF WcTypeOK, PoolTypeOK, AfterPanic
<1>2. CASE Open
  <2>1. files' \in Seq(Seq(Byte)) /\ opened' \in Seq(Seq(Byte)) /\ chunks' \in Seq(Job)
    BY <1>1, <1>2, HeadTailProperties, AppendProperties, JobTypes DEF Open
  <2>2. WcTypeOK'
    BY <1>2, <2>1 DEF Open, WcTypeOK, PoolTypeOK, pool, setting
  <2>3. LockInv' /\ ExitInv' /\ PoisonInv' /\ JoinInv'
    BY <1>2 DEF Open, LockInv, ExitInv, PoisonInv, JoinInv, pool, setting
  <2> QED BY <2>2, <2>3
<1>3. CASE OpenFails
  <2>1. files' \in Seq(Seq(Byte))
    BY <1>1, <1>3, HeadTailProperties DEF OpenFails
  <2>2. WcTypeOK'
    BY <1>3, <2>1 DEF OpenFails, WcTypeOK, PoolTypeOK, pool, setting
  <2>3. LockInv' /\ ExitInv' /\ PoisonInv' /\ JoinInv'
    BY <1>3 DEF OpenFails, LockInv, ExitInv, PoisonInv, JoinInv, pool, setting
  <2> QED BY <2>2, <2>3
<1>4. CASE Submit
  <2>0. main = "submit" /\ chunks # <<>>
    BY <1>4 DEF Submit, JoinInv
  <2>1. Head(chunks) \in Job /\ chunks' \in Seq(Job) /\ queue' \in Seq(Job)
    BY <1>1, <1>4, <2>0, HeadTailProperties, AppendProperties DEF Submit, Send
  <2>2. WcTypeOK'
    BY <1>4, <2>1 DEF Submit, Send, WcTypeOK, PoolTypeOK, MainState, setting
  <2>3. LockInv' /\ ExitInv' /\ PoisonInv' /\ JoinInv'
    BY <1>4 DEF Submit, Send, LockInv, ExitInv, PoisonInv, JoinInv, setting
  <2> QED BY <2>2, <2>3
<1>5. CASE ReadPanics
  <2>1. WcTypeOK'
    BY <1>1, <1>5 DEF ReadPanics, DropSender, WcTypeOK, PoolTypeOK, MainState, setting, reading
  <2>2. LockInv' /\ ExitInv' /\ PoisonInv' /\ JoinInv'
    BY <1>1, <1>5 DEF ReadPanics, DropSender, LockInv, ExitInv, PoisonInv, JoinInv, setting, reading
  <2> QED BY <2>1, <2>2
<1>9. CASE SubmitPanics
  <2>1. WcTypeOK'
    BY <1>1, <1>9 DEF SubmitPanics, DropSender, WcTypeOK, PoolTypeOK, MainState, setting, reading
  <2>2. LockInv' /\ ExitInv' /\ PoisonInv' /\ JoinInv'
    BY <1>1, <1>9 DEF SubmitPanics, DropSender, LockInv, ExitInv, PoisonInv, JoinInv, setting, reading
  <2> QED BY <2>1, <2>2
<1>10. CASE NextChunk
  <2>1. WcTypeOK'
    BY <1>1, <1>10 DEF NextChunk, WcTypeOK, PoolTypeOK, MainState, pool, setting, reading
  <2>2. LockInv' /\ ExitInv' /\ PoisonInv' /\ JoinInv'
    BY <1>1, <1>10 DEF NextChunk, LockInv, ExitInv, PoisonInv, JoinInv, pool, setting, reading
  <2> QED BY <2>1, <2>2
<1>6. CASE Finish
  <2>1. WcTypeOK'
    BY <1>1, <1>6 DEF Finish, DropSender, WcTypeOK, PoolTypeOK, MainState, setting, reading
  <2>2. LockInv' /\ ExitInv' /\ PoisonInv'
    BY <1>6 DEF Finish, DropSender, LockInv, ExitInv, PoisonInv, setting, reading
  <2>3. JoinInv'
    BY <1>1, <1>6 DEF Finish, DropSender, JoinInv, setting, reading
  <2> QED BY <2>1, <2>2, <2>3
<1>7. CASE Join
  <2>1. joined < Size /\ chunks = <<>> /\ \A w \in 1..joined : worker[w] = "exited"
    BY <1>7 DEF Join, JoinInv
  <2>2. UNCHANGED <<queue, sender, holder, poisoned, worker, running, mode, profile,
                    files, opened, chunks, total>>
    BY <1>7 DEF Join, pool, setting, reading
  <2>3. LockInv' /\ ExitInv' /\ PoisonInv'
    BY <2>2 DEF LockInv, ExitInv, PoisonInv
  <2>4. CASE worker[joined + 1] = "exited" /\ joined' = joined + 1
             /\ main' \in IF joined' = Size THEN {"success", AfterPanic} ELSE {main}
    <3>1. joined' \in 0..Size /\ \A w \in 1..joined' : w \in 1..joined \/ w = joined + 1
      BY <1>1, <2>1, <2>4
    <3>2. main' \in {"success", "failure", "panicked"} \/ (main' = "joining" /\ joined' # Size)
      BY <1>1, <1>7, <2>4 DEF Join
    <3>3. main' = "success" => joined' = Size
      BY <1>1, <1>7, <2>4 DEF Join
    <3>4. JoinInv'
      <4>1. \A w \in 1..joined' : worker[w] = "exited"
        BY <2>1, <2>4, <3>1
      <4>2. main' = "joining" => joined' < Size
        BY <1>1, <3>1, <3>2
      <4> QED BY <2>1, <2>2, <3>2, <3>3, <4>1, <4>2 DEF JoinInv
    <3>5. WcTypeOK'
      BY <2>2, <3>1, <3>2 DEF WcTypeOK, PoolTypeOK, MainState
    <3> QED BY <2>3, <3>4, <3>5
  <2>5. CASE joined' = joined /\ main' = AfterPanic
    <3>1. JoinInv'
      BY <1>1, <2>2, <2>5 DEF JoinInv
    <3>2. WcTypeOK'
      BY <1>1, <2>2, <2>5 DEF WcTypeOK, PoolTypeOK, MainState
    <3> QED BY <2>3, <3>1, <3>2
  <2> QED BY <1>7, <2>4, <2>5 DEF Join
<1>8. CASE Exit
  <2>1. WcTypeOK'
    BY <1>8 DEF Exit, WcTypeOK, PoolTypeOK, MainState, pool, setting, reading
  <2>2. LockInv' /\ ExitInv' /\ PoisonInv' /\ JoinInv'
    BY <1>8 DEF Exit, LockInv, ExitInv, PoisonInv, JoinInv, pool, setting, reading
  <2> QED BY <2>1, <2>2
<1> QED BY <1>2, <1>3, <1>4, <1>5, <1>6, <1>7, <1>8, <1>9, <1>10 DEF Main

\* One worker changes, or none: what it takes to keep control.
LEMMA OneWorkerChanges ==
  ASSUME ControlInv, NEW w \in Workers, NEW how \in WorkerState,
         worker[w] \notin Over, worker' = [worker EXCEPT ![w] = how],
         UNCHANGED <<sender, mode, profile, files, opened, chunks, main, joined>>,
         queue' \in Seq(Job), queue = <<>> => queue' = <<>>,
         how = "exited" => queue' = <<>> /\ ~ sender,
         poisoned' \in BOOLEAN, poisoned' => poisoned \/ how = "panicked",
         running' \in [Workers -> Job \cup {NoJob}],
         \A v \in Workers \ {w} : running'[v] = running[v],
         how = "run" => running'[w] \in Job,
         holder' \in Workers \cup {NoWorker},
         \A v \in Workers \ {w} : worker[v] \notin {"recv", "run"},
         how \in {"recv", "run"} => holder' = w,
         total' \in Counters
  PROVE  ControlInv'
<1> USE DEF ControlInv
<1>1. /\ worker \in [Workers -> WorkerState] /\ worker' \in [Workers -> WorkerState]
      /\ worker'[w] = how /\ \A v \in Workers \ {w} : worker'[v] = worker[v]
  BY DEF WcTypeOK, PoolTypeOK
<1>2. WcTypeOK'
  BY <1>1 DEF WcTypeOK, PoolTypeOK
<1>3. LockInv'
  <2>1. ASSUME NEW v \in Workers
        PROVE  (worker'[v] \in {"recv", "run"} => holder' = v) /\ (worker'[v] = "run" => running'[v] \in Job)
    <3>1. CASE v = w
      BY <1>1, <3>1
    <3>2. CASE v # w
      BY <1>1, <3>2
    <3> QED BY <3>1, <3>2
  <2> QED BY <2>1 DEF LockInv
<1>4. ExitInv'
  <2>1. SUFFICES ASSUME NEW v \in Workers, worker'[v] = "exited" PROVE queue' = <<>> /\ ~ sender'
    BY DEF ExitInv
  <2>2. CASE v = w
    BY <1>1, <2>1, <2>2
  <2>3. CASE v # w
    BY <1>1, <2>1, <2>3 DEF ExitInv
  <2> QED BY <2>2, <2>3
<1>5. PoisonInv'
  <2>1. SUFFICES ASSUME poisoned' PROVE \E v \in Workers : worker'[v] = "panicked"
    BY DEF PoisonInv
  <2>2. CASE how = "panicked"
    BY <1>1, <2>2
  <2>3. CASE poisoned
    <3>1. PICK v \in Workers : worker[v] = "panicked"
      BY <2>3 DEF PoisonInv
    <3>2. v # w
      BY <3>1 DEF Over
    <3> QED BY <1>1, <3>1, <3>2
  <2> QED BY <2>1, <2>2, <2>3
<1>6. JoinInv'
  <2>1. ASSUME NEW v \in 1..joined PROVE worker'[v] = "exited"
    <3>1. worker[v] = "exited" /\ v \in Workers
      BY ProcessorsAssumption DEF JoinInv, WcTypeOK, Workers
    <3>2. v # w
      BY <3>1 DEF Over
    <3> QED BY <1>1, <3>1, <3>2
  <2> QED BY <2>1 DEF JoinInv
<1> QED BY <1>2, <1>3, <1>4, <1>5, <1>6

\* What the mutex says about the worker that holds it, and the one that waits for it.
LEMMA HolderAlone ==
  ASSUME ControlInv, NEW w \in Workers
  PROVE  /\ worker[w] \in {"recv", "run"} =>
              holder = w /\ \A v \in Workers \ {w} : worker[v] \notin {"recv", "run"}
         /\ holder = NoWorker => \A v \in Workers : worker[v] \notin {"recv", "run"}
<1>1. NoWorker \notin Workers
  BY ProcessorsAssumption DEF NoWorker, Workers
<1> QED BY <1>1 DEF ControlInv, LockInv

\* What the workers do.
LEMMA WorkerControl ==
  ASSUME ControlInv, NEW w \in Workers, WorkerStep(w)
  PROVE  ControlInv'
<1> DEFINE alone == \A v \in Workers \ {w} : worker[v] \notin {"recv", "run"}
<1>1. /\ queue \in Seq(Job) /\ poisoned \in BOOLEAN /\ holder \in Workers \cup {NoWorker}
      /\ running \in [Workers -> Job \cup {NoJob}] /\ total \in Counters /\ <<>> \in Seq(Job)
      /\ {"lock", "recv", "run", "exited", "panicked"} \subseteq WorkerState
      /\ {"lock", "recv", "run"} \cap Over = {}
  BY EmptySeq DEF ControlInv, WcTypeOK, PoolTypeOK, WorkerState, Over
<1>2. CASE WorkerLoop(w)
  <2>1. UNCHANGED <<mode, profile, files, opened, chunks, total, main, joined>>
    BY <1>2 DEF WorkerLoop, setting, reading
  <2>2. CASE Acquire(w)
    <3>1. worker[w] \notin Over /\ alone
      BY <1>1, <2>2, HolderAlone DEF Acquire
    <3>2. /\ worker' = [worker EXCEPT ![w] = "recv"] /\ holder' = w
          /\ UNCHANGED <<queue, sender, poisoned, running>>
      BY <2>2 DEF Acquire
    <3> QED BY <1>1, <2>1, <3>1, <3>2, OneWorkerChanges
  <2>3. CASE AcquirePoisoned(w)
    <3>1. worker[w] \notin Over /\ alone
      BY <1>1, <2>3, HolderAlone DEF AcquirePoisoned
    <3>2. /\ worker' = [worker EXCEPT ![w] = "panicked"] /\ queue' \in {<<>>, queue}
          /\ UNCHANGED <<sender, holder, poisoned, running>>
      BY <2>3 DEF AcquirePoisoned, End
    <3> QED BY <1>1, <2>1, <3>1, <3>2, OneWorkerChanges
  <2>4. CASE Recv(w)
    <3>1. worker[w] \notin Over /\ alone /\ holder = w /\ queue # <<>>
      BY <1>1, <2>4, HolderAlone DEF Recv
    <3>2. /\ worker' = [worker EXCEPT ![w] = "run"]
          /\ queue' = Tail(queue) /\ running' = [running EXCEPT ![w] = Head(queue)]
          /\ UNCHANGED <<sender, holder, poisoned>>
      BY <2>4 DEF Recv
    <3>3. Head(queue) \in Job /\ queue' \in Seq(Job)
      BY <1>1, <3>1, <3>2, HeadTailProperties
    <3>4. /\ running' \in [Workers -> Job \cup {NoJob}] /\ running'[w] \in Job
          /\ \A v \in Workers \ {w} : running'[v] = running[v]
      BY <1>1, <3>2, <3>3
    <3> QED BY <1>1, <2>1, <3>1, <3>2, <3>3, <3>4, OneWorkerChanges
  <2>5. CASE Disconnected(w)
    <3>1. worker[w] \notin Over /\ alone /\ queue = <<>> /\ ~ sender
      BY <1>1, <2>5, HolderAlone DEF Disconnected
    <3>2. /\ worker' = [worker EXCEPT ![w] = "exited"] /\ queue' = <<>> /\ holder' = NoWorker
          /\ UNCHANGED <<sender, poisoned, running>>
      BY <2>5, <3>1 DEF Disconnected, End
    <3> QED BY <1>1, <2>1, <3>1, <3>2, OneWorkerChanges
  <2> QED BY <1>2, <2>2, <2>3, <2>4, <2>5 DEF WorkerLoop
<1>3. ASSUME worker[w] = "run"
      PROVE  /\ worker[w] \notin Over /\ alone /\ running[w] \in Job
             /\ [running EXCEPT ![w] = NoJob] \in [Workers -> Job \cup {NoJob}]
             /\ \A v \in Workers \ {w} : [running EXCEPT ![w] = NoJob][v] = running[v]
  BY <1>1, <1>3, HolderAlone DEF ControlInv, LockInv
<1>4. CASE JobDone(w)
  <2>1. /\ worker[w] = "run" /\ worker' = [worker EXCEPT ![w] = "lock"] /\ holder' = NoWorker
        /\ running' = [running EXCEPT ![w] = NoJob] /\ total' = Add(total, Count(running[w]))
        /\ UNCHANGED <<queue, sender, poisoned, mode, profile, files, opened, chunks, main, joined>>
    BY <1>4 DEF JobDone, Return, setting, reading
  <2>2. total' \in Counters
    BY <1>1, <1>3, <2>1, CountType, AddProperties
  <2> QED BY <1>1, <1>3, <2>1, <2>2, OneWorkerChanges
<1>5. CASE JobFails(w)
  <2>1. /\ worker[w] = "run"
        /\ UNCHANGED <<mode, profile, files, opened, chunks, total, joined>>
    BY <1>5 DEF JobFails, setting, reading
  <2>2. CASE JobPanics(w) /\ UNCHANGED main
    <3>1. /\ worker' = [worker EXCEPT ![w] = "panicked"] /\ queue' \in {<<>>, queue}
          /\ holder' = NoWorker /\ poisoned' = TRUE
          /\ running' = [running EXCEPT ![w] = NoJob] /\ UNCHANGED sender
      BY <2>2 DEF JobPanics, End
    <3> QED BY <1>1, <1>3, <2>1, <2>2, <3>1, OneWorkerChanges
  <2>3. CASE main' = "failure" /\ UNCHANGED pool
    <3>1. WcTypeOK'
      BY <2>1, <2>3 DEF ControlInv, WcTypeOK, PoolTypeOK, MainState, pool
    <3>2. LockInv' /\ ExitInv' /\ PoisonInv' /\ JoinInv'
      BY <2>1, <2>3 DEF ControlInv, LockInv, ExitInv, PoisonInv, JoinInv, pool
    <3> QED BY <3>1, <3>2 DEF ControlInv
  <2> QED BY <1>5, <2>2, <2>3 DEF JobFails
<1> QED BY <1>2, <1>4, <1>5 DEF WorkerStep

-----------------------------------------------------------------------------
(* Each step keeps count. *)

\* What is counted depends on the mode, and that is fixed.
LEMMA SameMode ==
  ASSUME mode' = mode
  PROVE  \A jobs : CountsIn(jobs)' = CountsIn(jobs) /\ AllSucceed(jobs)' = AllSucceed(jobs)
BY DEF CountsIn, AllSucceed, Count, Succeeds

\* All of the jobs are where they were.
LEMMA NothingMoves ==
  ASSUME CountInv, mode' = mode, total' = total, poisoned' = poisoned, queue' = queue,
         chunks' = chunks, opened' = opened, InHand' = InHand
  PROVE  CountInv'
BY SameMode DEF CountInv

\* The sequences that are counted.
LEMMA WcTypes ==
  ASSUME ControlInv
  PROVE  /\ queue \in Seq(Job) /\ chunks \in Seq(Job) /\ opened \in Seq(Seq(Byte))
         /\ files \in Seq(Seq(Byte)) /\ InHand \in Seq(Job)
<1>1. InHand \in Seq(Job)
  <2>1. CASE holder \in Workers /\ worker[holder] = "run"
    <3>1. running[holder] \in Job
      BY <2>1 DEF ControlInv, LockInv
    <3> QED BY <2>1, <3>1 DEF InHand
  <2>2. CASE ~ (holder \in Workers /\ worker[holder] = "run")
    BY <2>2, EmptySeq DEF InHand
  <2> QED BY <2>1, <2>2
<1> QED BY <1>1 DEF ControlInv, WcTypeOK, PoolTypeOK

\* The job in hand is that of the worker that runs one.
LEMMA HandOf ==
  ASSUME ControlInv
  PROVE  /\ \A w \in Workers : worker[w] = "run" => InHand = <<running[w]>> /\ running[w] \in Job
         /\ \A w \in Workers : worker[w] = "recv" => InHand = <<>>
         /\ holder = NoWorker => InHand = <<>>
<1>1. NoWorker \notin Workers
  BY ProcessorsAssumption DEF NoWorker, Workers
<1> QED BY <1>1 DEF ControlInv, LockInv, InHand

\* The main thread moves the chunks of what it opens to the channel.
LEMMA MainCounts ==
  ASSUME ControlInv, CountInv, Main
  PROVE  CountInv'
<1>1. /\ queue \in Seq(Job) /\ chunks \in Seq(Job) /\ opened \in Seq(Seq(Byte))
      /\ files \in Seq(Seq(Byte)) /\ InHand \in Seq(Job)
  BY WcTypes
<1>2. CASE Open
  <2> DEFINE t == Head(files)
  <2>1. /\ chunks = <<>> /\ files # <<>> /\ opened' = Append(opened, t) /\ chunks' = Split[t]
        /\ mode' = mode /\ total' = total /\ poisoned' = poisoned /\ queue' = queue
        /\ InHand' = InHand
    BY <1>2 DEF Open, pool, setting, InHand
  <2>2. t \in Seq(Byte) /\ Split[t] \in Seq(Job)
    <3>1. t \in Seq(Byte)
      BY <1>1, <2>1, HeadTailProperties
    <3> QED BY <3>1, JobTypes
  <2> HIDE DEF t
  <2>3. SUFFICES ASSUME ~ poisoned'
                 PROVE  \E done \in Seq(Job) :
                          /\ total' = CountsIn(done)' /\ AllSucceed(done)'
                          /\ AllOf(done, InHand', queue', chunks') = JobsOf(opened')
    BY DEF CountInv
  <2>4. PICK done \in Seq(Job) :
          /\ total = CountsIn(done) /\ AllSucceed(done)
          /\ AllOf(done, InHand, queue, chunks) = JobsOf(opened)
    BY <2>1, <2>3 DEF CountInv
  <2>5. AllOf(done, InHand, queue, Split[t]) = JobsOf(opened) \o Split[t]
    <3> DEFINE c == Split[t]
               hand == InHand
    <3>1. AllOf(done, hand, queue, <<>>) = JobsOf(opened)
      BY <2>1, <2>4
    <3>2. hand \in Seq(Job) /\ c \in Seq(Job)
      BY <1>1, <2>2
    <3> HIDE DEF c, hand
    <3>3. AllOf(done, hand, queue, c) = AllOf(done, hand, queue, <<>>) \o c
      BY <1>1, <3>2, AllOfOpen
    <3> QED BY <3>1, <3>3 DEF c, hand
  <2>6. JobsOf(Append(opened, t)) = JobsOf(opened) \o Split[t]
    BY <1>1, <2>2, JobsOfAppend
  <2>7. total' = CountsIn(done)' /\ AllSucceed(done)'
    BY <2>1, <2>4, SameMode
  <2> QED BY <2>1, <2>5, <2>6, <2>7
<1>3. CASE Submit
  <2>1. /\ chunks # <<>> /\ queue' = Append(queue, Head(chunks)) /\ chunks' = Tail(chunks)
        /\ mode' = mode /\ total' = total /\ poisoned' = poisoned /\ opened' = opened
        /\ InHand' = InHand
    BY <1>3 DEF Submit, Send, setting, InHand, ControlInv, JoinInv
  <2>2. SUFFICES ASSUME ~ poisoned'
                 PROVE  \E done \in Seq(Job) :
                          /\ total' = CountsIn(done)' /\ AllSucceed(done)'
                          /\ AllOf(done, InHand', queue', chunks') = JobsOf(opened')
    BY DEF CountInv
  <2>3. PICK done \in Seq(Job) :
          /\ total = CountsIn(done) /\ AllSucceed(done)
          /\ AllOf(done, InHand, queue, chunks) = JobsOf(opened)
    BY <2>1, <2>2 DEF CountInv
  <2>4. AllOf(done, InHand, Append(queue, Head(chunks)), Tail(chunks)) = JobsOf(opened)
    BY <1>1, <2>1, <2>3, AllOfSubmit
  <2>5. total' = CountsIn(done)' /\ AllSucceed(done)'
    BY <2>1, <2>3, SameMode
  <2> QED BY <2>1, <2>4, <2>5
<1>4. CASE OpenFails \/ NextChunk \/ SubmitPanics \/ ReadPanics \/ Finish \/ Join \/ Exit
  <2>1. /\ mode' = mode /\ total' = total /\ poisoned' = poisoned /\ queue' = queue
        /\ chunks' = chunks /\ opened' = opened /\ InHand' = InHand
    BY <1>4 DEF OpenFails, NextChunk, SubmitPanics, ReadPanics, Finish, Join, Exit, DropSender, pool, setting, reading, InHand
  <2> QED BY <2>1, NothingMoves
<1> QED BY <1>2, <1>3, <1>4 DEF Main

\* A worker moves a job from the channel to what has been counted.
LEMMA WorkerCounts ==
  ASSUME ControlInv, CountInv, NEW w \in Workers, WorkerStep(w)
  PROVE  CountInv'
<1>1. /\ queue \in Seq(Job) /\ chunks \in Seq(Job) /\ worker \in [Workers -> WorkerState]
      /\ running \in [Workers -> Job \cup {NoJob}]
  BY DEF ControlInv, WcTypeOK, PoolTypeOK
<1>2. NoWorker \notin Workers
  BY ProcessorsAssumption DEF NoWorker, Workers
<1>3. CASE WorkerLoop(w)
  <2>1. /\ mode' = mode /\ total' = total /\ chunks' = chunks /\ opened' = opened
    BY <1>3 DEF WorkerLoop, setting, reading
  <2>2. CASE Acquire(w)
    <3>1. InHand = <<>>
      BY <2>2, HandOf DEF Acquire
    <3>2. InHand' = <<>>
      BY <1>1, <2>2 DEF Acquire, InHand
    <3>3. poisoned' = poisoned /\ queue' = queue
      BY <2>2 DEF Acquire
    <3> QED BY <2>1, <3>1, <3>2, <3>3, NothingMoves
  <2>3. CASE AcquirePoisoned(w)
    BY <2>3 DEF AcquirePoisoned, CountInv
  <2>4. CASE Recv(w)
    <3>1. /\ queue # <<>> /\ queue' = Tail(queue) /\ poisoned' = poisoned
          /\ InHand = <<>> /\ holder = w
      BY <2>4, HandOf DEF Recv, ControlInv, LockInv
    <3>2. InHand' = <<Head(queue)>>
      BY <1>1, <2>4, <3>1 DEF Recv, InHand
    <3>3. SUFFICES ASSUME ~ poisoned'
                   PROVE  \E done \in Seq(Job) :
                            /\ total' = CountsIn(done)' /\ AllSucceed(done)'
                            /\ AllOf(done, InHand', queue', chunks') = JobsOf(opened')
      BY DEF CountInv
    <3>4. PICK done \in Seq(Job) :
            /\ total = CountsIn(done) /\ AllSucceed(done)
            /\ AllOf(done, InHand, queue, chunks) = JobsOf(opened)
      BY <3>1, <3>3 DEF CountInv
    <3>5. AllOf(done, <<Head(queue)>>, Tail(queue), chunks) = JobsOf(opened)
      BY <1>1, <3>1, <3>4, AllOfRecv
    <3>6. total' = CountsIn(done)' /\ AllSucceed(done)'
      BY <2>1, <3>4, SameMode
    <3> QED BY <2>1, <3>1, <3>2, <3>5, <3>6
  <2>5. CASE Disconnected(w)
    <3>1. InHand = <<>> /\ InHand' = <<>>
      BY <1>2, <2>5, HandOf DEF Disconnected, InHand
    <3>2. poisoned' = poisoned /\ queue' = queue
      BY <2>5 DEF Disconnected, End
    <3> QED BY <2>1, <3>1, <3>2, NothingMoves
  <2> QED BY <1>3, <2>2, <2>3, <2>4, <2>5 DEF WorkerLoop
<1>4. CASE JobDone(w)
  <2> DEFINE job == running[w]
  <2>1. /\ worker[w] = "run" /\ Succeeds(job) /\ total' = Add(total, Count(job))
        /\ mode' = mode /\ chunks' = chunks /\ opened' = opened
        /\ poisoned' = poisoned /\ queue' = queue
    BY <1>4 DEF JobDone, Return, setting, reading
  <2>2. InHand = <<job>> /\ job \in Job
    BY <2>1, HandOf
  <2>3. InHand' = <<>>
    BY <1>2, <1>4 DEF JobDone, Return, InHand
  <2> HIDE DEF job
  <2>4. SUFFICES ASSUME ~ poisoned'
                 PROVE  \E done \in Seq(Job) :
                          /\ total' = CountsIn(done)' /\ AllSucceed(done)'
                          /\ AllOf(done, InHand', queue', chunks') = JobsOf(opened')
    BY DEF CountInv
  <2>5. PICK done \in Seq(Job) :
          /\ total = CountsIn(done) /\ AllSucceed(done)
          /\ AllOf(done, InHand, queue, chunks) = JobsOf(opened)
    BY <2>1, <2>4 DEF CountInv
  <2>6. PICK more \in Seq(Job) :
          /\ AllOf(more, <<>>, queue, chunks) = JobsOf(opened) /\ AllSucceed(more)
          /\ CountsIn(more) = Add(CountsIn(done), Count(job))
    <3>1. AllOf(Append(done, job), <<>>, queue, chunks) = JobsOf(opened) /\ AllSucceed(Append(done, job))
      BY <1>1, <2>1, <2>2, <2>5, AllOfDone
    <3>2. Append(done, job) \in Seq(Job)
      BY <2>2, AppendProperties
    <3>3. CountsIn(Append(done, job)) = Add(CountsIn(done), Count(job))
      BY <2>2, CountsInAppend
    <3> QED BY <3>1, <3>2, <3>3
  <2>7. total' = CountsIn(more)' /\ AllSucceed(more)'
    BY <2>1, <2>5, <2>6, SameMode
  <2> QED BY <2>1, <2>3, <2>6, <2>7
<1>5. CASE JobFails(w)
  <2>1. CASE JobPanics(w)
    BY <2>1 DEF JobPanics, CountInv
  <2>2. CASE UNCHANGED pool
    <3>1. /\ mode' = mode /\ total' = total /\ poisoned' = poisoned /\ queue' = queue
          /\ chunks' = chunks /\ opened' = opened /\ InHand' = InHand
      BY <1>5, <2>2 DEF JobFails, pool, setting, reading, InHand
    <3> QED BY <3>1, NothingMoves
  <2> QED BY <1>5, <2>1, <2>2 DEF JobFails
<1> QED BY <1>3, <1>4, <1>5 DEF WorkerStep

\* A job panics only when there is a text to blame, and that one stays opened.
LEMMA BlameStep ==
  ASSUME ControlInv, CountInv, BoundariesRespected, WcNext
  PROVE  BoundariesRespected'
<1> USE DEF BoundariesRespected
<1>1. /\ queue \in Seq(Job) /\ chunks \in Seq(Job) /\ opened \in Seq(Seq(Byte))
      /\ files \in Seq(Seq(Byte))
  BY WcTypes
<1>2. BoundariesRespected <=> (poisoned => Blamed(opened))
  BY DEF Blamed
<1>3. BoundariesRespected' <=> (poisoned' => Blamed(opened'))
  BY DEF Blamed
<1> HIDE DEF BoundariesRespected
<1>4. CASE opened' = opened /\ poisoned' = poisoned
  BY <1>2, <1>3, <1>4
<1>5. CASE Open
  <2>1. poisoned' = poisoned /\ files # <<>> /\ opened' = Append(opened, Head(files))
    BY <1>5 DEF Open, pool
  <2>2. Head(files) \in Seq(Byte)
    BY <1>1, <2>1, HeadTailProperties
  <2>3. Blamed(opened) => Blamed(opened')
    BY <1>1, <2>1, <2>2, NoneToBlame
  <2> QED BY <1>2, <1>3, <2>1, <2>3
<1>6. ASSUME NEW w \in Workers, JobFails(w) PROVE BoundariesRespected'
  <2>1. worker[w] = "run" /\ Fails(running[w]) /\ opened' = opened
    BY <1>6 DEF JobFails, reading
  <2>2. CASE poisoned
    BY <1>2, <1>3, <2>1, <2>2
  <2>3. CASE ~ poisoned
    <3> DEFINE job == running[w]
    <3>1. InHand = <<job>> /\ job \in Job
      BY <2>1, HandOf
    <3>2. Fails(job)
      BY <2>1
    <3> HIDE DEF job
    <3>3. PICK done \in Seq(Job) : AllOf(done, <<job>>, queue, chunks) = JobsOf(opened)
      BY <2>3, <3>1 DEF CountInv
    <3>4. ~ NoneFails(JobsOf(opened))
      <4>1. NoneFails(AllOf(done, <<job>>, queue, chunks)) => ~ Fails(job)
        BY <1>1, <3>1, InHandIsOne
      <4> QED BY <3>2, <3>3, <4>1
    <3>5. Blamed(opened)
      BY <1>1, <3>4, NoneToBlame
    <3> QED BY <1>3, <2>1, <3>5
  <2> QED BY <2>2, <2>3
<1>7. CASE \/ OpenFails \/ NextChunk \/ Submit \/ SubmitPanics \/ ReadPanics
           \/ Finish \/ Join \/ Exit
  BY <1>4, <1>7 DEF OpenFails, NextChunk, Submit, Send, SubmitPanics, ReadPanics, Finish, Join, Exit, DropSender, pool, reading
<1>8. ASSUME NEW w \in Workers, WorkerLoop(w) \/ JobDone(w) PROVE BoundariesRespected'
  <2>1. opened' = opened /\ poisoned' = poisoned
    BY <1>8 DEF WorkerLoop, JobDone, Acquire, AcquirePoisoned, Recv, Disconnected, End, Return, reading
  <2> QED BY <1>4, <2>1
<1>9. CASE WcEnded
  BY <1>4, <1>9 DEF WcEnded, wcVars
<1> QED BY <1>5, <1>6, <1>7, <1>8, <1>9 DEF WcNext, Main, WorkerStep

\* Each step keeps the invariant.
LEMMA WcInvNext == WcInv /\ [WcNext]_wcVars => WcInv'
<1> SUFFICES ASSUME WcInv, [WcNext]_wcVars PROVE WcInv'
  OBVIOUS
<1>1. ControlInv /\ CountInv /\ BoundariesRespected
  BY DEF WcInv, ControlInv
<1>2. CASE UNCHANGED wcVars
  <2>1. WcTypeOK' /\ LockInv' /\ ExitInv' /\ PoisonInv' /\ JoinInv'
    BY <1>1, <1>2 DEF wcVars, ControlInv, WcTypeOK, PoolTypeOK, LockInv, ExitInv, PoisonInv, JoinInv
  <2>2. CountInv'
    <3>1. /\ mode' = mode /\ total' = total /\ poisoned' = poisoned /\ queue' = queue
          /\ chunks' = chunks /\ opened' = opened /\ InHand' = InHand
      BY <1>2 DEF wcVars, InHand
    <3> QED BY <1>1, <3>1, NothingMoves
  <2>3. BoundariesRespected'
    BY <1>1, <1>2 DEF wcVars, BoundariesRespected
  <2> QED BY <2>1, <2>2, <2>3 DEF WcInv
<1>3. CASE WcNext
  <2>1. BoundariesRespected'
    BY <1>1, <1>3, BlameStep
  <2>2. SUFFICES ControlInv' /\ CountInv'
    BY <2>1 DEF ControlInv, WcInv
  <2>3. CASE Main
    BY <1>1, <2>3, MainControl, MainCounts
  <2>4. CASE \E w \in Workers : WorkerStep(w)
    BY <1>1, <2>4, WorkerControl, WorkerCounts
  <2>5. CASE WcEnded
    <3>1. WcInv'
      BY <1>2, <2>5 DEF WcEnded
    <3> QED BY <3>1 DEF WcInv, ControlInv
  <2> QED BY <1>3, <2>3, <2>4, <2>5 DEF WcNext
<1> QED BY <1>2, <1>3

\* The invariant of wc: every chunk is ahead of the main thread, in the channel, in the
\* hands of the worker that holds the mutex, or counted, and no chunk is in two of them.
THEOREM WcInvariance == WcSpec => []WcInv
BY WcInvInit, WcInvNext, PTL DEF WcSpec

\* At the end every job of what was opened has been counted.
LEMMA Finished ==
  ASSUME WcInv, main = "success"
  PROVE  /\ total = CountsIn(JobsOf(opened)) /\ AllSucceed(JobsOf(opened))
         /\ opened \in Seq(Seq(Byte))
<1>1. ControlInv /\ CountInv
  BY DEF WcInv, ControlInv
<1>2. \A w \in Workers : worker[w] = "exited"
  BY <1>1 DEF ControlInv, JoinInv, Workers
<1>3. 1 \in Workers
  BY ProcessorsAssumption DEF Workers
<1>4. ~ poisoned /\ queue = <<>> /\ chunks = <<>> /\ InHand = <<>>
  BY <1>1, <1>2, <1>3 DEF ControlInv, PoisonInv, ExitInv, JoinInv, InHand
<1>5. PICK done \in Seq(Job) : /\ total = CountsIn(done) /\ AllSucceed(done)
                               /\ AllOf(done, <<>>, <<>>, <<>>) = JobsOf(opened)
  BY <1>1, <1>4 DEF CountInv
<1>6. AllOf(done, <<>>, <<>>, <<>>) = done
  BY ConcatEmptySeq DEF AllOf
<1> QED BY <1>1, <1>5, <1>6, WcTypes

\* `EveryChunkCounted`: what is printed is the sum of the counts of the chunks of every
\* opened input, each counted once, for every number of workers and chunk size.
THEOREM EveryChunkIsCounted == WcSpec => []EveryChunkCounted
<1>1. WcInv => EveryChunkCounted
  BY Finished, EveryJobCounted DEF EveryChunkCounted
<1> QED BY <1>1, WcInvariance, PTL

\* `BytesModeOffByOne`: `wc -b` and `wc -l` are off by at most one for each input, both by
\* as much, however the input is cut into chunks.
THEOREM BytesModeIsOffByOne == WcSpec => []BytesModeOffByOne
<1>1. ASSUME WcInv, main = "success", mode = "bytes" PROVE BytesModeOffByOne
  <2> DEFINE all == FlattenSeq(opened)
  <2>1. PICK k \in 0..Len(opened) :
          total["bytes"] = Len(all) + k /\ total["lines"] = Newlines(all) + k
    BY <1>1, Finished, BytesOfTexts
  <2>2. all \in Seq(Byte) /\ Len(opened) \in Nat
    BY <1>1, Finished, FlattenType, LenProperties
  <2> HIDE DEF all
  <2>3. Len(all) \in Nat /\ Newlines(all) \in Nat
    BY <2>2, LenProperties, NewlinesAddUp
  <2>4. total["bytes"] - Len(all) = k /\ total["lines"] - Newlines(all) = k
    BY <2>1, <2>2, <2>3
  <2> QED BY <2>1, <2>4 DEF BytesModeOffByOne, Newlines, all
<1>2. WcInv => BytesModeOffByOne
  BY <1>1 DEF BytesModeOffByOne
<1> QED BY <1>2, WcInvariance, PTL

\* `ChunkingKeepsWords`: the words counted in the chunks are the words of the inputs: a
\* chunk ends at a newline, so that it cuts no word and joins no two.
THEOREM ChunkingCutsNoWord == WcSpec => []ChunkingKeepsWords
<1>1. ASSUME WcInv, main = "success", mode = "all"
      PROVE  total["words"] = FoldLeft(+, 0, [i \in 1..Len(opened) |-> WordsOf(opened[i])])
  BY <1>1, Finished, WordsOfTexts
<1>2. WcInv => ChunkingKeepsWords
  BY <1>1 DEF ChunkingKeepsWords, WordsOf
<1> QED BY <1>2, WcInvariance, PTL

\* `BoundariesRespected`: a job panics only when an input is not valid UTF-8 or has a line
\* too long for a chunk: no chunk ends within a character.
THEOREM BoundariesAreRespected == WcSpec => []BoundariesRespected
<1>1. WcInv => BoundariesRespected
  BY DEF WcInv
<1> QED BY <1>1, WcInvariance, PTL
=============================================================================
