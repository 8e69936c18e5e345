--------------------------------- MODULE Cut --------------------------------
(***************************************************************************)
(* What src/bin/cut.rs makes of a line.  A line is a sequence of bytes     *)
(* without its newline: "lead" and "cont" make up one character, every     *)
(* other byte is a character, and "tab" is the delimiter.                  *)
(***************************************************************************)
EXTENDS Naturals, Sequences, FiniteSetsExt, SequencesExt

CONSTANTS
  Byte,      \* the classes of bytes
  MaxUsize   \* the largest usize

\* main(): the pieces of the range N, N-, -M or N-M.
Bounds(range) ==
  CASE range.form = "N"   -> <<range.n, range.n>>
    [] range.form = "N-"  -> <<range.n, MaxUsize - 1>>
    [] range.form = "-M"  -> <<0, range.m>>
    [] range.form = "N-M" -> <<range.n, range.m>>

SaturatingSub(a, b) == IF a > b THEN a - b ELSE 0

\* end + 1, which a build with overflow checks does not survive.
Overflows(range) == Bounds(range)[2] = MaxUsize
OnePast(end) == (end + 1) % (MaxUsize + 1)

\* .skip(start.saturating_sub(1)).take((end + 1).saturating_sub(start))
Selected(units, range) ==
  LET first == SaturatingSub(Bounds(range)[1], 1)
      count == SaturatingSub(OnePast(Bounds(range)[2]), Bounds(range)[1])
  IN  SubSeq(units, first + 1, Min({first + count, Len(units)}))

\* str::split: what is between the delimiters, at least one field.
Fields(line) ==
  LET fields[s \in Seq(Byte)] ==
        LET k == SelectInSeq(s, LAMBDA b : b = "tab")
        IN  IF k = 0 THEN <<s>>
            ELSE <<SubSeq(s, 1, k - 1)>> \o fields[SubSeq(s, k + 1, Len(s))]
  IN  fields[line]

\* line.chars(): each ends before the next byte that starts one.
Characters(line) ==
  LET characters[s \in Seq(Byte)] ==
        LET k == SelectInSeq(SubSeq(s, 2, Len(s)), LAMBDA b : b # "cont")
        IN  IF k = 0 THEN <<s>>
            ELSE <<SubSeq(s, 1, k)>> \o characters[SubSeq(s, k + 1, Len(s))]
  IN  IF line = <<>> THEN <<>> ELSE characters[line]

\* The units to choose from; a field is written with a delimiter after it.
Units(line, unit) ==
  CASE unit = "byte"      -> [i \in 1..Len(line) |-> <<line[i]>>]
    [] unit = "character" -> Characters(line)
    [] unit = "field"     -> [i \in 1..Len(Fields(line)) |-> Fields(line)[i] \o <<"tab">>]

\* cut(), for one line.
CutLine(line, unit, range) ==
  FlattenSeq(Selected(Units(line, unit), range)) \o <<"nl">>

-----------------------------------------------------------------------------
(* The reference: which positions of a line a range names, counted from 1,  *)
(* as the comment at the top of src/bin/cut.rs lists them.  Every line is    *)
(* shorter than MaxUsize.                                                    *)

Named(range) ==
  CASE range.form = "N"   -> {range.n}
    [] range.form = "N-"  -> range.n..(MaxUsize - 1)
    [] range.form = "-M"  -> 1..range.m
    [] range.form = "N-M" -> range.n..range.m

\* The ranges whose start is a position: not -M, which the code starts at 0.
CountsFromOne(range) == Bounds(range)[1] # 0 /\ ~Overflows(range)

CutReference(line, unit, range) ==
  LET units == Units(line, unit)
      part(i) == IF i \in Named(range) THEN units[i] ELSE <<>>
  IN  FlattenSeq([i \in 1..Len(units) |-> part(i)]) \o <<"nl">>
=============================================================================
