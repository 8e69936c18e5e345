-------------------------------- MODULE Less --------------------------------
(***************************************************************************)
(* src/bin/less.rs: the pager as a machine that is fed one key at a time.  *)
(* ReadlineState turns keys into actions, Pager carries them out on the    *)
(* mapped file, and the screen is drawn when an action says that it must   *)
(* be.  A position counts the bytes before it, as in the code.             *)
(*                                                                         *)
(* A pattern is a sequence over literals and the operators ".", "*" and    *)
(* "(" (of which the last is never closed, and so always an error).        *)
(***************************************************************************)
EXTENDS Integers, Sequences, FiniteSets, FiniteSetsExt, SequencesExt

CONSTANTS
  Texts,       \* the files to consider
  Chars,       \* the keys that are characters
  OtherKeys,   \* the keys that are not, from those below
  Columns,     \* the widths of the terminal to consider
  Rows,        \* its height
  Bottom,      \* how many lines jump_to_bottom shows: 10
  MaxPattern,  \* bound on the length of the patterns that are typed
  MaxI64       \* the largest number

Numerals == <<"1", "2", "3", "4", "5", "6", "7", "8", "9">>
Digits == Range(Numerals)
ToDigit(k) == CHOOSE d \in 1..9 : Numerals[d] = k

ASSUME TextsAssumption == Texts \subseteq Seq(STRING)
ASSUME KeysAssumption == OtherKeys \subseteq {"Esc", "Backspace", "Enter", "Up", "Down", "Ctrl-g"}
ASSUME SizesAssumption ==
  Rows \in Nat /\ Bottom \in Nat \ {0} /\ MaxPattern \in Nat /\ MaxI64 \in Nat

VARIABLES
  text, columns, profile,
  unwritable,  \* history: a write to the terminal has failed
  phase,       \* where the program is
  mode,        \* the variant of ReadlineState
  pattern,     \* of Slash
  number,      \* of Number
  scroll_pos, cursor,
  search,      \* the pattern that is searched for, if it is valid: a set
  drawn,       \* the scroll_pos and the search that the screen shows
  fatal,       \* history: the key at which less panicked
  began,       \* history: scroll_pos when the search began
  growing      \* history: since then, the pattern has only grown or been entered

start == <<text, columns, profile, unwritable>>   \* changed by WriteFails only
readline == <<mode, pattern, number>>
pager == <<scroll_pos, cursor, search>>
lessVars == <<start, phase, readline, pager, drawn, fatal, began, growing>>

LessInit ==
  /\ text \in Texts /\ columns \in Columns /\ profile \in {"dev", "release"}
  /\ unwritable = FALSE
  /\ phase = "start" /\ mode = "Initial" /\ pattern = <<>> /\ number = 0
  /\ scroll_pos = 0 /\ cursor = 0 /\ search = {}
  /\ drawn = <<>> /\ fatal = "none" /\ began = 0 /\ growing = FALSE

-----------------------------------------------------------------------------
(* Positions in the file. *)

Size == Len(text)
Newlines == {i \in 0..(Size - 1) : text[i + 1] = "nl"}

\* Mutant of LineBelow: the end of the file counts as a line.
LineBelowEnd(pos) ==
  LET ends == {i \in Newlines : i >= pos}
  IN  IF ends = {} THEN pos ELSE Min(ends) + 1

\* Where scroll_down and scroll_up go from a position: the position itself when
\* they refuse to move.
LineBelow(pos) ==
  LET ends == {i \in Newlines : i >= pos}
  IN  IF ends = {} \/ Min(ends) + 1 >= Size THEN pos ELSE Min(ends) + 1
LineAbove(pos) ==
  LET ends == {i \in Newlines : i < pos - 1}
  IN  IF pos <= 1 THEN pos ELSE IF ends = {} THEN 0 ELSE Max(ends) + 1

\* The newline before the last lines, if there are as many: a set.
LastLines ==
  {i \in Newlines : i < Size - 1
     /\ Cardinality({j \in Newlines : i <= j /\ j < Size - 1}) = Bottom}

-----------------------------------------------------------------------------
(* Regex: only whether a pattern matches at a position matters. *)

Valid(p) == ~Contains(p, "(") /\ (p # <<>> => p[1] # "*")

Starred(p, k) == k < Len(p) /\ p[k + 1] = "*"
Eats(p, k, i) == i <= Size /\ (IF p[k] = "." THEN text[i] # "nl" ELSE text[i] = p[k])
MatchesAt(p, pos) ==
  LET rest[s \in (1..(Len(p) + 1)) \X (1..(Size + 1))] ==
        LET k == s[1]
            i == s[2]
        IN  IF k > Len(p) THEN TRUE
            ELSE IF p[k] = "*" THEN rest[<<k + 1, i>>]
            ELSE IF Starred(p, k)
                 THEN rest[<<k + 1, i>>] \/ (Eats(p, k, i) /\ rest[<<k, i + 1>>])
                 ELSE Eats(p, k, i) /\ rest[<<k + 1, i + 1>>]
  IN  rest[<<1, pos + 1>>]

\* The positions of the matches in the file from a position on.
Matches(p, from) == {pos \in from..Size : MatchesAt(p, pos)}

-----------------------------------------------------------------------------
(* What the actions of the pager do. *)

\* draw_onto: chunks(0) panics when there is something in the lines it shows.
DrawPanics(pos) ==
  columns = 0 /\ \E i \in (pos + 1)..Size :
    /\ text[i] # "nl"
    /\ Cardinality({j \in Newlines : pos <= j /\ j < i - 1}) < Rows

Draw ==
  /\ drawn' = <<scroll_pos', search'>>
  /\ phase' = IF DrawPanics(scroll_pos') THEN "panicked" ELSE "running"

\* A method that returns true has moved the pager, and one that returns false
\* rings the bell.
MoveTo(pos) ==
  /\ scroll_pos' = pos /\ cursor' = pos /\ UNCHANGED search
  /\ Draw
Bell == UNCHANGED <<phase, pager, drawn>>
Scroll(pos) == IF pos # scroll_pos THEN MoveTo(pos) ELSE Bell
JumpToTop == Scroll(0)
JumpToBottom == IF LastLines = {} THEN Bell ELSE \E i \in LastLines : MoveTo(i + 1)

Panics == phase' = "panicked" /\ UNCHANGED <<pager, drawn>>

\* Mutant of PlaceAt: the match is not brought into its line.
PlaceAtMatch(pos) == scroll_pos' = pos /\ cursor' = pos

\* search_next, with a match: scroll_up() from the match.
PlaceAt(pos) == scroll_pos' = LineAbove(pos) /\ cursor' = pos

\* A slice that begins after the end of the file panics.
BeyondEnd(from) == from > Size

SearchNext ==
  IF search = {} THEN Bell
  ELSE LET p == CHOOSE p \in search : TRUE
           found == Matches(p, cursor + 1)
       IN  IF BeyondEnd(cursor + 1) THEN Panics
           ELSE IF found = {} THEN Bell
           ELSE PlaceAt(Min(found)) /\ UNCHANGED search /\ Draw

\* Mutant of Origin: the cursor is not brought to the top of the screen.
OriginAtCursor == cursor

\* Where search() starts from, exclusively.
Origin == scroll_pos

\* Mutant of Redraw: the result of search_next() is returned.
RedrawIfFound(found) == IF found = {} THEN UNCHANGED <<phase, drawn>> ELSE Draw

\* search() returns true: "always redraw since the search query may change".
Redraw(found) == Draw

Search(p) ==
  /\ search' = IF Valid(p) THEN {p} ELSE {}
  /\ LET found == IF Valid(p) THEN Matches(p, Origin + 1) ELSE {}
     IN  /\ IF found = {} THEN cursor' = Origin /\ UNCHANGED scroll_pos
            ELSE PlaceAt(Min(found))
         /\ IF Valid(p) /\ BeyondEnd(Origin + 1)
            THEN phase' = "panicked" /\ UNCHANGED drawn
            ELSE Redraw(found)

-----------------------------------------------------------------------------
(* The keys of each mode: ReadlineState::next and the action it returns. *)

Ready == phase = "running" /\ UNCHANGED start

InInitial(k) ==
  /\ Ready /\ mode = "Initial"
  /\ \/ k = "G" /\ JumpToBottom /\ UNCHANGED readline
     \/ k = "g" /\ JumpToTop /\ UNCHANGED readline
     \/ k \in {"j", "Down"} /\ Scroll(LineBelow(scroll_pos)) /\ UNCHANGED readline
     \/ k \in {"k", "Up"} /\ Scroll(LineAbove(scroll_pos)) /\ UNCHANGED readline
     \/ k = "n" /\ SearchNext /\ UNCHANGED readline
     \/ k = "N" /\ (IF search = {} THEN Bell ELSE Panics) /\ UNCHANGED readline
     \/ k = "Ctrl-g" /\ UNCHANGED pager /\ Draw /\ UNCHANGED readline
     \/ k = "q" /\ phase' = "success" /\ UNCHANGED <<pager, drawn, readline>>
     \/ k = "/" /\ mode' = "Slash" /\ pattern' = <<>> /\ UNCHANGED <<phase, number, pager, drawn>>
     \/ /\ k \in Digits
        /\ mode' = "Number" /\ number' = ToDigit(k)
        /\ UNCHANGED <<phase, pattern, pager, drawn>>
     \/ /\ k \notin Digits \cup {"G", "g", "j", "Down", "k", "Up", "n", "N", "Ctrl-g", "q", "/"}
        /\ UNCHANGED <<phase, pager, drawn, readline>>
  /\ began' = IF k = "/" THEN scroll_pos ELSE began
  /\ growing' = (k = "/")

Leave == mode' = "Initial" /\ pattern' = <<>> /\ number' = 0

\* A character in the pattern, whatever it means elsewhere.
TypePattern(k) ==
  /\ Ready /\ mode = "Slash" /\ k \in Chars /\ Len(pattern) < MaxPattern
  /\ pattern' = Append(pattern, k)
  /\ IF Range(pattern') = {"."} THEN UNCHANGED <<phase, pager, drawn>> ELSE Search(pattern')
  /\ UNCHANGED <<mode, number, began, growing>>

TakeBack(k) ==
  /\ Ready /\ k = "Backspace" /\ mode = "Slash"
  /\ IF Len(pattern) <= 1
     THEN Leave /\ UNCHANGED <<phase, pager, drawn>>
     ELSE pattern' = Front(pattern) /\ Search(pattern') /\ UNCHANGED <<mode, number>>
  /\ growing' = FALSE
  /\ UNCHANGED began

EnterPattern(k) ==
  /\ Ready /\ k = "Enter" /\ mode = "Slash"
  /\ Leave
  /\ Search(pattern)
  /\ UNCHANGED <<began, growing>>

ArrowInPattern(k) ==
  /\ Ready /\ mode = "Slash" /\ k \in {"Up", "Down"}
  /\ Panics
  /\ UNCHANGED <<readline, began, growing>>

\* 10 * i + d, in 64 bits.
Wrapped(n) == ((n + MaxI64 + 1) % (2 * (MaxI64 + 1))) - (MaxI64 + 1)
Fits(n) == -MaxI64 - 1 <= n /\ n <= MaxI64

TypeDigit(k) ==
  /\ Ready /\ mode = "Number" /\ k \in Digits
  /\ LET d == ToDigit(k)
     IN  IF profile = "dev" /\ ~(Fits(10 * number) /\ Fits(10 * number + d))
         THEN phase' = "panicked" /\ UNCHANGED number
         ELSE number' = Wrapped(10 * number + d) /\ UNCHANGED phase
  /\ UNCHANGED <<mode, pattern, pager, drawn, began, growing>>

\* Jump is not implemented: it draws the same screen again.
EnterNumber(k) ==
  /\ Ready /\ k = "Enter" /\ mode = "Number"
  /\ Leave
  /\ UNCHANGED pager
  /\ Draw
  /\ UNCHANGED <<began, growing>>

Escape(k) ==
  /\ Ready /\ k = "Esc" /\ mode # "Initial"
  /\ Leave
  /\ growing' = FALSE
  /\ UNCHANGED <<phase, pager, drawn, began>>

\* The keys that a mode ignores.
Ignored(k) ==
  /\ Ready
  /\ \/ mode = "Slash" /\ k \in OtherKeys \ {"Esc", "Backspace", "Enter", "Up", "Down"}
     \/ mode = "Number" /\ k \notin Digits \cup {"Esc", "Enter"}
  /\ UNCHANGED <<phase, readline, pager, drawn, began, growing>>

-----------------------------------------------------------------------------

\* less(): an empty file cannot be mapped, stdout must be a terminal; the first
\* screen is drawn before the first key.
Start ==
  /\ phase = "start"
  /\ UNCHANGED <<start, readline, pager, fatal, began, growing>>
  /\ \/ text # <<>> /\ Draw
     \/ phase' = "failure" /\ UNCHANGED drawn

\* A write to the terminal fails, at the first screen or at what a key has it write.
\* The unwraps in draw_onto panic, and so does leaving the alternate screen; an
\* error of draw_status or of the last flush() is returned.
WriteFails ==
  /\ phase \in {"start", "running"} /\ text # <<>>
  /\ phase' \in {"failure", "panicked"}
  /\ unwritable' = TRUE
  /\ UNCHANGED <<text, columns, profile, readline, pager, drawn, fatal, began, growing>>

\* The keys end, or cannot be read.
InputEnds ==
  /\ phase = "running"
  /\ phase' \in {"success", "failure"}
  /\ UNCHANGED <<start, readline, pager, drawn, fatal, began, growing>>

LessEnded == phase \in {"success", "failure", "panicked"} /\ UNCHANGED lessVars

Key(k) ==
  /\ \/ InInitial(k) \/ TypePattern(k) \/ TakeBack(k) \/ EnterPattern(k) \/ ArrowInPattern(k)
     \/ TypeDigit(k) \/ EnterNumber(k) \/ Escape(k) \/ Ignored(k)
  /\ fatal' = IF phase' = "panicked" THEN k ELSE fatal

LessNext ==
  \/ Start \/ InputEnds \/ WriteFails \/ LessEnded
  \/ \E k \in Chars \cup OtherKeys : Key(k)

LessSpec == LessInit /\ [][LessNext]_lessVars

-----------------------------------------------------------------------------

\* The screen always shows the part of the file at scroll_pos with the matches of
\* the current search, although it is drawn only when an action asks for it.
ScreenInSync == phase = "running" => drawn = <<scroll_pos, search>>

\* The screen begins at a line, or at the second byte of the file, where
\* scroll_up() refuses to move; the match the cursor stands on is in the first or
\* in the second line of it.  The cursor is never outside the file, and at its
\* end only after an empty match.
CursorOnScreen ==
  /\ scroll_pos = 0 \/ scroll_pos = 1 \/ scroll_pos - 1 \in Newlines
  /\ scroll_pos <= cursor /\ cursor <= Size
  /\ Cardinality({i \in Newlines : scroll_pos <= i /\ i < cursor}) <= 1
  /\ Size > 1 => /\ scroll_pos < Size
                 /\ cursor = Size => \E p \in search : MatchesAt(p, Size)

\* less panics only at what the code marks as to do, on a terminal without columns
\* or one that cannot be written, on too many digits, or when it searches on from an
\* empty match at the end of the file, which in a file of one byte is the top of the
\* screen; no sequence of keys makes it slice the file out of bounds otherwise.
PanicsExplained ==
  phase = "panicked" =>
    \/ fatal = "N" /\ search # {}
    \/ fatal \in {"Up", "Down"} /\ mode = "Slash"
    \/ columns = 0 \/ unwritable
    \/ mode = "Number" /\ profile = "dev" /\ ~Fits(10 * number + 9)
    \/ mode = "Initial" /\ fatal = "n" /\ cursor = Size /\ \E p \in search : MatchesAt(p, Size)
    \/ Size = 1 /\ scroll_pos = 1

\* While a pattern of literals is typed, each longer pattern is searched from where
\* the shorter one was found; what is found is nonetheless the first match after
\* the place where the search began, also after Enter has searched once more: only
\* a match at the second byte of the file, which becomes the top of the screen
\* without being at the start of a line, is lost.
IncrementalFindsFirst ==
  \A p \in search :
    LET found == Matches(p, began + 1)
    IN  phase = "running" /\ growing /\ pattern \in {p, <<>>} /\ (pattern = <<>> => mode = "Initial")
          /\ p # <<>> /\ Range(p) \cap {".", "*", "("} = {}
          /\ began # 1 /\ 1 \notin found
        => cursor = IF found = {} THEN scroll_pos ELSE Min(found)
=============================================================================
