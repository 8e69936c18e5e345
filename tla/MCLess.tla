------------------------------- MODULE MCLess -------------------------------
(***************************************************************************)
(* "n" is a command, a literal of patterns and a byte of the files.  Files  *)
(* of one byte, with empty lines, without a last newline, and with a first *)
(* line in which the search finds the second byte.                         *)
(***************************************************************************)
EXTENDS Less

MCTexts == {<<>>, <<"n">>, <<"nl">>, <<"x", "n", "nl", "n", "j", "n", "nl">>,
            <<"nl", "nl", "j", "nl", "n", "nl", "j", "n">>,
            <<"j", "j", "n", "nl", "n", "n", "nl">>}
MCChars == {"G", "N", "g", "j", "k", "n", "q", "/", ".", "*", "(", "9"}
MCOtherKeys == {"Esc", "Backspace", "Enter", "Up", "Down", "Ctrl-g"}
=============================================================================
