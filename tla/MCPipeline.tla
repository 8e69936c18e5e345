----------------------------- MODULE MCPipeline -----------------------------
(***************************************************************************)
(* Every program on inputs of up to three blocks: lines across blocks, an  *)
(* unfinished last line, an empty file, one that is missing, one that is   *)
(* not UTF-8; sponge on a new file, on an old one, and on the input.       *)
(***************************************************************************)
EXTENDS Pipeline

MCByte == {"a", "b", "x", "nl", "cr", "tab", "lead", "cont", "bad"}

Command(program, inputs) ==
  [program |-> program, inputs |-> inputs, outputs |-> <<>>, append |-> FALSE,
   unit |-> "byte", range |-> [form |-> "N-", n |-> 1], profile |-> "release"]

MCTargets == {[name |-> "out", append |-> a] : a \in BOOLEAN}
               \cup {[name |-> "stdout", append |-> FALSE], [name |-> "new", append |-> TRUE]}

MCFiles ==
  {[n \in {"stdin", "a", "b", "empty", "out", "log", "stdout"} |->
      CASE n = "stdin" -> <<"a", "nl", "b">>
        [] n = "a" -> <<"a", "cr", "nl", "bad", "nl", "b">>
        [] n = "b" -> <<"a", "tab", "lead", "cont", "nl", "tab", "a">>
        [] n = "out" -> <<"b", "nl", "a">>
        [] n = "log" -> <<"x">>
        [] OTHER -> <<>>]}

Ranges ==
  {[form |-> "N", n |-> n] : n \in 0..2} \cup {[form |-> "N-", n |-> 2]}
    \cup {[form |-> "-M", m |-> m] : m \in {1, 7}}
    \cup {[form |-> "N-M", n |-> n, m |-> m] : n \in {0, 2}, m \in {1, 3}}

Cuts ==
  {[Command("cut", <<"b">>) EXCEPT !.unit = u, !.range = r, !.profile = p] :
     u \in {"byte", "character", "field"}, r \in Ranges, p \in {"dev", "release"}}

Tees ==
  {[Command("tee", <<"stdin">>) EXCEPT !.outputs = o, !.append = a] :
     o \in {<<>>, <<"log">>, <<"log", "log2">>}, a \in BOOLEAN}

MCCommands ==
  {Command("cat", i) : i \in {<<"new">>, <<"out">>, <<"b", "out">>, <<"missing", "empty", "stdin">>}}
    \cup {Command("number", i) : i \in {<<"a">>, <<"stdin", "out">>}}
    \cup {Command("pv", i) : i \in {<<"out">>, <<"stdin">>}}
    \cup {Command("cut", i) : i \in {<<"out">>, <<"a">>}} \cup Cuts \cup Tees
=============================================================================
