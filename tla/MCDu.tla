-------------------------------- MODULE MCDu --------------------------------
(***************************************************************************)
(* Trees three directories deep, with siblings, an empty directory and     *)
(* sizes that tell every set of files from the others; entries that cannot *)
(* be looked at; an input that is a file, and one below another.           *)
(***************************************************************************)
EXTENDS Du, TLC

MCTrees ==
  {[children |-> "top" :> {"f1", "a", "b"} @@ "a" :> {"f2", "c"} @@ "b" :> {} @@ "c" :> {"f4"},
    blocks   |-> "f1" :> 1 @@ "f2" :> 2 @@ "f4" :> 4,
    barred   |-> b] : b \in {{}, {"f4"}, {"b", "f1"}}}
MCInputs == {<<"top">>, <<"c", "a">>, <<"f1", "b">>}
=============================================================================
