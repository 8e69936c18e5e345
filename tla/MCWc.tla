-------------------------------- MODULE MCWc --------------------------------
(* All short inputs over the byte classes that interact with chunking. *)
EXTENDS Wc

Short(classes, n) == BoundedSeq(classes, n)
MCFiles ==
  {<<t>> : t \in Short({"nl", "a", "lead", "cont"}, 4) \cup Short({"nl", "ws", "a"}, 4)
                   \cup Short({"nl", "sp", "a"}, 3)}
    \cup {<<t, u>> : t, u \in Short({"nl", "a"}, 2)}
    \cup {<<<<"cont", "nl">>, <<"a", "nl">>, <<"a", "nl">>>>}
BothProfiles == {"unwind", "abort"}
=============================================================================
