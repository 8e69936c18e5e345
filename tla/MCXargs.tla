------------------------------- MODULE MCXargs ------------------------------
(***************************************************************************)
(* Three threads, the least at which two of them can wait for the mutex    *)
(* while a third runs a command, and up to six commands, more than the     *)
(* threads and the channel hold; other inputs with and without each flag.  *)
(***************************************************************************)
EXTENDS Xargs

MCNoJob == 0
MCJobs == 1..6
Line == <<"a", "nl">>
MCTexts == BoundedSeq({"nl", "a", "err"}, 3)
             \cup {<<"a", "nl", "bad", "nl", "nl", "a">>, <<"a", "nul", "a", "nl">>,
                   Line \o Line \o Line \o Line \o Line \o Line}
MCOptions == {{}, {"replace"}, {"null"}}
MCMaxArgs == {1, 2}
AllKinds == {"Synchronous", "Concurrent"}
AllProfiles == {"unwind", "abort"}
=============================================================================
