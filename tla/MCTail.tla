------------------------------- MODULE MCTail -------------------------------
(* Files of up to three blocks, with lines shorter and longer than a block. *)
EXTENDS Tail

CONSTANT MaxText

MCByte == {"nl", "a"}
MCTexts == BoundedSeq(MCByte, MaxText)
BothSources == {"file", "stdin"}
=============================================================================
