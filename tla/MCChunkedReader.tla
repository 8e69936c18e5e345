-------------------------- MODULE MCChunkedReader ---------------------------
(* All inputs of up to MaxLen bytes, of a delimiter and two other bytes. *)
EXTENDS ChunkedReader

CONSTANT MaxLen

MCByte == {"nl", "a", "b"}
MCTexts == BoundedSeq(MCByte, MaxLen)
=============================================================================
