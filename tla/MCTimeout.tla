------------------------------ MODULE MCTimeout -----------------------------
(* Durations shorter and longer than the polling interval, and 0. *)
EXTENDS Timeout
=============================================================================
