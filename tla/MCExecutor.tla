----------------------------- MODULE MCExecutor -----------------------------
(* As many threads as jobs. *)
EXTENDS Executor

MCNoJob == 0
MC3Jobs == 1..3
PoolOnly == {"Concurrent"}
AllProfiles == {"unwind", "abort"}
=============================================================================
