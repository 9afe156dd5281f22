--------------------------- MODULE MCJobProgress ---------------------------
(* One invocation at a time under fairness, for TLC's run of EveryJobEnds. *)
EXTENDS CheckpointedJobs
=============================================================================
