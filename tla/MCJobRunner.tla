----------------------------- MODULE MCJobRunner -----------------------------
(* Instances of JobRunner for TLC. *)
EXTENDS JobRunner, TLC

\* Processes and logs are interchangeable (safety runs only).
JobSymmetry == Permutations(Process) \cup Permutations(Log)
=============================================================================
