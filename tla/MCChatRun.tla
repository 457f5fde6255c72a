------------------------------ MODULE MCChatRun ------------------------------
(* Instance for TLC: the identities of runs, actions and workers are          *)
(* interchangeable.                                                           *)
EXTENDS ChatRun, TLC

Symmetry == Permutations(Run) \cup Permutations(Action) \cup Permutations(Worker)
=============================================================================
