-------------------------- MODULE MCPreparedAction --------------------------
(* Instances of PreparedAction for TLC. *)
EXTENDS PreparedAction, TLC

\* Requests are interchangeable.
RequestSymmetry == Permutations(Request)
=============================================================================
