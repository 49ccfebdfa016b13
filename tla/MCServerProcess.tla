--------------------------- MODULE MCServerProcess ---------------------------
(* The instance of ServerProcess that TLC checks. *)
EXTENDS ServerProcess, TLC

Symmetry == Permutations(SessionIds) \cup Permutations(Requests)

=============================================================================
