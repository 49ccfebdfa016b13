------------------------- MODULE MCIdentityAccounts -------------------------
(* The instance of IdentityAccounts that TLC checks. *)
EXTENDS IdentityAccounts, TLC

Symmetry ==
    Permutations(SessionIds) \cup Permutations(TokenIds)
        \cup Permutations(Handlers) \cup Permutations(Passwords)

=============================================================================
