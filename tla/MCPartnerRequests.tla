-------------------------- MODULE MCPartnerRequests --------------------------
(* Small instances of PartnerRequests: the symmetry of its model values.   *)
EXTENDS PartnerRequests, TLC

Symmetry ==
    Permutations(Users) \cup Permutations(RequestIds) \cup Permutations(Handlers)

=============================================================================
