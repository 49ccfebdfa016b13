------------------------ MODULE MCMountainCatalogue ------------------------
(* The instance of MountainCatalogue that TLC checks. *)
EXTENDS MountainCatalogue, TLC

Symmetry ==
    Permutations(Mountains) \cup Permutations(Objects) \cup Permutations(Photos)
    \cup Permutations(Keys) \cup Permutations(Values) \cup Permutations(Handlers)

=============================================================================
