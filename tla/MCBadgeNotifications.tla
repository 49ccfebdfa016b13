------------------------ MODULE MCBadgeNotifications ------------------------
(* The instance of BadgeNotifications that TLC checks. *)
EXTENDS BadgeNotifications, TLC

SeededOne == <<2>>

Symmetry ==
    Permutations(Mountains) \cup Permutations(HikeIds) \cup Permutations(Handlers)

=============================================================================
