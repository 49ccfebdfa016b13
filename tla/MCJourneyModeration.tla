------------------------ MODULE MCJourneyModeration ------------------------
(* The instance of JourneyModeration that TLC checks. *)
EXTENDS JourneyModeration, TLC

Symmetry ==
    Permutations(Bodies) \cup Permutations(PostIds) \cup Permutations(ReportIds)
        \cup Permutations(Handlers)

=============================================================================
