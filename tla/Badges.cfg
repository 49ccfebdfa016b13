\* Two mountains, two hikes, a badge at 2 and an added one at 1 or at 2 as
\* well, sorted before or after it; pages of two notifications, at most five
\* of them; two hooks at a time.
CONSTANTS
    Mountains = {m1, m2}
    HikeIds = {k1, k2}
    Seeded <- SeededOne
    Added = {1, 2}
    MaxBadges = 2
    PageSize = 2
    MaxNotices = 5
    Handlers = {p1, p2}
SPECIFICATION Spec
SYMMETRY Symmetry
INVARIANTS TypeOK AnnouncedWasReached EarnedIsCovered HigherTierOnly
