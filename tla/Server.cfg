\* Two schema and two seed migrations; one browser at one address with two
\* requests under way; buckets of two tokens that refill in two ticks each; up
\* to two restarts.
CONSTANTS
    Schema = {1, 2}
    Seed = {3, 4}
    Addresses = {a1}
    Burst = 2
    Cost = 2
    Idle = 4
    MaxTime = 7
    MaxRestarts = 2
    Browsers = {b1}
    SessionIds = {s1}
    Requests = {q1, q2}
SPECIFICATION Spec
SYMMETRY Symmetry
INVARIANTS TypeOK BootAccepted ServingMeansReady BudgetHolds
PROPERTIES SweepIsInvisible RefusedOnceTold
