\* One request and two background refreshes at a time, two places, and a
\* forecast that lives one tick.  No symmetry: liveness is checked.
CONSTANTS
    Readers = {p1}
    Refreshers = {g1, g2}
    Places = {here, there}
    WeatherTTL = 1
    Gone = Gone
SPECIFICATION FairSpec
INVARIANTS TypeOK DeletedLeavesNothing FormerPlaceFades
PROPERTIES ProfileNeverWaits ComesBackLive
