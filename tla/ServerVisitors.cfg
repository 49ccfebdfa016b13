\* One migration of each directory, one browser at one address.
CONSTANTS
    Schema = {1}
    Seed = {2}
    Addresses = {a1}
    Burst = 1
    Cost = 1
    Idle = 1
    MaxTime = 2
    MaxRestarts = 0
    Browsers = {b1}
    SessionIds = {s1}
    Requests = {q1}
SPECIFICATION Spec
PROPERTIES AnyVisitorMayReport
