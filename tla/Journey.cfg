\* One author, one post, one hike, two reports, two handlers at a time.
CONSTANTS
    Users = {u1}
    Bodies = {b1, b2}
    PostIds = {x1}
    HikeIds = {k1}
    ReportIds = {r1, r2}
    Handlers = {p1, p2}
    None = None
SPECIFICATION Spec
SYMMETRY Symmetry
INVARIANTS TypeOK ResolutionsHold
PROPERTIES KeepsPromise ModerationIsFinal PublishedSettles ClosedSettles
