\* An edit that read a draft writes after the publication.
CONSTANTS
    Users = {u1}
    Bodies = {b1, b2}
    PostIds = {x1}
    HikeIds = {k1}
    ReportIds = {r1, r2}
    Handlers = {p1, p2}
    None = None
SPECIFICATION Spec
PROPERTIES PublishedIsImmutable
