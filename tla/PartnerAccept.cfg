\* One handler at a time and no failures, so that nothing but AcceptRequest
\* itself decides what has been done when it comes to its notification.
SPECIFICATION QuietSpec
CONSTANTS
    Users = {u1, u2}
    Mountains = {m1}
    RequestIds = {r1, r2}
    NoticeIds = {n1}
    Handlers = {p1}
    NoNotice = NoNotice
INVARIANTS
    AcceptFollowsThrough
