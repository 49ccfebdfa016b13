SPECIFICATION FairSpec
CONSTANTS
    Users = {u1, u2, u3}
    Mountains = {m1}
    RequestIds = {r1}
    NoticeIds = {}
    Handlers = {p1, p2}
    NoNotice = NoNotice
PROPERTIES
    EveryDecisionSettles
    KeepsPromise
