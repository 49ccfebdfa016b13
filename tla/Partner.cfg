SPECIFICATION Spec
CONSTANTS
    Users = {u1, u2}
    Mountains = {m1}
    RequestIds = {r1, r2}
    NoticeIds = {n1}
    Handlers = {p1, p2}
    NoNotice = NoNotice
SYMMETRY Symmetry
INVARIANTS
    TypeOK
    AcceptedByRecipient
    RevealNeedsConsent
PROPERTIES
    DecisionIsFinal
    MatchClosesPair
