\* One administrator, one member, three passwords, one restriction; at most two
\* sessions and two tokens ever; two handlers at a time.
CONSTANTS
    Users = {admin, member}
    Admins = {admin}
    Passwords = {w1, w2, w3}
    Restrictions = {suspended}
    SessionIds = {s1, s2}
    TokenIds = {t1, t2}
    Handlers = {h1, h2}
SPECIFICATION Spec
SYMMETRY Symmetry
INVARIANTS TypeOK TokenWorksOnce
PROPERTIES KeepsPromise ShutOutHolds ResetForcesLogout PasswordStaysCurrent VerificationLasts
