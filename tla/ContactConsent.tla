--------------------------- MODULE ContactConsent ----------------------------
(***************************************************************************)
(* What the partner context promises about private contacts, with nothing  *)
(* of how: a user may propose a partnership to another on a mountain, the  *)
(* other may consent to a proposal, and contacts pass between the two only *)
(* after a consent.  There are no rows, statuses, handlers or failures.    *)
(***************************************************************************)
CONSTANTS Users, Mountains

VARIABLES
    proposed,       \* <<a, b, m>>: a has proposed to b on m
    agreed,         \* <<a, b, m>>: b has consented to a proposal of a's
    shared          \* <<u, o, m>>: u has been given o's contacts

vars == <<proposed, agreed, shared>>

Init ==
    /\ proposed = {}
    /\ agreed = {}
    /\ shared = {}

Propose(a, b, m) ==
    /\ a # b
    /\ proposed' = proposed \cup {<<a, b, m>>}
    /\ UNCHANGED <<agreed, shared>>

Agree(a, b, m) ==
    /\ <<a, b, m>> \in proposed
    /\ agreed' = agreed \cup {<<a, b, m>>}
    /\ UNCHANGED <<proposed, shared>>

Share(u, o, m) ==
    /\ <<u, o, m>> \in agreed \/ <<o, u, m>> \in agreed
    /\ shared' = shared \cup {<<u, o, m>>}
    /\ UNCHANGED <<proposed, agreed>>

Next ==
    \E u, v \in Users, m \in Mountains :
        Propose(u, v, m) \/ Agree(u, v, m) \/ Share(u, v, m)

Spec == Init /\ [][Next]_vars

=============================================================================
