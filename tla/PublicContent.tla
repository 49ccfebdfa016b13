---------------------------- MODULE PublicContent ----------------------------
(***************************************************************************)
(* What journey and moderation promise about content in public, with       *)
(* nothing of how.  Content is listed or not, as its owner likes, until it *)
(* is barred, after which it is never listed again; and owners are told of *)
(* a resolution only about barred content.  No such promise is made to who *)
(* asks for content by its id: once written it is served, hidden or not,   *)
(* until it is deleted, and after that never again.  There are no columns, *)
(* reports in progress, handlers or failures.                              *)
(***************************************************************************)
CONSTANT Contents

VARIABLES
    listed,         \* in the feed, or in the badge count
    served,         \* answered to a request that names its id
    barred,         \* hidden, de-counted or deleted
    told            \* what an owner was told a resolution of

vars == <<listed, served, barred, told>>

Init ==
    /\ listed = {}
    /\ served = {}
    /\ barred = {}
    /\ told = {}

(* What is written is served by its id, and may be listed at once.         *)
Write(c) ==
    /\ c \notin barred
    /\ served' = served \cup {c}
    /\ listed' \in {listed, listed \cup {c}}
    /\ UNCHANGED <<barred, told>>

List(c) ==
    /\ c \notin barred
    /\ listed' = listed \cup {c}
    /\ UNCHANGED <<served, barred, told>>

Withdraw(c) ==
    /\ listed' = listed \ {c}
    /\ UNCHANGED <<served, barred, told>>

(* Hiding leaves what is served by id alone.                               *)
Hide(c) ==
    /\ listed' = listed \ {c}
    /\ barred' = barred \cup {c}
    /\ UNCHANGED <<served, told>>

Delete(c) ==
    /\ listed' = listed \ {c}
    /\ served' = served \ {c}
    /\ barred' = barred \cup {c}
    /\ UNCHANGED told

Tell(c) ==
    /\ c \in barred
    /\ told' = told \cup {c}
    /\ UNCHANGED <<listed, served, barred>>

Next ==
    \E c \in Contents :
        Write(c) \/ List(c) \/ Withdraw(c) \/ Hide(c) \/ Delete(c) \/ Tell(c)

Spec == Init /\ [][Next]_vars

=============================================================================
