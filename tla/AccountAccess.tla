---------------------------- MODULE AccountAccess -----------------------------
(***************************************************************************)
(* What the identity context promises about who gets into an account, with *)
(* nothing of how.  An account has a password and a status, and becomes    *)
(* only what something said it may become: its registration, a mailed link *)
(* that was used, or an administrator who was signed in.  A session opens  *)
(* only for a sign-in that was let through while the account was active    *)
(* and had the password given.  There are no rows, copies of rows,         *)
(* handlers or failures: whatever is under way may come to nothing.        *)
(***************************************************************************)
CONSTANTS Users, Admins, Passwords, Restrictions, SessionIds, TokenIds

VARIABLES
    has,            \* has[u]: what account u is, {} before its registration
    may,            \* may[u]: what it is or may yet become by what is under way
    due,            \* accounts whose verification link is still to be mailed
    issued,         \* links ever mailed
    links,          \* <<t, kind, u>>: link t works, once, for account u
    admitted,       \* <<u, w>>: a sign-in to u with password w was let through
    opened,         \* sessions ever opened
    live            \* <<s, u, w>>: session s lives, signed in to u with w

vars == <<has, may, due, issued, links, admitted, opened, live>>

Secret(w) == <<"password", w>>
Standing(status) == <<"status", status>>
Verified(b) == <<"verified", b>>

Account(w, b) == {Secret(w), Standing("active"), Verified(b)}

Init ==
    /\ \E w \in [Admins -> Passwords] :
          has = [u \in Users |-> IF u \in Admins THEN Account(w[u], TRUE) ELSE {}]
    /\ may = has
    /\ due = {} /\ issued = {} /\ links = {}
    /\ admitted = {} /\ opened = {} /\ live = {}

(* Something may from now on become of the account.                        *)
Allow(u, what) == may' = [may EXCEPT ![u] = @ \cup what]

(* An account is registered once, and owed one verification link.          *)
Enrol(u, w) ==
    /\ has[u] = {}
    /\ has' = [has EXCEPT ![u] = Account(w, FALSE)]
    /\ Allow(u, Account(w, FALSE))
    /\ due' = due \cup {u}
    /\ UNCHANGED <<issued, links, admitted, opened, live>>

Mail(t, kind, u) ==
    /\ has[u] # {} /\ t \notin issued
    /\ IF kind = "verify" THEN u \in due /\ due' = due \ {u} ELSE UNCHANGED due
    /\ issued' = issued \cup {t}
    /\ links' = links \cup {<<t, kind, u>>}
    /\ UNCHANGED <<has, may, admitted, opened, live>>

(* One use of a link is good for one change, and for its own account.      *)
Use(t, kind, u, what) ==
    /\ <<t, kind, u>> \in links
    /\ links' = links \ {<<t, kind, u>>}
    /\ Allow(u, {what})
    /\ UNCHANGED <<has, due, issued, admitted, opened, live>>

Verify(t, u) == Use(t, "verify", u, Verified(TRUE))
Reset(t, u, w) == Use(t, "reset", u, Secret(w))

(* Nobody restricts an administrator.                                      *)
Decree(a, u, status) ==
    /\ Standing("active") \in has[a]
    /\ \E s \in SessionIds, w \in Passwords : <<s, a, w>> \in live
    /\ u \in Admins => status = "active"
    /\ Allow(u, {Standing(status)})
    /\ UNCHANGED <<has, due, issued, links, admitted, opened, live>>

Admit(u, w) ==
    /\ {Secret(w), Standing("active")} \subseteq has[u]
    /\ admitted' = admitted \cup {<<u, w>>}
    /\ UNCHANGED <<has, may, due, issued, links, opened, live>>

Open(s, u, w) ==
    /\ <<u, w>> \in admitted /\ s \notin opened
    /\ opened' = opened \cup {s}
    /\ live' = live \cup {<<s, u, w>>}
    /\ admitted' \subseteq admitted
    /\ UNCHANGED <<has, may, due, issued, links>>

(* What was under way is done or lost; links and sessions end.  No account *)
(* comes or goes.                                                          *)
Settle ==
    /\ \A u \in Users :
          /\ has'[u] \subseteq may[u] /\ may'[u] \subseteq may[u]
          /\ has'[u] = {} <=> has[u] = {}
    /\ due' \subseteq due /\ links' \subseteq links
    /\ admitted' \subseteq admitted /\ live' \subseteq live
    /\ UNCHANGED <<issued, opened>>

Next ==
    \/ Settle
    \/ \E u \in Users, w \in Passwords : Enrol(u, w) \/ Admit(u, w)
    \/ \E t \in TokenIds, kind \in {"verify", "reset"}, u \in Users : Mail(t, kind, u)
    \/ \E t \in TokenIds, u \in Users : Verify(t, u)
    \/ \E t \in TokenIds, u \in Users, w \in Passwords : Reset(t, u, w)
    \/ \E a \in Admins, u \in Users, status \in Restrictions \cup {"active"} :
          Decree(a, u, status)
    \/ \E s \in SessionIds, u \in Users, w \in Passwords : Open(s, u, w)

Spec == Init /\ [][Next]_vars

=============================================================================
