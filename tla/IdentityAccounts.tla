--------------------------- MODULE IdentityAccounts ---------------------------
(***************************************************************************)
(* The identity context: accounts, sign-in, server-side sessions, the      *)
(* single-use tokens sent by e-mail, profile edits and the administrator's *)
(* suspensions.                                                            *)
(*                                                                         *)
(* Every repository call is one autocommit SQL statement and every HTTP    *)
(* request a goroutine, which holds a handler slot between its statements. *)
(* UserRepository.Update writes the whole row, so what a handler read from *)
(* an account is part of its state until it has written it back.           *)
(*                                                                         *)
(* Abstracted: the display fields of a profile, contact channels (one      *)
(* upsert), the CSRF cookie, token and session expiry times (they may      *)
(* expire at any moment), the e-mail itself.  Google sign-in is left out:  *)
(* main.go configures no verifier and its route answers an error.          *)
(***************************************************************************)
EXTENDS Naturals

CONSTANTS
    Users,          \* account ids; each stands for one e-mail address
    Admins,         \* the accounts with the admin role, created by the seed
    Passwords,
    Restrictions,   \* the statuses other than active: suspended, banned
    SessionIds,     \* bounds the sessions ever opened
    TokenIds,       \* bounds the tokens ever issued
    Handlers        \* slots for in-flight handlers: bounds their concurrency

ASSUME RolesAndStatuses ==
    /\ Admins \subseteq Users
    /\ "active" \notin Restrictions /\ "absent" \notin Restrictions

VARIABLES
    accounts,       \* table users
    sessions,       \* table sessions
    tokens,         \* tables email_verification_tokens, password_reset_tokens
    handlers        \* what each in-flight handler holds and does next

vars == <<accounts, sessions, tokens, handlers>>

-----------------------------------------------------------------------------
(* Rows.                                                                   *)

Absent == [status |-> "absent"]
Exists(row) == row.status # "absent"

User == [status: Restrictions \cup {"active"}, password: Passwords, verified: BOOLEAN]

(* A session that was revoked or has expired is ended.  The password is a  *)
(* history field: the one its login was verified with.                     *)
Session == [status: {"live", "ended"}, user: Users, password: Passwords]

(* A token that was used or has expired is spent.                          *)
Token == [status: {"fresh", "spent"}, kind: {"verify", "reset"}, user: Users]

Idle == [pc |-> "idle"]

OnAccount ==
    [pc: {"register_token", "profile_find", "reset_revoke", "admin_revoke"},
     user: Users]

LoggingIn == [pc: {"login_open"}, user: Users, password: Passwords]

OnToken == [pc: {"verify_find"}, user: Users, token: TokenIds]

Resetting ==
    [pc: {"reset_find"}, user: Users, token: TokenIds, password: Passwords]

(* These hold a copy of the account's row, edited, which Update will write.*)
WritingProfile == [pc: {"profile_write"}, user: Users, row: User]

WritingToken ==
    [pc: {"verify_write", "reset_write"}, user: Users, token: TokenIds, row: User]

Administering ==
    [pc: {"admin_find", "admin_write"}, user: Users,
     status: Restrictions \cup {"active"}]

TypeOK ==
    /\ accounts \in [Users -> User \cup {Absent}]
    /\ sessions \in [SessionIds -> Session \cup {Absent}]
    /\ tokens \in [TokenIds -> Token \cup {Absent}]
    /\ handlers \in [Handlers ->
          {Idle} \cup OnAccount \cup LoggingIn \cup OnToken \cup Resetting
             \cup WritingProfile \cup WritingToken \cup Administering]

(* The administrators' accounts come with the seed migration.              *)
Init ==
    /\ \E w \in [Admins -> Passwords] :
          accounts = [u \in Users |->
             IF u \in Admins
             THEN [status |-> "active", password |-> w[u], verified |-> TRUE]
             ELSE Absent]
    /\ sessions = [s \in SessionIds |-> Absent]
    /\ tokens = [t \in TokenIds |-> Absent]
    /\ handlers = [p \in Handlers |-> Idle]

-----------------------------------------------------------------------------
(* Statements.                                                             *)

Continue(p, held) == handlers' = [handlers EXCEPT ![p] = held]
Answer(p) == Continue(p, Idle)
At(p, pc) == handlers[p].pc = pc

WritesRow(p) == handlers[p].pc \in {"profile_write", "verify_write", "reset_write"}

(* The per-request check of SessionAuth and RequireAuth.                   *)
SignedIn(u) ==
    /\ accounts[u].status = "active"
    /\ \E s \in SessionIds : sessions[s].status = "live" /\ sessions[s].user = u

(* Mutant of RevokeAll: one session is enough.                             *)
RevokeOne(u) ==
    \E s \in SessionIds :
        /\ sessions[s].status = "live" /\ sessions[s].user = u
        /\ sessions' = [sessions EXCEPT ![s].status = "ended"]

RevokeAll(u) ==
    sessions' = [s \in SessionIds |->
        IF Exists(sessions[s]) /\ sessions[s].user = u
        THEN [sessions[s] EXCEPT !.status = "ended"] ELSE sessions[s]]

IssueToken(kind, u) ==
    \E t \in TokenIds :
        /\ ~ Exists(tokens[t])
        /\ tokens' = [tokens EXCEPT ![t] = [status |-> "fresh", kind |-> kind, user |-> u]]

(* Mutant of Consume: a used token is not refused.                         *)
ConsumeAgain(t, kind) ==
    /\ Exists(tokens[t]) /\ tokens[t].kind = kind
    /\ tokens' = [tokens EXCEPT ![t].status = "spent"]

(* One conditional UPDATE ... RETURNING.                                   *)
Consume(t, kind) ==
    /\ tokens[t].status = "fresh" /\ tokens[t].kind = kind
    /\ tokens' = [tokens EXCEPT ![t].status = "spent"]

-----------------------------------------------------------------------------
(* Register: the account first, then its verification token, best effort.  *)

(* Mutant of Register: a status the column's type does not have.           *)
RegisterPending(p, u, w) ==
    /\ At(p, "idle")
    /\ ~ Exists(accounts[u])
    /\ accounts' = [accounts EXCEPT
          ![u] = [status |-> "pending", password |-> w, verified |-> FALSE]]
    /\ Continue(p, [pc |-> "register_token", user |-> u])
    /\ UNCHANGED <<sessions, tokens>>

Register(p, u, w) ==
    /\ At(p, "idle")
    /\ ~ Exists(accounts[u])
    /\ accounts' = [accounts EXCEPT
          ![u] = [status |-> "active", password |-> w, verified |-> FALSE]]
    /\ Continue(p, [pc |-> "register_token", user |-> u])
    /\ UNCHANGED <<sessions, tokens>>

RegisterToken(p) ==
    /\ At(p, "register_token")
    /\ IssueToken("verify", handlers[p].user)
    /\ Answer(p)
    /\ UNCHANGED <<accounts, sessions>>

-----------------------------------------------------------------------------
(* Login: read and verify, then insert the session.                        *)

(* Mutant of LoginFind: the account's status is not looked at.             *)
LoginFindAnyStatus(p, u, w) ==
    /\ At(p, "idle")
    /\ Exists(accounts[u]) /\ accounts[u].password = w
    /\ Continue(p, [pc |-> "login_open", user |-> u, password |-> w])
    /\ UNCHANGED <<accounts, sessions, tokens>>

(* Mutant of LoginFind: the password is not compared.                      *)
LoginFindAnyPassword(p, u, w) ==
    /\ At(p, "idle")
    /\ accounts[u].status = "active"
    /\ Continue(p, [pc |-> "login_open", user |-> u, password |-> w])
    /\ UNCHANGED <<accounts, sessions, tokens>>

LoginFind(p, u, w) ==
    /\ At(p, "idle")
    /\ accounts[u].status = "active"
    /\ accounts[u].password = w
    /\ Continue(p, [pc |-> "login_open", user |-> u, password |-> w])
    /\ UNCHANGED <<accounts, sessions, tokens>>

LoginOpen(p) ==
    /\ At(p, "login_open")
    /\ \E s \in SessionIds :
          /\ ~ Exists(sessions[s])
          /\ sessions' = [sessions EXCEPT
                ![s] = [status |-> "live", user |-> handlers[p].user,
                        password |-> handlers[p].password]]
    /\ Answer(p)
    /\ UNCHANGED <<accounts, tokens>>

(* Logout behind RequireAuth.                                              *)
Logout(s) ==
    /\ sessions[s].status = "live"
    /\ accounts[sessions[s].user].status = "active"
    /\ sessions' = [sessions EXCEPT ![s].status = "ended"]
    /\ UNCHANGED <<accounts, tokens, handlers>>

-----------------------------------------------------------------------------
(* UpdateProfile: authenticate, read the row, write the whole row.         *)

ProfileCall(p, u) ==
    /\ At(p, "idle")
    /\ SignedIn(u)
    /\ Continue(p, [pc |-> "profile_find", user |-> u])
    /\ UNCHANGED <<accounts, sessions, tokens>>

ProfileFind(p) ==
    /\ At(p, "profile_find")
    /\ LET u == handlers[p].user IN
       Continue(p, [pc |-> "profile_write", user |-> u, row |-> accounts[u]])
    /\ UNCHANGED <<accounts, sessions, tokens>>

(* UserRepository.Update, called last by UpdateProfile and VerifyEmail and *)
(* before the revocation by ResetPassword.                                 *)
WriteRow(p) ==
    /\ WritesRow(p)
    /\ accounts' = [accounts EXCEPT ![handlers[p].user] = handlers[p].row]
    /\ IF At(p, "reset_write")
       THEN Continue(p, [pc |-> "reset_revoke", user |-> handlers[p].user])
       ELSE Answer(p)
    /\ UNCHANGED <<sessions, tokens>>

-----------------------------------------------------------------------------
(* VerifyEmail: consume the token, read the row, write the whole row.      *)

VerifyConsume(p, t) ==
    /\ At(p, "idle")
    /\ Consume(t, "verify")
    /\ Continue(p, [pc |-> "verify_find", user |-> tokens[t].user, token |-> t])
    /\ UNCHANGED <<accounts, sessions>>

VerifyFind(p) ==
    /\ At(p, "verify_find")
    /\ LET h == handlers[p] IN
       Continue(p, [pc |-> "verify_write", user |-> h.user, token |-> h.token,
                    row |-> [accounts[h.user] EXCEPT !.verified = TRUE]])
    /\ UNCHANGED <<accounts, sessions, tokens>>

-----------------------------------------------------------------------------
(* ForgotPassword and ResetPassword.  The first reads only the id of the   *)
(* account, which never changes, before its insert.                        *)

ForgotPassword(u) ==
    /\ Exists(accounts[u])
    /\ IssueToken("reset", u)
    /\ UNCHANGED <<accounts, sessions, handlers>>

ResetConsume(p, t, w) ==
    /\ At(p, "idle")
    /\ Consume(t, "reset")
    /\ Continue(p, [pc |-> "reset_find", user |-> tokens[t].user, token |-> t,
                    password |-> w])
    /\ UNCHANGED <<accounts, sessions>>

(* Mutant of ResetFind: the row is rebuilt without the verification.       *)
ResetFindRebuilt(p) ==
    /\ At(p, "reset_find")
    /\ LET h == handlers[p] IN
       Continue(p, [pc |-> "reset_write", user |-> h.user, token |-> h.token,
                    row |-> [status |-> accounts[h.user].status,
                             password |-> h.password, verified |-> FALSE]])
    /\ UNCHANGED <<accounts, sessions, tokens>>

ResetFind(p) ==
    /\ At(p, "reset_find")
    /\ LET h == handlers[p] IN
       Continue(p, [pc |-> "reset_write", user |-> h.user, token |-> h.token,
                    row |-> [accounts[h.user] EXCEPT !.password = h.password]])
    /\ UNCHANGED <<accounts, sessions, tokens>>

ResetRevoke(p) ==
    /\ At(p, "reset_revoke")
    /\ RevokeAll(handlers[p].user)
    /\ Answer(p)
    /\ UNCHANGED <<accounts, tokens>>

-----------------------------------------------------------------------------
(* AdminSetUserStatus: authenticate, read the target, write the status     *)
(* column alone, then revoke on a restrictive change.  The handler and its *)
(* route exist (RegisterAdminRoutes) and the tests mount them; main.go does*)
(* not, so in the shipped process no AdminCall arrives.                    *)

AdminCall(p, a, u, status) ==
    /\ At(p, "idle")
    /\ SignedIn(a)
    /\ Continue(p, [pc |-> "admin_find", user |-> u, status |-> status])
    /\ UNCHANGED <<accounts, sessions, tokens>>

(* Mutant of AdminFind: an administrator can be restricted.                *)
AdminFindAnybody(p) ==
    /\ At(p, "admin_find")
    /\ LET h == handlers[p] IN
       IF Exists(accounts[h.user])
       THEN Continue(p, [h EXCEPT !.pc = "admin_write"])
       ELSE Answer(p)
    /\ UNCHANGED <<accounts, sessions, tokens>>

AdminFind(p) ==
    /\ At(p, "admin_find")
    /\ LET h == handlers[p] IN
       IF Exists(accounts[h.user]) /\ (h.user \in Admins => h.status = "active")
       THEN Continue(p, [h EXCEPT !.pc = "admin_write"])
       ELSE Answer(p)
    /\ UNCHANGED <<accounts, sessions, tokens>>

AdminWrite(p) ==
    /\ At(p, "admin_write")
    /\ LET h == handlers[p] IN
       /\ accounts' = [accounts EXCEPT ![h.user].status = h.status]
       /\ IF h.status = "active" THEN Answer(p)
          ELSE Continue(p, [pc |-> "admin_revoke", user |-> h.user])
    /\ UNCHANGED <<sessions, tokens>>

AdminRevoke(p) ==
    /\ At(p, "admin_revoke")
    /\ RevokeAll(handlers[p].user)
    /\ Answer(p)
    /\ UNCHANGED <<accounts, tokens>>

-----------------------------------------------------------------------------
(* Time and failures.                                                      *)

SessionExpires(s) ==
    /\ sessions[s].status = "live"
    /\ sessions' = [sessions EXCEPT ![s].status = "ended"]
    /\ UNCHANGED <<accounts, tokens, handlers>>

TokenExpires(t) ==
    /\ tokens[t].status = "fresh"
    /\ tokens' = [tokens EXCEPT ![t].status = "spent"]
    /\ UNCHANGED <<accounts, sessions, handlers>>

(* A failed statement ends its handler.  Two of them answer success all    *)
(* the same: the verification token of Register, and the revocation of     *)
(* ResetPassword.                                                          *)
StatementFails(p) ==
    /\ ~ At(p, "idle")
    /\ Answer(p)
    /\ UNCHANGED <<accounts, sessions, tokens>>

Restart ==
    /\ handlers' = [p \in Handlers |-> Idle]
    /\ UNCHANGED <<accounts, sessions, tokens>>

-----------------------------------------------------------------------------

Proceed(p) ==
    \/ RegisterToken(p) \/ LoginOpen(p)
    \/ ProfileFind(p) \/ VerifyFind(p) \/ ResetFind(p) \/ WriteRow(p)
    \/ ResetRevoke(p)
    \/ AdminFind(p) \/ AdminWrite(p) \/ AdminRevoke(p)
    \/ StatementFails(p)

Next ==
    \/ \E p \in Handlers, u \in Users, w \in Passwords :
          Register(p, u, w) \/ LoginFind(p, u, w)
    \/ \E p \in Handlers, u \in Users : ProfileCall(p, u)
    \/ \E p \in Handlers, t \in TokenIds : VerifyConsume(p, t)
    \/ \E p \in Handlers, t \in TokenIds, w \in Passwords : ResetConsume(p, t, w)
    \/ \E p \in Handlers, a \in Admins, u \in Users,
          status \in Restrictions \cup {"active"} : AdminCall(p, a, u, status)
    \/ \E u \in Users : ForgotPassword(u)
    \/ \E s \in SessionIds : Logout(s) \/ SessionExpires(s)
    \/ \E t \in TokenIds : TokenExpires(t)
    \/ \E p \in Handlers : Proceed(p)
    \/ Restart

Spec == Init /\ [][Next]_vars

-----------------------------------------------------------------------------
(* Properties.                                                             *)

HoldsToken(p) ==
    handlers[p].pc \in {"verify_find", "verify_write", "reset_find", "reset_write"}

(* A mailed link works once: of all the handlers that a token ever let     *)
(* through to the account, none holds a token that another one holds, or   *)
(* that could still be presented again (TokenStore.consume).               *)
TokenWorksOnce ==
    \A p \in Handlers : HoldsToken(p) =>
        /\ tokens[handlers[p].token].status = "spent"
        /\ \A q \in Handlers \ {p} :
              HoldsToken(q) => handlers[q].token # handlers[p].token

(* An account is shut out when it is restricted, all its sessions have     *)
(* ended, and nothing in flight was started before: no login past its      *)
(* check, no copy of the row with another status, no other status change.  *)
ShutOut(u) ==
    /\ accounts[u].status \in Restrictions
    /\ \A s \in SessionIds : sessions[s].status = "live" => sessions[s].user # u
    /\ \A p \in Handlers :
          /\ At(p, "login_open") => handlers[p].user # u
          /\ WritesRow(p) /\ handlers[p].user = u =>
                handlers[p].row.status = accounts[u].status
          /\ At(p, "admin_write") /\ handlers[p].user = u =>
                handlers[p].status = accounts[u].status

(* A user who is shut out stays so, and gets no session by any login,      *)
(* reset, verification or profile edit, until an administrator's next      *)
(* status change of that account is past its checks.                       *)
ShutOutHolds ==
    [][\A u \in Users :
          ShutOut(u) =>
              \/ ShutOut(u)'
              \/ \E p \in Handlers : AdminFind(p) /\ handlers[p].user = u]_vars

(* No reset of the account has yet to read it.                             *)
NoResetAhead(u) == \A p \in Handlers : At(p, "reset_find") => handlers[p].user # u

(* Nothing in flight carries a password the account no longer has.         *)
Unopposed(u) ==
    /\ NoResetAhead(u)
    /\ \A p \in Handlers :
          /\ At(p, "login_open") /\ handlers[p].user = u =>
                handlers[p].password = accounts[u].password
          /\ WritesRow(p) /\ handlers[p].user = u =>
                handlers[p].row.password = accounts[u].password

OnlyCurrentSessions(u) ==
    \A s \in SessionIds :
        sessions[s].status = "live" /\ sessions[s].user = u =>
            sessions[s].password = accounts[u].password

(* "Force logout on other devices": a reset whose revocation runs while    *)
(* nothing in flight carries an older password leaves no session that an   *)
(* older password opened.                                                  *)
ResetForcesLogout ==
    [][\A p \in Handlers, u \in Users :
          ResetRevoke(p) /\ handlers[p].user = u /\ Unopposed(u)
              => OnlyCurrentSessions(u)']_vars

(* From there on every session of the account is one its current password  *)
(* opened, and no profile edit or verification brings an old password back,*)
(* until the next reset of the account.                                    *)
PasswordStaysCurrent ==
    [][\A u \in Users :
          Exists(accounts[u]) /\ Unopposed(u) /\ OnlyCurrentSessions(u) =>
              \/ (Unopposed(u) /\ OnlyCurrentSessions(u))'
              \/ ~ NoResetAhead(u)']_vars

(* The account is verified, and no copy of its row from before that waits  *)
(* to be written back.                                                     *)
Confirmed(u) ==
    /\ Exists(accounts[u]) /\ accounts[u].verified
    /\ \A p \in Handlers :
          WritesRow(p) /\ handlers[p].user = u => handlers[p].row.verified

(* Once it has come to this, an account is verified for ever: every handler*)
(* that writes whole rows, the reset and the profile edit among them, gives*)
(* back the verification it read.  A profile edit that read the row before *)
(* the link was used does undo it: Confirmed is false as long as one waits.*)
VerificationLasts == [][\A u \in Users : Confirmed(u) => Confirmed(u)']_vars

-----------------------------------------------------------------------------
(* Implementation.                                                         *)

Attributes(row) ==
    {<<"password", row.password>>, <<"status", row.status>>, <<"verified", row.verified>>}

Has(u) == IF Exists(accounts[u]) THEN Attributes(accounts[u]) ELSE {}

(* What a handler with record h may still make of account u.  A status     *)
(* change that AdminFind will refuse comes to nothing.                     *)
Carried(h, u) ==
    IF h.pc = "idle" \/ h.user # u THEN {}
    ELSE CASE h.pc \in {"profile_write", "verify_write", "reset_write"} -> Attributes(h.row)
           [] h.pc = "reset_find" -> {<<"password", h.password>>}
           [] h.pc = "verify_find" -> {<<"verified", TRUE>>}
           [] /\ h.pc \in {"admin_find", "admin_write"}
              /\ u \in Admins => h.status = "active" -> {<<"status", h.status>>}
           [] OTHER -> {}

May(u) == Has(u) \cup UNION {Carried(handlers[p], u) : p \in Handlers}

Due == {handlers[p].user : p \in {q \in Handlers : At(q, "register_token")}}

Links ==
    {<<t, tokens[t].kind, tokens[t].user>> :
        t \in {k \in TokenIds : tokens[k].status = "fresh"}}

Admitted ==
    {<<handlers[p].user, handlers[p].password>> :
        p \in {q \in Handlers : At(q, "login_open")}}

Live ==
    {<<s, sessions[s].user, sessions[s].password>> :
        s \in {k \in SessionIds : sessions[k].status = "live"}}

Promise == INSTANCE AccountAccess WITH
    has <- [u \in Users |-> Has(u)],
    may <- [u \in Users |-> May(u)],
    due <- Due,
    issued <- {t \in TokenIds : Exists(tokens[t])},
    links <- Links,
    admitted <- Admitted,
    opened <- {s \in SessionIds : Exists(sessions[s])},
    live <- Live

(* Every behaviour of the handlers is one of AccountAccess: although whole *)
(* rows are written back from copies and any statement may fail, an account*)
(* becomes only what its registration, a mailed link or an administrator   *)
(* said, each link says it once, and sessions open only along sign-ins     *)
(* that were right when they were checked.                                 *)
KeepsPromise == Promise!Spec

-----------------------------------------------------------------------------
(* Where the code does not do what its comment says.                       *)

(* The account is unverified, and neither a link that was mailed nor what  *)
(* is in flight can still verify it.  It comes to this when the token could*)
(* not be stored, when it has expired, when the write after its consumption*)
(* failed, and when a profile edit that read the account before its        *)
(* verification writes it back unverified.                                 *)
Stranded(u) ==
    /\ Exists(accounts[u]) /\ ~ accounts[u].verified
    /\ \A t \in TokenIds :
          tokens[t].status = "fresh" /\ tokens[t].kind = "verify" => tokens[t].user # u
    /\ \A p \in Handlers :
          /\ handlers[p].pc \in {"register_token", "verify_find"} => handlers[p].user # u
          /\ WritesRow(p) /\ handlers[p].user = u => ~ handlers[p].row.verified

(* Such an account is stranded for good: whatever its user or an           *)
(* administrator does, it is never verified.  That is not what Register's  *)
(* comment promises ("must not silently strand the account [...] the user  *)
(* can resend from the login screen", auth.go:60): no operation issues a   *)
(* second token, and registering again finds the e-mail taken.             *)
StrandedForGood == [][\A u \in Users : Stranded(u) => Stranded(u)']_vars

=============================================================================
