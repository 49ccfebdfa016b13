---------------------------- MODULE IdentityProofs ----------------------------
(***************************************************************************)
(* Proofs about IdentityAccounts, for any users, passwords, sessions,      *)
(* tokens and handlers.  StepForms says what any step can make of a row, a *)
(* session, a token and a handler; the step properties are about those four*)
(* forms and no longer about the actions.  The last part proves that the   *)
(* context implements AccountAccess: a step that begins nothing settles,   *)
(* and each of the steps that begin something is an action of its own.     *)
(***************************************************************************)
EXTENDS IdentityAccounts, TLAPS

-----------------------------------------------------------------------------
(* The invariant.                                                          *)

HandlerStates ==
    {Idle} \cup OnAccount \cup LoggingIn \cup OnToken \cup Resetting
        \cup WritingProfile \cup WritingToken \cup Administering

(* Sessions, tokens and handlers belong to accounts, which nothing deletes.*)
Owned ==
    /\ \A s \in SessionIds : Exists(sessions[s]) => Exists(accounts[sessions[s].user])
    /\ \A t \in TokenIds : Exists(tokens[t]) => Exists(accounts[tokens[t].user])
    /\ \A p \in Handlers :
          handlers[p].pc \notin {"idle", "admin_find"} => Exists(accounts[handlers[p].user])

IndInv == TypeOK /\ Owned /\ TokenWorksOnce

-----------------------------------------------------------------------------
(* What a step can make of each of them.                                   *)

RowMove(u) ==
    \/ accounts'[u] = accounts[u]
    \/ /\ ~ Exists(accounts[u])
       /\ accounts'[u] \in User /\ ~ accounts'[u].verified
    \/ \E p \in Handlers :
          WritesRow(p) /\ handlers[p].user = u /\ accounts'[u] = handlers[p].row
    \/ \E p \in Handlers :
          /\ At(p, "admin_write") /\ handlers[p].user = u
          /\ accounts'[u] \in User
          /\ accounts'[u].status = handlers[p].status
          /\ accounts'[u].password = accounts[u].password
          /\ accounts'[u].verified = accounts[u].verified

SessionMove(s) ==
    \/ sessions'[s] = sessions[s]
    \/ /\ Exists(sessions[s])
       /\ sessions'[s] = [status |-> "ended", user |-> sessions[s].user,
                          password |-> sessions[s].password]
    \/ \E p \in Handlers :
          /\ At(p, "login_open") /\ ~ Exists(sessions[s])
          /\ sessions'[s] = [status |-> "live", user |-> handlers[p].user,
                             password |-> handlers[p].password]

TokenMove(t) ==
    \/ tokens'[t] = tokens[t]
    \/ /\ Exists(tokens[t])
       /\ tokens'[t] = [status |-> "spent", kind |-> tokens[t].kind, user |-> tokens[t].user]
    \/ \E kind \in {"verify", "reset"}, u \in Users :
          /\ ~ Exists(tokens[t]) /\ Exists(accounts[u])
          /\ tokens'[t] = [status |-> "fresh", kind |-> kind, user |-> u]
          /\ kind = "verify" =>
                \E p \in Handlers : At(p, "register_token") /\ handlers[p].user = u

(* The handler of p comes to hold h.                                       *)
Becomes(p, h) ==
    \/ h = Idle
    \/ /\ h.pc = "register_token"
       /\ ~ Exists(accounts[h.user]) /\ Exists(accounts'[h.user])
    \/ /\ h.pc = "login_open" /\ UNCHANGED accounts
       /\ accounts[h.user].status = "active" /\ accounts[h.user].password = h.password
    \/ h.pc = "profile_find" /\ Exists(accounts[h.user]) /\ UNCHANGED accounts
    \/ /\ h.pc = "profile_write" /\ UNCHANGED accounts
       /\ Exists(accounts[h.user]) /\ h.row = accounts[h.user]
    \/ /\ h.pc \in {"verify_find", "reset_find"} /\ UNCHANGED accounts
       /\ tokens[h.token].status = "fresh" /\ tokens'[h.token].status = "spent"
       /\ tokens[h.token].user = h.user
       /\ h.pc = "verify_find" => tokens[h.token].kind = "verify"
    \/ /\ h.pc \in {"verify_write", "reset_write"} /\ UNCHANGED accounts
       /\ handlers[p].pc = IF h.pc = "verify_write" THEN "verify_find" ELSE "reset_find"
       /\ handlers[p].user = h.user /\ handlers[p].token = h.token
       /\ h.row.status = accounts[h.user].status
       /\ h.pc = "verify_write" =>
             h.row.password = accounts[h.user].password /\ h.row.verified = TRUE
       /\ h.pc = "reset_write" =>
             h.row.verified = accounts[h.user].verified /\ h.row.password = handlers[p].password
    \/ h.pc = "reset_revoke" /\ At(p, "reset_write") /\ handlers[p].user = h.user
    \/ h.pc = "admin_find" /\ UNCHANGED accounts
    \/ /\ h.pc = "admin_write" /\ UNCHANGED accounts
       /\ AdminFind(p) /\ handlers[p].user = h.user /\ Exists(accounts[h.user])
       /\ handlers[p].status = h.status /\ (h.user \in Admins => h.status = "active")
    \/ h.pc = "admin_revoke" /\ At(p, "admin_write") /\ handlers[p].user = h.user

(* At most one handler moves, but for those that end.                      *)
OneMoves ==
    \A p, q \in Handlers : p # q =>
        handlers'[p] \in {handlers[p], Idle} \/ handlers'[q] \in {handlers[q], Idle}

RowsMove == accounts' \in [Users -> User \cup {Absent}] /\ \A u \in Users : RowMove(u)

SessionsMove ==
    sessions' \in [SessionIds -> Session \cup {Absent}] /\ \A s \in SessionIds : SessionMove(s)

TokensMove ==
    tokens' \in [TokenIds -> Token \cup {Absent}] /\ \A t \in TokenIds : TokenMove(t)

HandlersMove ==
    /\ handlers' \in [Handlers -> HandlerStates]
    /\ \A p \in Handlers : handlers'[p] = handlers[p] \/ Becomes(p, handlers'[p])
    /\ OneMoves

Forms == RowsMove /\ SessionsMove /\ TokensMove /\ HandlersMove

-----------------------------------------------------------------------------
(* The records.                                                            *)

(* What a verification makes of a row.                                     *)
LEMMA VerifiedRow ==
    ASSUME NEW row \in User, NEW v \in BOOLEAN
    PROVE  [row EXCEPT !.verified = v] =
                 [status |-> row.status, password |-> row.password, verified |-> v]
BY DEF User

(* What a reset makes of a row.                                            *)
LEMMA RekeyedRow ==
    ASSUME NEW row \in User, NEW w \in Passwords
    PROVE  [row EXCEPT !.password = w] =
                 [status |-> row.status, password |-> w, verified |-> row.verified]
BY DEF User

(* What a status change makes of a row.                                     *)
LEMMA RestatedRow ==
    ASSUME NEW row \in User, NEW st \in Restrictions \cup {"active"}
    PROVE  [row EXCEPT !.status = st] =
                 [status |-> st, password |-> row.password, verified |-> row.verified]
BY DEF User

(* What a handler holds at each of its statements.                         *)
LEMMA PcTypes ==
    ASSUME TypeOK, NEW p \in Handlers
    PROVE  /\ handlers[p].pc = "idle" => handlers[p] = Idle
           /\ handlers[p].pc \in {"register_token", "profile_find", "reset_revoke",
                                  "admin_revoke"} => handlers[p] \in OnAccount
           /\ handlers[p].pc = "login_open" => handlers[p] \in LoggingIn
           /\ handlers[p].pc = "verify_find" => handlers[p] \in OnToken
           /\ handlers[p].pc = "reset_find" => handlers[p] \in Resetting
           /\ handlers[p].pc = "profile_write" => handlers[p] \in WritingProfile
           /\ handlers[p].pc \in {"verify_write", "reset_write"} =>
                 handlers[p] \in WritingToken
           /\ handlers[p].pc \in {"admin_find", "admin_write"} =>
                 handlers[p] \in Administering
BY DEF TypeOK, Idle, OnAccount, LoggingIn, OnToken, Resetting, WritingProfile,
       WritingToken, Administering

(* Rows that are not absent.                                               *)
LEMMA RowTypes ==
    ASSUME TypeOK
    PROVE  /\ \A u \in Users :
                 Exists(accounts[u]) <=> accounts[u] \in User
           /\ \A s \in SessionIds : Exists(sessions[s]) <=> sessions[s] \in Session
           /\ \A t \in TokenIds : Exists(tokens[t]) <=> tokens[t] \in Token
BY RolesAndStatuses DEF TypeOK, Exists, Absent, User, Session, Token

(* A step of one handler.                                                  *)
LEMMA Turn ==
    ASSUME TypeOK, NEW p \in Handlers, NEW h \in HandlerStates,
           handlers' = [handlers EXCEPT ![p] = h], Becomes(p, h)
    PROVE  HandlersMove
<1>1. handlers \in [Handlers -> HandlerStates]
  BY DEF TypeOK, HandlerStates
<1>2. \A q \in Handlers : handlers'[q] = IF q = p THEN h ELSE handlers[q]
  BY <1>1
<1>3. OneMoves
  BY <1>2 DEF OneMoves
<1>4. QED
  BY <1>1, <1>2, <1>3 DEF HandlersMove

(* The end of a handler.                                                   *)
LEMMA TurnEnds ==
    ASSUME TypeOK, NEW p \in Handlers, Answer(p)
    PROVE  HandlersMove
<1>1. Idle \in HandlerStates /\ Becomes(p, Idle)
  BY DEF HandlerStates, Becomes
<1>2. handlers' = [handlers EXCEPT ![p] = Idle]
  BY DEF Answer, Continue
<1>3. QED
  BY <1>1, <1>2, Turn

(* What is left alone moves trivially.                                     *)
LEMMA LeftAlone ==
    ASSUME TypeOK
    PROVE  /\ UNCHANGED accounts => RowsMove
           /\ UNCHANGED sessions => SessionsMove
           /\ UNCHANGED tokens => TokensMove
           /\ UNCHANGED handlers => HandlersMove
<1>1. UNCHANGED accounts => RowsMove
  BY DEF TypeOK, RowsMove, RowMove
<1>2. UNCHANGED sessions => SessionsMove
  BY DEF TypeOK, SessionsMove, SessionMove
<1>3. UNCHANGED tokens => TokensMove
  BY DEF TypeOK, TokensMove, TokenMove
<1>4. UNCHANGED handlers => HandlersMove
  BY DEF TypeOK, HandlersMove, OneMoves, HandlerStates
<1>5. QED
  BY <1>1, <1>2, <1>3, <1>4

-----------------------------------------------------------------------------
(* The statements on sessions and tokens.                                  *)

(* The end of a session, as a record.                                      *)
LEMMA Ended ==
    ASSUME NEW s \in Session
    PROVE  /\ [s EXCEPT !.status = "ended"] =
                 [status |-> "ended", user |-> s.user, password |-> s.password]
           /\ [s EXCEPT !.status = "ended"] \in Session
           /\ Exists(s)
BY DEF Session, Exists

(* One session ends.                                                       *)
LEMMA EndMoves ==
    ASSUME TypeOK, NEW s \in SessionIds, sessions[s].status = "live",
           sessions' = [sessions EXCEPT ![s].status = "ended"]
    PROVE  SessionsMove
<1>1. sessions[s] \in Session
  BY DEF TypeOK, Absent
<1>2. \A r \in SessionIds : sessions'[r] = IF r = s THEN [sessions[s] EXCEPT !.status = "ended"]
                                           ELSE sessions[r]
  BY DEF TypeOK
<1>3. sessions' \in [SessionIds -> Session \cup {Absent}]
  BY <1>1, Ended DEF TypeOK
<1>4. QED
  BY <1>1, <1>2, <1>3, Ended DEF SessionsMove, SessionMove

(* All sessions of a user end.                                             *)
LEMMA RevokeMoves ==
    ASSUME TypeOK, NEW u, RevokeAll(u)
    PROVE  SessionsMove
<1>1. ASSUME NEW s \in SessionIds
      PROVE  SessionMove(s) /\ sessions'[s] \in Session \cup {Absent}
  <2>1. CASE Exists(sessions[s]) /\ sessions[s].user = u
    <3>1. sessions[s] \in Session
      BY <2>1, RowTypes
    <3>2. sessions'[s] = [sessions[s] EXCEPT !.status = "ended"]
      BY <2>1 DEF RevokeAll
    <3> QED
      BY <2>1, <3>1, <3>2, Ended DEF SessionMove
  <2>2. CASE ~ (Exists(sessions[s]) /\ sessions[s].user = u)
    BY <2>2 DEF RevokeAll, SessionMove, TypeOK
  <2> QED
    BY <2>1, <2>2
<1>2. QED
  BY <1>1 DEF SessionsMove, RevokeAll

(* The use or expiry of a token, as a record.                              *)
LEMMA Spent ==
    ASSUME NEW t \in Token
    PROVE  /\ [t EXCEPT !.status = "spent"] =
                 [status |-> "spent", kind |-> t.kind, user |-> t.user]
           /\ [t EXCEPT !.status = "spent"] \in Token
           /\ Exists(t)
BY DEF Token, Exists

(* One token is used or expires.                                           *)
LEMMA SpendMoves ==
    ASSUME TypeOK, NEW t \in TokenIds, tokens[t].status = "fresh",
           tokens' = [tokens EXCEPT ![t].status = "spent"]
    PROVE  TokensMove /\ tokens[t] \in Token /\ tokens'[t].status = "spent"
<1>1. tokens[t] \in Token
  BY DEF TypeOK, Absent
<1>2. \A r \in TokenIds : tokens'[r] = IF r = t THEN [tokens[t] EXCEPT !.status = "spent"]
                                       ELSE tokens[r]
  BY DEF TypeOK
<1>3. tokens' \in [TokenIds -> Token \cup {Absent}]
  BY <1>1, Spent DEF TypeOK
<1>4. QED
  BY <1>1, <1>2, <1>3, Spent DEF TokensMove, TokenMove

(* A token is issued for an account; by a registration, if it verifies.    *)
LEMMA IssueMoves ==
    ASSUME TypeOK, NEW kind \in {"verify", "reset"}, NEW u \in Users,
           Exists(accounts[u]), IssueToken(kind, u),
           kind = "verify" =>
              \E p \in Handlers : At(p, "register_token") /\ handlers[p].user = u
    PROVE  TokensMove
<1>1. PICK t \in TokenIds :
         /\ ~ Exists(tokens[t])
         /\ tokens' = [tokens EXCEPT ![t] = [status |-> "fresh", kind |-> kind, user |-> u]]
  BY DEF IssueToken
<1>2. \A r \in TokenIds : tokens'[r] = IF r = t
                                       THEN [status |-> "fresh", kind |-> kind, user |-> u]
                                       ELSE tokens[r]
  BY <1>1 DEF TypeOK
<1>3. tokens' \in [TokenIds -> Token \cup {Absent}]
  BY <1>1 DEF TypeOK, Token
<1>4. QED
  BY <1>1, <1>2, <1>3 DEF TokensMove, TokenMove

-----------------------------------------------------------------------------
(* The actions.                                                            *)

(* Registration and sign-in.                                               *)
LEMMA SignInForms ==
    ASSUME IndInv, NEW p \in Handlers
    PROVE  /\ \A u \in Users, w \in Passwords : Register(p, u, w) => Forms
           /\ RegisterToken(p) => Forms
           /\ \A u \in Users, w \in Passwords : LoginFind(p, u, w) => Forms
           /\ LoginOpen(p) => Forms
<1> TypeOK
  BY DEF IndInv
<1>1. ASSUME NEW u \in Users, NEW w \in Passwords, Register(p, u, w)
      PROVE  Forms
  <2> DEFINE new == [status |-> "active", password |-> w, verified |-> FALSE]
             h == [pc |-> "register_token", user |-> u]
  <2>1. accounts' = [accounts EXCEPT ![u] = new] /\ ~ Exists(accounts[u])
    BY <1>1 DEF Register
  <2>2. new \in User /\ ~ new.verified /\ Exists(new)
    BY DEF User, Exists
  <2>3. RowsMove
    BY <2>1, <2>2 DEF RowsMove, RowMove, TypeOK
  <2>4. h \in HandlerStates
    BY DEF HandlerStates, OnAccount
  <2>5. accounts'[u] = new
    BY <2>1 DEF TypeOK
  <2>6. Becomes(p, h)
    BY <2>1, <2>2, <2>5 DEF Becomes
  <2>7. handlers' = [handlers EXCEPT ![p] = h]
    BY <1>1 DEF Register, Continue
  <2> HIDE DEF new, h
  <2>8. HandlersMove
    BY <2>4, <2>6, <2>7, Turn
  <2> QED
    BY <1>1, <2>3, <2>8, LeftAlone DEF Forms, Register
<1>2. ASSUME RegisterToken(p)
      PROVE  Forms
  <2>1. At(p, "register_token") /\ handlers[p] \in OnAccount
    BY <1>2, PcTypes DEF RegisterToken, At
  <2>2. handlers[p].user \in Users /\ Exists(accounts[handlers[p].user])
    BY <2>1 DEF OnAccount, IndInv, Owned, At
  <2>3. TokensMove
    BY <1>2, <2>1, <2>2, IssueMoves DEF RegisterToken
  <2> QED
    BY <1>2, <2>3, LeftAlone, TurnEnds DEF Forms, RegisterToken
<1>3. ASSUME NEW u \in Users, NEW w \in Passwords, LoginFind(p, u, w)
      PROVE  Forms
  <2> DEFINE h == [pc |-> "login_open", user |-> u, password |-> w]
  <2>1. h \in HandlerStates
    BY DEF HandlerStates, LoggingIn
  <2>2. Becomes(p, h) /\ handlers' = [handlers EXCEPT ![p] = h]
    BY <1>3 DEF LoginFind, Becomes, Continue
  <2> HIDE DEF h
  <2>3. HandlersMove
    BY <2>1, <2>2, Turn
  <2> QED
    BY <1>3, <2>3, LeftAlone DEF Forms, LoginFind
<1>4. ASSUME LoginOpen(p)
      PROVE  Forms
  <2>1. At(p, "login_open") /\ handlers[p] \in LoggingIn
    BY <1>4, PcTypes DEF LoginOpen, At
  <2> DEFINE new == [status |-> "live", user |-> handlers[p].user,
                     password |-> handlers[p].password]
  <2>2. PICK s \in SessionIds :
           ~ Exists(sessions[s]) /\ sessions' = [sessions EXCEPT ![s] = new]
    BY <1>4 DEF LoginOpen
  <2>3. new \in Session
    BY <2>1 DEF LoggingIn, Session
  <2>4. SessionsMove
    BY <2>1, <2>2, <2>3 DEF SessionsMove, SessionMove, TypeOK
  <2> QED
    BY <1>4, <2>4, LeftAlone, TurnEnds DEF Forms, LoginOpen
<1> QED
  BY <1>1, <1>2, <1>3, <1>4

(* Profile edits and the write of a row.                                   *)
LEMMA ProfileForms ==
    ASSUME IndInv, NEW p \in Handlers
    PROVE  /\ \A u \in Users : ProfileCall(p, u) => Forms
           /\ ProfileFind(p) => Forms
           /\ WriteRow(p) => Forms
<1> TypeOK
  BY DEF IndInv
<1>1. ASSUME NEW u \in Users, ProfileCall(p, u)
      PROVE  Forms
  <2> DEFINE h == [pc |-> "profile_find", user |-> u]
  <2>1. h \in HandlerStates
    BY DEF HandlerStates, OnAccount
  <2>2. Exists(accounts[u])
    BY <1>1 DEF ProfileCall, SignedIn, Exists
  <2>3. Becomes(p, h) /\ handlers' = [handlers EXCEPT ![p] = h]
    BY <1>1, <2>2 DEF ProfileCall, Becomes, Continue
  <2> HIDE DEF h
  <2>4. HandlersMove
    BY <2>1, <2>3, Turn
  <2> QED
    BY <1>1, <2>4, LeftAlone DEF Forms, ProfileCall
<1>2. ASSUME ProfileFind(p)
      PROVE  Forms
  <2>1. At(p, "profile_find") /\ handlers[p] \in OnAccount
    BY <1>2, PcTypes DEF ProfileFind, At
  <2>2. handlers[p].user \in Users /\ Exists(accounts[handlers[p].user])
    BY <2>1 DEF OnAccount, IndInv, Owned, At
  <2>3. accounts[handlers[p].user] \in User
    BY <2>2, RowTypes
  <2> DEFINE h == [pc |-> "profile_write", user |-> handlers[p].user,
                   row |-> accounts[handlers[p].user]]
  <2>4. h \in HandlerStates
    BY <2>2, <2>3 DEF HandlerStates, WritingProfile
  <2>5. Becomes(p, h) /\ handlers' = [handlers EXCEPT ![p] = h]
    BY <1>2, <2>2 DEF ProfileFind, Becomes, Continue
  <2> HIDE DEF h
  <2>6. HandlersMove
    BY <2>4, <2>5, Turn
  <2> QED
    BY <1>2, <2>6, LeftAlone DEF Forms, ProfileFind
<1>3. ASSUME WriteRow(p)
      PROVE  Forms
  <2>1. WritesRow(p) /\ handlers[p] \in WritingProfile \cup WritingToken
    BY <1>3, PcTypes DEF WriteRow, WritesRow
  <2>2. handlers[p].user \in Users /\ handlers[p].row \in User
    BY <2>1 DEF WritingProfile, WritingToken
  <2>3. accounts' = [accounts EXCEPT ![handlers[p].user] = handlers[p].row]
    BY <1>3 DEF WriteRow
  <2>4. RowsMove
    BY <2>1, <2>2, <2>3 DEF RowsMove, RowMove, TypeOK
  <2>5. HandlersMove
    <3>1. CASE At(p, "reset_write")
      <4> DEFINE h == [pc |-> "reset_revoke", user |-> handlers[p].user]
      <4>1. h \in HandlerStates
        BY <2>2 DEF HandlerStates, OnAccount
      <4>2. Becomes(p, h) /\ handlers' = [handlers EXCEPT ![p] = h]
        BY <1>3, <3>1 DEF WriteRow, Becomes, Continue
      <4> HIDE DEF h
      <4> QED
        BY <4>1, <4>2, Turn
    <3>2. CASE ~ At(p, "reset_write")
      BY <1>3, <3>2, TurnEnds DEF WriteRow
    <3> QED
      BY <3>1, <3>2
  <2> QED
    BY <1>3, <2>4, <2>5, LeftAlone DEF Forms, WriteRow
<1> QED
  BY <1>1, <1>2, <1>3

(* Verification and reset.                                                 *)
LEMMA TokenForms ==
    ASSUME IndInv, NEW p \in Handlers
    PROVE  /\ \A t \in TokenIds : VerifyConsume(p, t) => Forms
           /\ VerifyFind(p) => Forms
           /\ \A t \in TokenIds, w \in Passwords : ResetConsume(p, t, w) => Forms
           /\ ResetFind(p) => Forms
           /\ ResetRevoke(p) => Forms
<1> TypeOK
  BY DEF IndInv
<1>1. ASSUME NEW t \in TokenIds, VerifyConsume(p, t)
      PROVE  Forms
  <2>1. /\ TokensMove /\ tokens[t] \in Token /\ tokens'[t].status = "spent"
        /\ tokens[t].status = "fresh" /\ tokens[t].kind = "verify"
    BY <1>1, SpendMoves DEF VerifyConsume, Consume
  <2> DEFINE h == [pc |-> "verify_find", user |-> tokens[t].user, token |-> t]
  <2>2. h \in HandlerStates
    BY <2>1 DEF HandlerStates, OnToken, Token
  <2>3. Becomes(p, h) /\ handlers' = [handlers EXCEPT ![p] = h]
    BY <1>1, <2>1 DEF VerifyConsume, Becomes, Continue
  <2> HIDE DEF h
  <2>4. HandlersMove
    BY <2>2, <2>3, Turn
  <2> QED
    BY <1>1, <2>1, <2>4, LeftAlone DEF Forms, VerifyConsume
<1>2. ASSUME VerifyFind(p)
      PROVE  Forms
  <2>1. At(p, "verify_find") /\ handlers[p] \in OnToken
    BY <1>2, PcTypes DEF VerifyFind, At
  <2>2. /\ handlers[p].user \in Users /\ handlers[p].token \in TokenIds
        /\ Exists(accounts[handlers[p].user])
    BY <2>1 DEF OnToken, IndInv, Owned, At
  <2> DEFINE old == accounts[handlers[p].user]
             row == [old EXCEPT !.verified = TRUE]
             h == [pc |-> "verify_write", user |-> handlers[p].user,
                   token |-> handlers[p].token, row |-> row]
  <2>3. old \in User
    BY <2>2, RowTypes
  <2>4. TRUE \in BOOLEAN
    OBVIOUS
  <2>5. row = [status |-> old.status, password |-> old.password, verified |-> TRUE]
    <3> HIDE DEF old
    <3> QED
      BY <2>3, <2>4, VerifiedRow, Zenon
  <2>6. /\ row \in User /\ row.status = old.status
        /\ row.password = old.password /\ row.verified = TRUE
    <3> HIDE DEF old, row
    <3> QED
      BY <2>3, <2>4, <2>5 DEF User
  <2>7. /\ handlers' = [handlers EXCEPT ![p] = h]
        /\ UNCHANGED <<accounts, sessions, tokens>>
    BY <1>2 DEF VerifyFind, Continue
  <2>8. h \in HandlerStates /\ Becomes(p, h)
    <3> HIDE DEF row
    <3>1. h \in WritingToken
      BY <2>2, <2>6 DEF WritingToken
    <3> QED
      BY <2>1, <2>6, <2>7, <3>1 DEF HandlerStates, Becomes, At
  <2> HIDE DEF h
  <2>9. HandlersMove
    BY <2>7, <2>8, Turn
  <2> QED
    BY <2>7, <2>9, LeftAlone DEF Forms
<1>3. ASSUME NEW t \in TokenIds, NEW w \in Passwords, ResetConsume(p, t, w)
      PROVE  Forms
  <2>1. /\ TokensMove /\ tokens[t] \in Token /\ tokens'[t].status = "spent"
        /\ tokens[t].status = "fresh"
    BY <1>3, SpendMoves DEF ResetConsume, Consume
  <2> DEFINE h == [pc |-> "reset_find", user |-> tokens[t].user, token |-> t, password |-> w]
  <2>2. h \in HandlerStates
    BY <2>1 DEF HandlerStates, Resetting, Token
  <2>3. Becomes(p, h) /\ handlers' = [handlers EXCEPT ![p] = h]
    BY <1>3, <2>1 DEF ResetConsume, Becomes, Continue
  <2> HIDE DEF h
  <2>4. HandlersMove
    BY <2>2, <2>3, Turn
  <2> QED
    BY <1>3, <2>1, <2>4, LeftAlone DEF Forms, ResetConsume
<1>4. ASSUME ResetFind(p)
      PROVE  Forms
  <2>1. At(p, "reset_find") /\ handlers[p] \in Resetting
    BY <1>4, PcTypes DEF ResetFind, At
  <2>2. /\ handlers[p].user \in Users /\ handlers[p].token \in TokenIds
        /\ handlers[p].password \in Passwords /\ Exists(accounts[handlers[p].user])
    BY <2>1 DEF Resetting, IndInv, Owned, At
  <2> DEFINE old == accounts[handlers[p].user]
             row == [old EXCEPT !.password = handlers[p].password]
             h == [pc |-> "reset_write", user |-> handlers[p].user,
                   token |-> handlers[p].token, row |-> row]
  <2>3. old \in User
    BY <2>2, RowTypes
  <2>4. row = [status |-> old.status, password |-> handlers[p].password, verified |-> old.verified]
    <3> HIDE DEF old
    <3> QED
      BY <2>2, <2>3, RekeyedRow, Zenon
  <2>5. /\ row \in User /\ row.status = old.status
        /\ row.verified = old.verified /\ row.password = handlers[p].password
    <3> HIDE DEF old, row
    <3> QED
      BY <2>2, <2>3, <2>4 DEF User
  <2>6. /\ handlers' = [handlers EXCEPT ![p] = h]
        /\ UNCHANGED <<accounts, sessions, tokens>>
    BY <1>4 DEF ResetFind, Continue
  <2>7. h \in HandlerStates /\ Becomes(p, h)
    <3> HIDE DEF row
    <3>1. h \in WritingToken
      BY <2>2, <2>5 DEF WritingToken
    <3> QED
      BY <2>1, <2>5, <2>6, <3>1 DEF HandlerStates, Becomes, At
  <2> HIDE DEF h
  <2>8. HandlersMove
    BY <2>6, <2>7, Turn
  <2> QED
    BY <2>6, <2>8, LeftAlone DEF Forms
<1>5. ASSUME ResetRevoke(p)
      PROVE  Forms
  BY <1>5, RevokeMoves, LeftAlone, TurnEnds DEF Forms, ResetRevoke
<1> QED
  BY <1>1, <1>2, <1>3, <1>4, <1>5

(* The administrator.                                                      *)
LEMMA AdminForms ==
    ASSUME IndInv, NEW p \in Handlers
    PROVE  /\ \A a \in Admins, u \in Users, status \in Restrictions \cup {"active"} :
                 AdminCall(p, a, u, status) => Forms
           /\ AdminFind(p) => Forms
           /\ AdminWrite(p) => Forms
           /\ AdminRevoke(p) => Forms
<1> TypeOK
  BY DEF IndInv
<1>1. ASSUME NEW a \in Admins, NEW u \in Users, NEW status \in Restrictions \cup {"active"},
             AdminCall(p, a, u, status)
      PROVE  Forms
  <2> DEFINE h == [pc |-> "admin_find", user |-> u, status |-> status]
  <2>1. h \in HandlerStates
    BY DEF HandlerStates, Administering
  <2>2. Becomes(p, h) /\ handlers' = [handlers EXCEPT ![p] = h]
    BY <1>1 DEF AdminCall, Becomes, Continue
  <2> HIDE DEF h
  <2>3. HandlersMove
    BY <2>1, <2>2, Turn
  <2> QED
    BY <1>1, <2>3, LeftAlone DEF Forms, AdminCall
<1>2. ASSUME AdminFind(p)
      PROVE  Forms
  <2>1. At(p, "admin_find") /\ handlers[p] \in Administering
    BY <1>2, PcTypes DEF AdminFind, At
  <2>2. CASE ~ Answer(p)
    <3> DEFINE h == [handlers[p] EXCEPT !.pc = "admin_write"]
    <3>1. /\ handlers' = [handlers EXCEPT ![p] = h] /\ Exists(accounts[handlers[p].user])
          /\ handlers[p].user \in Admins => handlers[p].status = "active"
      BY <1>2, <2>2 DEF AdminFind, Continue
    <3>2. h = [pc |-> "admin_write", user |-> handlers[p].user, status |-> handlers[p].status]
      BY <2>1 DEF Administering
    <3>3. /\ h \in Administering /\ h.pc = "admin_write"
          /\ h.user = handlers[p].user /\ h.status = handlers[p].status
      BY <2>1, <3>2 DEF Administering
    <3> HIDE DEF h
    <3>4. h \in HandlerStates /\ Becomes(p, h)
      BY <1>2, <3>1, <3>3 DEF HandlerStates, Becomes, AdminFind
    <3> QED
      BY <1>2, <3>1, <3>4, Turn, LeftAlone DEF Forms, AdminFind
  <2>3. CASE Answer(p)
    BY <1>2, <2>3, TurnEnds, LeftAlone DEF Forms, AdminFind
  <2> QED
    BY <2>2, <2>3
<1>3. ASSUME AdminWrite(p)
      PROVE  Forms
  <2>1. At(p, "admin_write") /\ handlers[p] \in Administering
    BY <1>3, PcTypes DEF AdminWrite, At
  <2>2. /\ handlers[p].user \in Users /\ handlers[p].status \in Restrictions \cup {"active"}
        /\ Exists(accounts[handlers[p].user])
    BY <2>1 DEF Administering, IndInv, Owned, At
  <2> DEFINE old == accounts[handlers[p].user]
             row == [old EXCEPT !.status = handlers[p].status]
  <2>3. old \in User
    BY <2>2, RowTypes
  <2>4. row = [status |-> handlers[p].status, password |-> old.password, verified |-> old.verified]
    <3> HIDE DEF old
    <3> QED
      BY <2>2, <2>3, RestatedRow, Zenon
  <2>5. /\ row \in User /\ row.status = handlers[p].status
        /\ row.password = old.password /\ row.verified = old.verified
    <3> HIDE DEF old, row
    <3> QED
      BY <2>2, <2>3, <2>4 DEF User
  <2>6. accounts' = [accounts EXCEPT ![handlers[p].user] = row]
    BY <1>3 DEF AdminWrite
  <2>7. RowsMove
    <3> HIDE DEF row
    <3> QED
      BY <2>1, <2>2, <2>5, <2>6 DEF RowsMove, RowMove, TypeOK
  <2>8. HandlersMove
    <3> DEFINE h == [pc |-> "admin_revoke", user |-> handlers[p].user]
    <3>1. CASE ~ Answer(p)
      <4>1. h \in HandlerStates
        BY <2>2 DEF HandlerStates, OnAccount
      <4>2. Becomes(p, h) /\ handlers' = [handlers EXCEPT ![p] = h]
        BY <1>3, <3>1 DEF AdminWrite, Becomes, Continue
      <4> HIDE DEF h
      <4> QED
        BY <4>1, <4>2, Turn
    <3>2. CASE Answer(p)
      BY <3>2, TurnEnds
    <3> QED
      BY <3>1, <3>2
  <2> QED
    BY <1>3, <2>7, <2>8, LeftAlone DEF Forms, AdminWrite
<1>4. ASSUME AdminRevoke(p)
      PROVE  Forms
  BY <1>4, RevokeMoves, LeftAlone, TurnEnds DEF Forms, AdminRevoke
<1> QED
  BY <1>1, <1>2, <1>3, <1>4

(* What belongs to no handler in flight, or ends one.                      *)
LEMMA OtherForms ==
    ASSUME IndInv
    PROVE  /\ \A u \in Users : ForgotPassword(u) => Forms
           /\ \A s \in SessionIds : Logout(s) \/ SessionExpires(s) => Forms
           /\ \A t \in TokenIds : TokenExpires(t) => Forms
           /\ \A p \in Handlers : StatementFails(p) => Forms
           /\ Restart => Forms
           /\ UNCHANGED vars => Forms
<1> TypeOK
  BY DEF IndInv
<1>1. ASSUME NEW u \in Users, ForgotPassword(u)
      PROVE  Forms
  BY <1>1, IssueMoves, LeftAlone DEF Forms, ForgotPassword
<1>2. ASSUME NEW s \in SessionIds, Logout(s) \/ SessionExpires(s)
      PROVE  Forms
  BY <1>2, EndMoves, LeftAlone DEF Forms, Logout, SessionExpires
<1>3. ASSUME NEW t \in TokenIds, TokenExpires(t)
      PROVE  Forms
  BY <1>3, SpendMoves, LeftAlone DEF Forms, TokenExpires
<1>4. ASSUME NEW p \in Handlers, StatementFails(p)
      PROVE  Forms
  BY <1>4, TurnEnds, LeftAlone DEF Forms, StatementFails
<1>5. ASSUME Restart
      PROVE  Forms
  <2>1. HandlersMove
    BY <1>5 DEF Restart, HandlersMove, HandlerStates, Becomes, OneMoves
  <2> QED
    BY <1>5, <2>1, LeftAlone DEF Forms, Restart
<1>6. UNCHANGED vars => Forms
  BY LeftAlone DEF vars, Forms
<1> QED
  BY <1>1, <1>2, <1>3, <1>4, <1>5, <1>6

(* Every step moves rows, sessions, tokens and handlers in these forms.    *)
LEMMA StepForms == IndInv /\ [Next]_vars => Forms
<1> SUFFICES ASSUME IndInv, [Next]_vars
             PROVE  Forms
  OBVIOUS
<1>1. ASSUME NEW p \in Handlers, Proceed(p)
      PROVE  Forms
  BY <1>1, SignInForms, ProfileForms, TokenForms, AdminForms, OtherForms DEF Proceed
<1> QED
  BY <1>1, SignInForms, ProfileForms, TokenForms, AdminForms, OtherForms DEF Next

-----------------------------------------------------------------------------
(* The invariant holds.                                                    *)

(* No step deletes an account.                                             *)
LEMMA AccountsStay ==
    ASSUME IndInv, Forms, NEW u \in Users, Exists(accounts[u])
    PROVE  Exists(accounts'[u]) /\ accounts'[u] \in User
<1>1. \A row \in User : Exists(row)
  BY RolesAndStatuses DEF User, Exists
<1>2. accounts[u] \in User
  BY RowTypes DEF IndInv
<1>3. \A p \in Handlers : WritesRow(p) => handlers[p].row \in User
  BY PcTypes DEF IndInv, WritesRow, WritingProfile, WritingToken
<1>4. RowMove(u)
  BY DEF Forms, RowsMove
<1>5. accounts'[u] \in User
  BY <1>2, <1>3, <1>4 DEF RowMove
<1> QED
  BY <1>1, <1>5

(* A spent token stays spent.                                              *)
LEMMA SpentStays ==
    ASSUME IndInv, Forms, NEW t \in TokenIds, tokens[t].status = "spent"
    PROVE  tokens'[t].status = "spent"
<1>1. Exists(tokens[t])
  BY DEF Exists
<1>2. TokenMove(t)
  BY DEF Forms, TokensMove
<1> QED
  BY <1>1, <1>2 DEF TokenMove

(* The forms keep the types.                                               *)
LEMMA TypeStep == Forms => TypeOK'
BY DEF Forms, RowsMove, SessionsMove, TokensMove, HandlersMove, HandlerStates, TypeOK

(* What belongs to an account goes on belonging to one.                    *)
LEMMA OwnedStep == IndInv /\ Forms => Owned'
<1> SUFFICES ASSUME IndInv, Forms
             PROVE  Owned'
  OBVIOUS
<1> TypeOK /\ Owned
  BY DEF IndInv
<1>1. ASSUME NEW s \in SessionIds, Exists(sessions'[s])
      PROVE  Exists(accounts'[sessions'[s].user])
  <2>1. PICK u \in Users : Exists(accounts[u]) /\ sessions'[s].user = u
    <3>1. CASE sessions'[s] = sessions[s]
      BY <1>1, <3>1, RowTypes DEF Owned, Session
    <3>2. CASE /\ Exists(sessions[s])
               /\ sessions'[s] = [status |-> "ended", user |-> sessions[s].user,
                                  password |-> sessions[s].password]
      BY <3>2, RowTypes DEF Owned, Session
    <3>3. ASSUME NEW p \in Handlers, At(p, "login_open"),
                 sessions'[s] = [status |-> "live", user |-> handlers[p].user,
                                 password |-> handlers[p].password]
          PROVE  \E u \in Users : Exists(accounts[u]) /\ sessions'[s].user = u
      BY <3>3, PcTypes DEF At, LoggingIn, Owned
    <3>4. SessionMove(s)
      BY DEF Forms, SessionsMove
    <3> QED
      BY <3>1, <3>2, <3>3, <3>4 DEF SessionMove
  <2> QED
    BY <2>1, AccountsStay
<1>2. ASSUME NEW t \in TokenIds, Exists(tokens'[t])
      PROVE  Exists(accounts'[tokens'[t].user])
  <2>1. PICK u \in Users : Exists(accounts[u]) /\ tokens'[t].user = u
    <3>1. CASE tokens'[t] = tokens[t]
      BY <1>2, <3>1, RowTypes DEF Owned, Token
    <3>2. CASE /\ Exists(tokens[t])
               /\ tokens'[t] = [status |-> "spent", kind |-> tokens[t].kind,
                                user |-> tokens[t].user]
      BY <3>2, RowTypes DEF Owned, Token
    <3>3. ASSUME NEW kind \in {"verify", "reset"}, NEW u \in Users, Exists(accounts[u]),
                 tokens'[t] = [status |-> "fresh", kind |-> kind, user |-> u]
          PROVE  \E v \in Users : Exists(accounts[v]) /\ tokens'[t].user = v
      BY <3>3
    <3>4. TokenMove(t)
      BY DEF Forms, TokensMove
    <3> QED
      BY <3>1, <3>2, <3>3, <3>4 DEF TokenMove
  <2> QED
    BY <2>1, AccountsStay
<1>3. ASSUME NEW p \in Handlers, handlers'[p].pc \notin {"idle", "admin_find"}
      PROVE  Exists(accounts'[handlers'[p].user])
  <2> DEFINE h == handlers'[p]
  <2>1. h \in HandlerStates /\ (h = handlers[p] \/ Becomes(p, h))
    BY DEF Forms, HandlersMove
  <2>2. h.user \in Users
    BY <1>3, <2>1 DEF HandlerStates, Idle, OnAccount, LoggingIn, OnToken, Resetting,
       WritingProfile, WritingToken, Administering
  <2>3. CASE Exists(accounts[h.user])
    BY <2>2, <2>3, AccountsStay
  <2>4. CASE h = handlers[p]
    BY <1>3, <2>3, <2>4 DEF Owned
  <2>5. CASE h.pc = "register_token" /\ Exists(accounts'[h.user])
    BY <2>5
  <2>6. CASE h.pc = "login_open" /\ accounts[h.user].status = "active"
    BY <2>3, <2>6 DEF Exists
  <2>7. CASE /\ h.pc \in {"verify_find", "reset_find"} /\ tokens[h.token].status = "fresh"
             /\ tokens[h.token].user = h.user
    <3>1. h.token \in TokenIds
      BY <2>1, <2>7 DEF HandlerStates, Idle, OnAccount, LoggingIn, OnToken, Resetting,
         WritingProfile, WritingToken, Administering
    <3> QED
      BY <2>3, <2>7, <3>1 DEF Owned, Exists
  <2>8. CASE /\ h.pc \in {"verify_write", "reset_write"} /\ handlers[p].user = h.user
             /\ handlers[p].pc \in {"verify_find", "reset_find"}
    BY <2>3, <2>8 DEF Owned
  <2>9. CASE /\ h.pc \in {"reset_revoke", "admin_revoke"} /\ handlers[p].user = h.user
             /\ handlers[p].pc \in {"reset_write", "admin_write"}
    BY <2>3, <2>9 DEF Owned
  <2> HIDE DEF h
  <2>10. h.pc # "idle" /\ h # Idle /\ h.pc # "admin_find"
    BY <1>3 DEF h, Idle
  <2> QED
    BY <2>1, <2>3, <2>4, <2>5, <2>6, <2>7, <2>8, <2>9, <2>10 DEF Becomes, At, h
<1> QED
  BY <1>1, <1>2, <1>3 DEF Owned

(* A token that one handler consumed is held by it alone: who comes to hold*)
(* a token has found it fresh, and those held already are spent.           *)
LEMMA OnceStep == IndInv /\ Forms => TokenWorksOnce'
<1> SUFFICES ASSUME IndInv, Forms
             PROVE  TokenWorksOnce'
  OBVIOUS
<1> TypeOK /\ TokenWorksOnce
  BY DEF IndInv
<1> DEFINE Holding(h) == h.pc \in {"verify_find", "verify_write", "reset_find", "reset_write"}
           Kept(p) == HoldsToken(p) /\ handlers'[p].token = handlers[p].token
           Taken(p) == /\ tokens[handlers'[p].token].status = "fresh"
                       /\ tokens'[handlers'[p].token].status = "spent"
                       /\ handlers'[p] \notin {handlers[p], Idle}
<1>1. ASSUME NEW p \in Handlers, HoldsToken(p)'
      PROVE  Kept(p) \/ Taken(p)
  <2>1. handlers'[p] = handlers[p] \/ Becomes(p, handlers'[p])
    BY DEF Forms, HandlersMove
  <2>2. handlers'[p] # Idle
    BY <1>1 DEF HoldsToken, Idle
  <2>3. CASE handlers'[p] = handlers[p]
    BY <1>1, <2>3 DEF HoldsToken
  <2>4. CASE Becomes(p, handlers'[p]) /\ handlers'[p] # handlers[p]
    BY <1>1, <2>2, <2>4 DEF HoldsToken, Becomes
  <2> QED
    BY <2>1, <2>3, <2>4
<1>2. ASSUME NEW p \in Handlers, HoldsToken(p)'
      PROVE  handlers'[p].token \in TokenIds /\ (Kept(p) => handlers[p].token \in TokenIds)
  <2>1. handlers'[p] \in HandlerStates
    BY DEF Forms, HandlersMove
  <2> QED
    BY <1>2, <2>1 DEF HoldsToken, HandlerStates, Idle, OnAccount, LoggingIn, OnToken,
       Resetting, WritingProfile, WritingToken, Administering
<1>3. ASSUME NEW p \in Handlers, HoldsToken(p)'
      PROVE  tokens'[handlers'[p].token].status = "spent"
  <2>1. CASE Kept(p)
    BY <1>2, <1>3, <2>1, SpentStays DEF TokenWorksOnce
  <2> QED
    BY <1>1, <1>3, <2>1
<1>4. ASSUME NEW p \in Handlers, NEW q \in Handlers \ {p}, HoldsToken(p)', HoldsToken(q)'
      PROVE  handlers'[q].token # handlers'[p].token
  <2>1. Kept(p) \/ Kept(q)
    BY <1>1, <1>4 DEF Forms, HandlersMove, OneMoves
  <2>2. CASE Kept(p) /\ Kept(q)
    BY <1>4, <2>2 DEF TokenWorksOnce
  <2>3. CASE Kept(p) /\ Taken(q)
    BY <1>4, <2>3 DEF TokenWorksOnce
  <2>4. CASE Taken(p) /\ Kept(q)
    BY <1>4, <2>4 DEF TokenWorksOnce
  <2> QED
    BY <1>1, <1>4, <2>1, <2>2, <2>3, <2>4
<1> QED
  BY <1>3, <1>4 DEF TokenWorksOnce

(* The invariant is inductive.                                             *)
LEMMA Inductive == Spec => []IndInv
<1>1. Init => IndInv
  <2> SUFFICES ASSUME Init
               PROVE  IndInv
    OBVIOUS
  <2>1. PICK w \in [Admins -> Passwords] :
           accounts = [u \in Users |->
              IF u \in Admins
              THEN [status |-> "active", password |-> w[u], verified |-> TRUE]
              ELSE Absent]
    BY DEF Init
  <2>2. accounts \in [Users -> User \cup {Absent}]
    BY <2>1 DEF User
  <2> QED
    BY <2>2 DEF Init, IndInv, TypeOK, Owned, Exists, Absent, Idle, TokenWorksOnce, HoldsToken
<1>2. IndInv /\ [Next]_vars => IndInv'
  BY StepForms, TypeStep, OwnedStep, OnceStep DEF IndInv
<1> QED
  BY <1>1, <1>2, PTL DEF Spec

(* Rows, sessions, tokens and handlers keep their types.                   *)
THEOREM TypeCorrect == Spec => []TypeOK
BY Inductive, PTL DEF IndInv

(* A mailed link lets one handler through to the account, and no other, now*)
(* or later.                                                               *)
THEOREM LinksWorkOnce == Spec => []TokenWorksOnce
BY Inductive, PTL DEF IndInv

-----------------------------------------------------------------------------
(* The step properties.                                                    *)

(* What a handler comes to hold, by the statement it has come to.          *)
LEMMA NewHolder ==
    ASSUME Forms, NEW p \in Handlers, handlers'[p] # handlers[p]
    PROVE  Becomes(p, handlers'[p])
BY DEF Forms, HandlersMove

(* The columns of an account change only to what a handler writes.         *)
LEMMA RowStays ==
    ASSUME IndInv, Forms, NEW u \in Users, Exists(accounts[u])
    PROVE  /\ accounts'[u].status = accounts[u].status
              \/ \E p \in Handlers : /\ WritesRow(p) \/ At(p, "admin_write")
                                     /\ handlers[p].user = u
                                     /\ WritesRow(p) =>
                                           handlers[p].row.status = accounts'[u].status
                                     /\ At(p, "admin_write") =>
                                           handlers[p].status = accounts'[u].status
           /\ accounts'[u].password = accounts[u].password
              \/ \E p \in Handlers : /\ WritesRow(p) /\ handlers[p].user = u
                                     /\ handlers[p].row.password = accounts'[u].password
           /\ accounts'[u].verified = accounts[u].verified
              \/ \E p \in Handlers : /\ WritesRow(p) /\ handlers[p].user = u
                                     /\ handlers[p].row.verified = accounts'[u].verified
<1>1. RowMove(u)
  BY DEF Forms, RowsMove
<1> QED
  BY <1>1 DEF RowMove, WritesRow, At

(* A session that is live was live before, or a login has opened it.       *)
LEMMA LiveSession ==
    ASSUME Forms, NEW s \in SessionIds, sessions'[s].status = "live"
    PROVE  \/ sessions'[s] = sessions[s]
           \/ \E p \in Handlers : /\ At(p, "login_open")
                                  /\ sessions'[s].user = handlers[p].user
                                  /\ sessions'[s].password = handlers[p].password
<1>1. CASE sessions'[s] = sessions[s]
  BY <1>1
<1>2. CASE sessions'[s] = [status |-> "ended", user |-> sessions[s].user,
                           password |-> sessions[s].password]
  BY <1>2
<1>3. ASSUME NEW p \in Handlers, At(p, "login_open"),
             sessions'[s] = [status |-> "live", user |-> handlers[p].user,
                             password |-> handlers[p].password]
      PROVE  /\ sessions'[s].user = handlers[p].user
             /\ sessions'[s].password = handlers[p].password
  BY <1>3
<1>4. SessionMove(s)
  BY DEF Forms, SessionsMove
<1> QED
  BY <1>1, <1>2, <1>3, <1>4 DEF SessionMove

(* A user who is shut out stays so, until an administrator's next status   *)
(* change of that account is past its checks.                              *)
THEOREM ShutOutStays == Spec => ShutOutHolds
<1> DEFINE Claim == \A u \in Users :
              ShutOut(u) =>
                  \/ ShutOut(u)'
                  \/ \E p \in Handlers : AdminFind(p) /\ handlers[p].user = u
<1>1. ASSUME IndInv, [Next]_vars, NEW u \in Users, ShutOut(u),
             ~ \E p \in Handlers : AdminFind(p) /\ handlers[p].user = u
      PROVE  ShutOut(u)'
  <2>1. Forms /\ Exists(accounts[u])
    BY <1>1, StepForms, RolesAndStatuses DEF ShutOut, Exists
  <2>2. accounts'[u].status = accounts[u].status
    BY <1>1, <2>1, RowStays DEF ShutOut
  <2>3. ASSUME NEW s \in SessionIds, sessions'[s].status = "live"
        PROVE  sessions'[s].user # u
    <3>1. \/ sessions'[s] = sessions[s]
          \/ \E p \in Handlers : At(p, "login_open") /\ sessions'[s].user = handlers[p].user
      BY <2>1, <2>3, LiveSession
    <3> QED
      BY <1>1, <2>3, <3>1 DEF ShutOut
  <2>4. ASSUME NEW p \in Handlers
        PROVE  /\ At(p, "login_open")' => handlers'[p].user # u
               /\ WritesRow(p)' /\ handlers'[p].user = u =>
                     handlers'[p].row.status = accounts[u].status
               /\ At(p, "admin_write")' /\ handlers'[p].user = u =>
                     handlers'[p].status = accounts[u].status
    <3>1. CASE handlers'[p] = handlers[p]
      BY <1>1, <3>1 DEF ShutOut, At, WritesRow
    <3>2. CASE Becomes(p, handlers'[p])
      BY <1>1, <3>2, RolesAndStatuses DEF Becomes, ShutOut, At, WritesRow, Idle
    <3> QED
      BY <2>1, <3>1, <3>2, NewHolder
  <2> QED
    BY <1>1, <2>2, <2>3, <2>4 DEF ShutOut
<1>2. IndInv /\ [Next]_vars => Claim
  BY <1>1
<1>3. Claim => [Claim]_vars
  OBVIOUS
<1> QED
  BY <1>2, Inductive, PTL DEF Spec, ShutOutHolds

(* A revocation of the user's sessions leaves none live, so what an older  *)
(* password opened goes with the others.                                   *)
THEOREM ResetEndsSessions == Spec => ResetForcesLogout
<1> DEFINE Claim == \A p \in Handlers, u \in Users :
              ResetRevoke(p) /\ handlers[p].user = u /\ Unopposed(u)
                  => OnlyCurrentSessions(u)'
<1>1. ASSUME IndInv, NEW p \in Handlers, NEW s \in SessionIds, ResetRevoke(p),
             sessions'[s].status = "live"
      PROVE  sessions'[s].user # handlers[p].user
  <2>1. sessions'[s] = IF Exists(sessions[s]) /\ sessions[s].user = handlers[p].user
                       THEN [sessions[s] EXCEPT !.status = "ended"] ELSE sessions[s]
    BY <1>1 DEF ResetRevoke, RevokeAll
  <2>2. Exists(sessions[s]) => [sessions[s] EXCEPT !.status = "ended"].status = "ended"
    BY <1>1, RowTypes DEF IndInv, Session
  <2>3. sessions[s].status = "live" => Exists(sessions[s])
    BY DEF Exists
  <2> QED
    BY <1>1, <2>1, <2>2, <2>3
<1>2. IndInv => Claim
  BY <1>1 DEF OnlyCurrentSessions
<1>3. Claim => [Claim]_vars
  OBVIOUS
<1> QED
  BY <1>2, Inductive, PTL DEF ResetForcesLogout

(* Once nothing in flight carries an old password and no session is one's, *)
(* it stays so until the next reset of the account.                        *)
THEOREM CurrentStaysCurrent == Spec => PasswordStaysCurrent
<1> DEFINE Claim == \A u \in Users :
              Exists(accounts[u]) /\ Unopposed(u) /\ OnlyCurrentSessions(u) =>
                  \/ (Unopposed(u) /\ OnlyCurrentSessions(u))'
                  \/ ~ NoResetAhead(u)'
<1>1. ASSUME IndInv, [Next]_vars, NEW u \in Users, Exists(accounts[u]),
             Unopposed(u), OnlyCurrentSessions(u), NoResetAhead(u)'
      PROVE  (Unopposed(u) /\ OnlyCurrentSessions(u))'
  <2>1. Forms
    BY <1>1, StepForms
  <2>2. accounts'[u].password = accounts[u].password
    BY <1>1, <2>1, RowStays DEF Unopposed
  <2>3. ASSUME NEW s \in SessionIds, sessions'[s].status = "live", sessions'[s].user = u
        PROVE  sessions'[s].password = accounts[u].password
    <3>1. \/ sessions'[s] = sessions[s]
          \/ \E p \in Handlers : /\ At(p, "login_open")
                                 /\ sessions'[s].user = handlers[p].user
                                 /\ sessions'[s].password = handlers[p].password
      BY <2>1, <2>3, LiveSession
    <3> QED
      BY <1>1, <2>3, <3>1 DEF OnlyCurrentSessions, Unopposed
  <2>4. ASSUME NEW p \in Handlers
        PROVE  /\ At(p, "login_open")' /\ handlers'[p].user = u =>
                     handlers'[p].password = accounts[u].password
               /\ WritesRow(p)' /\ handlers'[p].user = u =>
                     handlers'[p].row.password = accounts[u].password
    <3>1. CASE handlers'[p] = handlers[p]
      BY <1>1, <3>1 DEF Unopposed, At, WritesRow
    <3>2. CASE Becomes(p, handlers'[p])
      BY <1>1, <3>2 DEF Becomes, Unopposed, NoResetAhead, At, WritesRow, Idle
    <3> QED
      BY <2>1, <3>1, <3>2, NewHolder
  <2> QED
    BY <1>1, <2>2, <2>3, <2>4 DEF Unopposed, OnlyCurrentSessions
<1>2. IndInv /\ [Next]_vars => Claim
  BY <1>1
<1>3. Claim => [Claim]_vars
  OBVIOUS
<1> QED
  BY <1>2, Inductive, PTL DEF Spec, PasswordStaysCurrent

(* UserRepository.Update (user_repo.go:105): once no copy of the row from  *)
(* before the verification is left, no handler takes the verification back,*)
(* for any number of concurrent handlers.                                  *)
THEOREM VerificationStays == Spec => VerificationLasts
<1> DEFINE Claim == \A u \in Users : Confirmed(u) => Confirmed(u)'
<1>1. ASSUME IndInv, [Next]_vars, NEW u \in Users, Confirmed(u)
      PROVE  Confirmed(u)'
  <2>1. Forms /\ Exists(accounts[u]) /\ accounts[u].verified
    BY <1>1, StepForms DEF Confirmed
  <2>2. Exists(accounts'[u])
    BY <1>1, <2>1, AccountsStay
  <2>3. accounts'[u].verified
    BY <1>1, <2>1, RowStays DEF Confirmed
  <2>4. ASSUME NEW p \in Handlers, WritesRow(p)', handlers'[p].user = u
        PROVE  handlers'[p].row.verified
    <3>1. CASE handlers'[p] = handlers[p]
      BY <1>1, <2>4, <3>1 DEF Confirmed, WritesRow
    <3>2. CASE Becomes(p, handlers'[p])
      BY <2>1, <2>4, <3>2 DEF Becomes, WritesRow, Idle
    <3> QED
      BY <2>1, <3>1, <3>2, NewHolder
  <2> QED
    BY <2>2, <2>3, <2>4 DEF Confirmed
<1>2. IndInv /\ [Next]_vars => Claim
  BY <1>1
<1>3. Claim => [Claim]_vars
  OBVIOUS
<1> QED
  BY <1>2, Inductive, PTL DEF Spec, VerificationLasts

(* An account that has lost its way to a verification never gets another:  *)
(* nothing in the code does what Register's comment counts on.             *)
THEOREM StrandedStays == Spec => StrandedForGood
<1> DEFINE Claim == \A u \in Users : Stranded(u) => Stranded(u)'
<1>1. ASSUME IndInv, [Next]_vars, NEW u \in Users, Stranded(u)
      PROVE  Stranded(u)'
  <2>1. Forms /\ Exists(accounts[u]) /\ ~ accounts[u].verified
    BY <1>1, StepForms DEF Stranded
  <2>2. Exists(accounts'[u])
    BY <1>1, <2>1, AccountsStay
  <2>3. ~ accounts'[u].verified
    BY <1>1, <2>1, RowStays DEF Stranded
  <2>4. ASSUME NEW t \in TokenIds, tokens'[t].status = "fresh", tokens'[t].kind = "verify"
        PROVE  tokens'[t].user # u
    <3>1. CASE tokens'[t] = tokens[t]
      BY <1>1, <2>4, <3>1 DEF Stranded
    <3>2. CASE tokens'[t] = [status |-> "spent", kind |-> tokens[t].kind,
                             user |-> tokens[t].user]
      BY <2>4, <3>2
    <3>3. ASSUME NEW kind \in {"verify", "reset"}, NEW v \in Users,
                 tokens'[t] = [status |-> "fresh", kind |-> kind, user |-> v],
                 kind = "verify" =>
                    \E p \in Handlers : At(p, "register_token") /\ handlers[p].user = v
          PROVE  tokens'[t].user # u
      BY <1>1, <2>4, <3>3 DEF Stranded, At
    <3>4. TokenMove(t)
      BY <2>1 DEF Forms, TokensMove
    <3> QED
      BY <3>1, <3>2, <3>3, <3>4 DEF TokenMove
  <2>5. ASSUME NEW p \in Handlers
        PROVE  /\ handlers'[p].pc \in {"register_token", "verify_find"} => handlers'[p].user # u
               /\ WritesRow(p)' /\ handlers'[p].user = u => ~ handlers'[p].row.verified
    <3>1. CASE handlers'[p] = handlers[p]
      BY <1>1, <3>1 DEF Stranded, WritesRow
    <3>2. CASE Becomes(p, handlers'[p])
      <4>1. handlers'[p] \in HandlerStates
        BY <2>1 DEF Forms, HandlersMove
      <4>2. handlers'[p].pc = "verify_find" => handlers'[p].token \in TokenIds
        BY <4>1 DEF HandlerStates, Idle, OnAccount, LoggingIn, OnToken, Resetting,
           WritingProfile, WritingToken, Administering
      <4> QED
        BY <1>1, <2>1, <3>2, <4>2 DEF Becomes, Stranded, At, WritesRow, Idle
    <3> QED
      BY <2>1, <3>1, <3>2, NewHolder
  <2> QED
    BY <2>2, <2>3, <2>4, <2>5 DEF Stranded
<1>2. IndInv /\ [Next]_vars => Claim
  BY <1>1
<1>3. Claim => [Claim]_vars
  OBVIOUS
<1> QED
  BY <1>2, Inductive, PTL DEF Spec, StrandedForGood

-----------------------------------------------------------------------------
(* IdentityAccounts implements AccountAccess.                              *)

(* A registration is under way once per account, and no status change of an*)
(* administrator but a reactivation gets past its check.                   *)
RegisteredOnce ==
    \A p, q \in Handlers :
        At(p, "register_token") /\ At(q, "register_token")
            /\ handlers[p].user = handlers[q].user => p = q

AdminsSpared ==
    \A p \in Handlers :
        At(p, "admin_write") /\ handlers[p].user \in Admins => handlers[p].status = "active"

RefInv == IndInv /\ RegisteredOnce /\ AdminsSpared

(* An account that is being registered was absent before.                  *)
LEMMA RegisteredStep == IndInv /\ RegisteredOnce /\ Forms => RegisteredOnce'
<1> SUFFICES ASSUME IndInv, RegisteredOnce, Forms, NEW p \in Handlers, NEW q \in Handlers,
                    At(p, "register_token")', At(q, "register_token")',
                    handlers'[p].user = handlers'[q].user, p # q
             PROVE  FALSE
  BY DEF RegisteredOnce
<1> DEFINE New(r) == ~ Exists(accounts[handlers'[r].user])
           Kept(r) == At(r, "register_token") /\ handlers'[r] = handlers[r]
<1>1. ASSUME NEW r \in Handlers, At(r, "register_token")'
      PROVE  handlers'[r] = handlers[r] \/ New(r)
  <2>1. handlers'[r].pc = "register_token"
    BY <1>1 DEF At
  <2>2. CASE Becomes(r, handlers'[r])
    BY <2>1, <2>2 DEF Becomes, Idle
  <2> QED
    BY <2>2, NewHolder
<1>2. ASSUME NEW r \in Handlers, handlers'[r] = handlers[r], At(r, "register_token")'
      PROVE  ~ New(r) /\ Kept(r)
  BY <1>2 DEF IndInv, Owned, At
<1>3. handlers'[p] \in {handlers[p], Idle} \/ handlers'[q] \in {handlers[q], Idle}
  BY DEF Forms, HandlersMove, OneMoves
<1>4. handlers'[p] # Idle /\ handlers'[q] # Idle
  BY DEF At, Idle
<1>5. CASE handlers'[p] = handlers[p] /\ handlers'[q] = handlers[q]
  BY <1>2, <1>5 DEF RegisteredOnce, At
<1> QED
  BY <1>1, <1>2, <1>3, <1>4, <1>5

(* Both hold.                                                              *)
LEMMA RefInductive == Spec => []RefInv
<1>1. Init => RegisteredOnce /\ AdminsSpared
  BY DEF Init, RegisteredOnce, AdminsSpared, At, Idle
<1>2. AdminsSpared /\ Forms => AdminsSpared'
  <2> SUFFICES ASSUME AdminsSpared, Forms, NEW p \in Handlers,
                      At(p, "admin_write")', handlers'[p].user \in Admins
               PROVE  handlers'[p].status = "active"
    BY DEF AdminsSpared
  <2>1. CASE handlers'[p] = handlers[p]
    BY <2>1 DEF AdminsSpared, At
  <2>2. CASE Becomes(p, handlers'[p])
    BY <2>2 DEF Becomes, At, Idle
  <2> QED
    BY <2>1, <2>2, NewHolder
<1>3. IndInv /\ RegisteredOnce /\ AdminsSpared /\ [Next]_vars
         => (RegisteredOnce /\ AdminsSpared)'
  BY <1>2, StepForms, RegisteredStep
<1> QED
  BY <1>1, <1>3, Inductive, PTL DEF Spec, RefInv

-----------------------------------------------------------------------------
(* What handlers carry.                                                    *)

Pending(u) == UNION {Carried(handlers[p], u) : p \in Handlers}

(* What a handler carries, by the statement it has come to.                *)
LEMMA CarriedBy ==
    ASSUME NEW h, NEW u
    PROVE  /\ h.user # u => Carried(h, u) = {}
           /\ h.pc \in {"idle", "register_token", "login_open", "profile_find", "reset_revoke",
                        "admin_revoke"} => Carried(h, u) = {}
           /\ h.user = u /\ h.pc \in {"profile_write", "verify_write", "reset_write"} =>
                 Carried(h, u) = Attributes(h.row)
           /\ h.user = u /\ h.pc = "reset_find" => Carried(h, u) = {<<"password", h.password>>}
           /\ h.user = u /\ h.pc = "verify_find" => Carried(h, u) = {<<"verified", TRUE>>}
           /\ h.user = u /\ h.pc \in {"admin_find", "admin_write"}
                 /\ (u \in Admins => h.status = "active") =>
                 Carried(h, u) = {<<"status", h.status>>}
           /\ h.user = u /\ h.pc \in {"admin_find", "admin_write"}
                 /\ ~ (u \in Admins => h.status = "active") => Carried(h, u) = {}
<1> DEFINE A == h.pc \in {"profile_write", "verify_write", "reset_write"}
           B == h.pc = "reset_find"
           C == h.pc = "verify_find"
           D == h.pc \in {"admin_find", "admin_write"} /\ (u \in Admins => h.status = "active")
<1>1. h.user # u => Carried(h, u) = {}
  BY DEF Carried
<1>2. h.pc = "idle" => Carried(h, u) = {}
  BY DEF Carried
<1> QED
  BY <1>1, <1>2 DEF Carried

(* What one handler carries counts for the account.                        *)
LEMMA CarriedCounts ==
    ASSUME NEW p \in Handlers, NEW u
    PROVE  Carried(handlers[p], u) \subseteq May(u)
BY DEF May

(* A handler that goes on with no less than it carried adds what it carries*)
(* now.                                                                    *)
LEMMA TurnCarries ==
    ASSUME TypeOK, NEW p \in Handlers, NEW h, handlers' = [handlers EXCEPT ![p] = h],
           NEW u, Carried(handlers[p], u) \subseteq Carried(h, u)
    PROVE  Pending(u)' = Pending(u) \cup Carried(h, u)
<1>1. \A q \in Handlers : handlers'[q] = IF q = p THEN h ELSE handlers[q]
  BY DEF TypeOK
<1>2. Pending(u)' = UNION {Carried(handlers'[q], u) : q \in Handlers}
  BY DEF Pending, Carried
<1> QED
  BY <1>1, <1>2 DEF Pending

(* Who is owed a link, and which sign-ins were let through, after a step   *)
(* that begins neither.                                                    *)
LEMMA TurnOwes ==
    ASSUME TypeOK, NEW p \in Handlers, NEW h, handlers' = [handlers EXCEPT ![p] = h],
           handlers[p].pc \notin {"register_token", "login_open"}
    PROVE  /\ Due' = Due \cup (IF h.pc = "register_token" THEN {h.user} ELSE {})
           /\ Admitted' = Admitted \cup
                 (IF h.pc = "login_open" THEN {<<h.user, h.password>>} ELSE {})
<1>1. \A q \in Handlers : handlers'[q] = IF q = p THEN h ELSE handlers[q]
  BY DEF TypeOK
<1>2. Due' = Due \cup (IF h.pc = "register_token" THEN {h.user} ELSE {})
  BY <1>1 DEF Due, At
<1>3. Admitted' = Admitted \cup (IF h.pc = "login_open" THEN {<<h.user, h.password>>} ELSE {})
  BY <1>1 DEF Admitted, At
<1> QED
  BY <1>2, <1>3

-----------------------------------------------------------------------------
(* The steps that only carry on with what is under way.                    *)

Begins == {"register_token", "login_open", "verify_find", "reset_find", "admin_find"}

(* Nothing is created and nothing is begun.                                *)
Quiet ==
    /\ \A u \in Users : Exists(accounts'[u]) => Exists(accounts[u])
    /\ \A s \in SessionIds : Exists(sessions'[s]) => Exists(sessions[s])
    /\ \A t \in TokenIds : Exists(tokens'[t]) => Exists(tokens[t])
    /\ \A p \in Handlers : handlers'[p] = handlers[p] \/ handlers'[p].pc \notin Begins

(* Such a step makes of an account what it was or what a handler carried.  *)
LEMMA QuietRows ==
    ASSUME RefInv, Forms, Quiet, NEW u \in Users
    PROVE  Has(u)' \subseteq May(u) /\ (Has(u)' = {} <=> Has(u) = {})
<1>1. RowMove(u) /\ TypeOK /\ (Exists(accounts'[u]) => Exists(accounts[u]))
  BY DEF Forms, RowsMove, RefInv, IndInv, Quiet
<1>2. Exists(accounts[u]) => Exists(accounts'[u])
  BY AccountsStay DEF RefInv
<1>3. Has(u)' = IF Exists(accounts'[u]) THEN Attributes(accounts'[u]) ELSE {}
  BY DEF Has, Attributes, Exists
<1>4. \A row : Attributes(row) # {}
  BY DEF Attributes
<1>5. Has(u) \subseteq May(u)
  BY DEF May
<1>6. CASE accounts'[u] = accounts[u]
  BY <1>3, <1>5, <1>6 DEF Has
<1>7. ASSUME NEW p \in Handlers, WritesRow(p), handlers[p].user = u,
             accounts'[u] = handlers[p].row
      PROVE  Attributes(accounts'[u]) \subseteq May(u)
  BY <1>7, CarriedBy, CarriedCounts DEF WritesRow
<1>8. ASSUME NEW p \in Handlers, At(p, "admin_write"), handlers[p].user = u,
             accounts'[u].status = handlers[p].status,
             accounts'[u].password = accounts[u].password,
             accounts'[u].verified = accounts[u].verified,
             Exists(accounts[u])
      PROVE  Attributes(accounts'[u]) \subseteq May(u)
  <2>1. <<"status", handlers[p].status>> \in Carried(handlers[p], u)
    <3>1. u \in Admins => handlers[p].status = "active"
      BY <1>8 DEF RefInv, AdminsSpared
    <3> QED
      BY <1>8, <3>1, CarriedBy DEF At
  <2>2. <<"status", handlers[p].status>> \in May(u)
    BY <2>1, CarriedCounts
  <2> QED
    BY <1>5, <1>8, <2>2 DEF Attributes, Has
<1>9. Exists(accounts[u]) => Attributes(accounts'[u]) \subseteq May(u) \/ Has(u)' \subseteq May(u)
  BY <1>1, <1>6, <1>7, <1>8 DEF RowMove
<1> QED
  BY <1>1, <1>2, <1>3, <1>4, <1>9 DEF Has

(* Such a step carries nothing that the account may not become already.    *)
LEMMA QuietCarries ==
    ASSUME RefInv, Forms, Quiet, NEW u \in Users, NEW p \in Handlers
    PROVE  Carried(handlers'[p], u) \subseteq May(u)
<1> DEFINE h == handlers'[p]
<1>1. CASE h = handlers[p]
  BY <1>1, CarriedCounts
<1>2. ASSUME h # handlers[p], h.user = u, h.pc # "idle"
      PROVE  Carried(h, u) \subseteq May(u)
  <2>1. Becomes(p, h) /\ h.pc \notin Begins /\ h # Idle
    BY <1>2, NewHolder DEF Quiet, Idle
  <2>2. CASE h.pc \in {"profile_find", "reset_revoke", "admin_revoke"}
    BY <2>2, CarriedBy
  <2>3. CASE h.pc = "profile_write"
    <3>1. Exists(accounts[u]) /\ h.row = accounts[u]
      BY <1>2, <2>1, <2>3 DEF Becomes, Begins
    <3> QED
      BY <1>2, <2>3, <3>1, CarriedBy DEF May, Has
  <2>4. CASE h.pc = "verify_write"
    <3>1. /\ handlers[p].pc = "verify_find" /\ handlers[p].user = u
          /\ h.row.status = accounts[u].status /\ h.row.password = accounts[u].password
          /\ h.row.verified = TRUE
      BY <1>2, <2>1, <2>4 DEF Becomes
    <3>2. Exists(accounts[u])
      BY <3>1 DEF RefInv, IndInv, Owned
    <3>3. <<"verified", TRUE>> \in May(u)
      BY <3>1, CarriedBy, CarriedCounts
    <3>4. Attributes(accounts[u]) \subseteq May(u)
      BY <3>2 DEF May, Has
    <3>5. Attributes(h.row) \subseteq May(u)
      BY <3>1, <3>3, <3>4 DEF Attributes
    <3> QED
      BY <1>2, <2>4, <3>5, CarriedBy
  <2>5. CASE h.pc = "reset_write"
    <3>1. /\ handlers[p].pc = "reset_find" /\ handlers[p].user = u
          /\ h.row.status = accounts[u].status /\ h.row.verified = accounts[u].verified
          /\ h.row.password = handlers[p].password
      BY <1>2, <2>1, <2>5 DEF Becomes
    <3>2. Exists(accounts[u])
      BY <3>1 DEF RefInv, IndInv, Owned
    <3>3. <<"password", handlers[p].password>> \in May(u)
      BY <3>1, CarriedBy, CarriedCounts
    <3>4. Attributes(accounts[u]) \subseteq May(u)
      BY <3>2 DEF May, Has
    <3>5. Attributes(h.row) \subseteq May(u)
      BY <3>1, <3>3, <3>4 DEF Attributes
    <3> QED
      BY <1>2, <2>5, <3>5, CarriedBy
  <2>6. CASE h.pc = "admin_write"
    <3>1. /\ handlers[p].pc = "admin_find" /\ handlers[p].user = u
          /\ handlers[p].status = h.status /\ (u \in Admins => h.status = "active")
      BY <1>2, <2>1, <2>6 DEF Becomes, AdminFind, At
    <3>2. Carried(handlers[p], u) = {<<"status", h.status>>}
      BY <3>1, CarriedBy
    <3>3. Carried(h, u) = {<<"status", h.status>>}
      BY <1>2, <2>6, <3>1, CarriedBy
    <3> QED
      BY <3>2, <3>3, CarriedCounts
  <2> HIDE DEF h
  <2>7. h.pc \in {"profile_find", "reset_revoke", "admin_revoke", "profile_write",
                  "verify_write", "reset_write", "admin_write"}
    BY <2>1 DEF Becomes, Begins
  <2> QED
    BY <2>2, <2>3, <2>4, <2>5, <2>6, <2>7
<1> QED
  BY <1>1, <1>2, CarriedBy

(* Such a step settles.                                                    *)
LEMMA QuietSettles ==
    ASSUME RefInv, Forms, Quiet
    PROVE  Promise!Settle
<1> TypeOK
  BY DEF RefInv, IndInv
<1>1. ASSUME NEW u \in Users
      PROVE  May(u)' \subseteq May(u)
  <2>1. May(u)' = Has(u)' \cup UNION {Carried(handlers'[p], u) : p \in Handlers}
    BY DEF May, Carried
  <2> QED
    BY <2>1, QuietRows, QuietCarries
<1>2. ASSUME NEW p \in Handlers, handlers'[p].pc \in {"register_token", "login_open"}
      PROVE  handlers'[p] = handlers[p]
  BY <1>2 DEF Quiet, Begins
<1>3. Due' \subseteq Due /\ Admitted' \subseteq Admitted
  <2>1. Due' = {handlers'[p].user : p \in {q \in Handlers : handlers'[q].pc = "register_token"}}
    BY DEF Due, At
  <2>2. Admitted' = {<<handlers'[p].user, handlers'[p].password>> :
                        p \in {q \in Handlers : handlers'[q].pc = "login_open"}}
    BY DEF Admitted, At
  <2>3. Due' \subseteq Due
    BY <1>2, <2>1 DEF Due, At
  <2>4. Admitted' \subseteq Admitted
    BY <1>2, <2>2 DEF Admitted, At
  <2> QED
    BY <2>3, <2>4
<1>4. ASSUME NEW t \in TokenIds
      PROVE  /\ Exists(tokens'[t]) <=> Exists(tokens[t])
             /\ tokens'[t].status = "fresh" => tokens'[t] = tokens[t]
  <2>1. TokenMove(t) /\ (Exists(tokens'[t]) => Exists(tokens[t]))
    BY DEF Forms, TokensMove, Quiet
  <2>2. CASE tokens'[t] = tokens[t]
    BY <2>2
  <2>3. CASE /\ Exists(tokens[t])
             /\ tokens'[t] = [status |-> "spent", kind |-> tokens[t].kind,
                              user |-> tokens[t].user]
    BY <2>3 DEF Exists
  <2>4. ASSUME NEW kind, NEW u, ~ Exists(tokens[t]),
               tokens'[t] = [status |-> "fresh", kind |-> kind, user |-> u]
        PROVE  FALSE
    BY <2>1, <2>4 DEF Exists
  <2> QED
    BY <2>1, <2>2, <2>3, <2>4 DEF TokenMove
<1>5. ASSUME NEW s \in SessionIds
      PROVE  /\ Exists(sessions'[s]) <=> Exists(sessions[s])
             /\ sessions'[s].status = "live" => sessions'[s] = sessions[s]
  <2>1. SessionMove(s) /\ (Exists(sessions'[s]) => Exists(sessions[s]))
    BY DEF Forms, SessionsMove, Quiet
  <2>2. CASE sessions'[s] = sessions[s]
    BY <2>2
  <2>3. CASE /\ Exists(sessions[s])
             /\ sessions'[s] = [status |-> "ended", user |-> sessions[s].user,
                                password |-> sessions[s].password]
    BY <2>3 DEF Exists
  <2>4. ASSUME NEW p \in Handlers, ~ Exists(sessions[s]),
               sessions'[s] = [status |-> "live", user |-> handlers[p].user,
                               password |-> handlers[p].password]
        PROVE  FALSE
    BY <2>1, <2>4 DEF Exists
  <2> QED
    BY <2>1, <2>2, <2>3, <2>4 DEF SessionMove
<1>6. Links' \subseteq Links /\ Live' \subseteq Live
  <2>1. Links' \subseteq Links
    BY <1>4 DEF Links
  <2>2. Live' \subseteq Live
    BY <1>5 DEF Live
  <2> QED
    BY <2>1, <2>2
<1>7. /\ {t \in TokenIds : Exists(tokens[t])}' = {t \in TokenIds : Exists(tokens[t])}
      /\ {s \in SessionIds : Exists(sessions[s])}' = {s \in SessionIds : Exists(sessions[s])}
  BY <1>4, <1>5 DEF Exists
<1> QED
  BY <1>1, <1>3, <1>6, <1>7, QuietRows DEF Promise!Settle

(* A handler that comes to no first statement begins nothing.              *)
LEMMA TurnQuiet ==
    ASSUME TypeOK, NEW p \in Handlers, NEW h, handlers' = [handlers EXCEPT ![p] = h],
           h.pc \notin Begins
    PROVE  \A q \in Handlers : handlers'[q] = handlers[q] \/ handlers'[q].pc \notin Begins
BY DEF TypeOK

(* No handler begins anything by ending.                                   *)
LEMMA AnswerQuiet ==
    ASSUME TypeOK, NEW p \in Handlers, Answer(p)
    PROVE  \A q \in Handlers : handlers'[q] = handlers[q] \/ handlers'[q].pc \notin Begins
<1>1. handlers' = [handlers EXCEPT ![p] = Idle] /\ Idle.pc \notin Begins
  BY DEF Answer, Continue, Idle, Begins
<1> QED
  BY <1>1, TurnQuiet

(* Ending sessions opens none.                                             *)
LEMMA RevokeQuiet ==
    ASSUME NEW u, RevokeAll(u), NEW s \in SessionIds, Exists(sessions'[s])
    PROVE  Exists(sessions[s])
BY DEF RevokeAll

(* The steps of a handler that carry on with what is under way.            *)
LEMMA ProceedQuiet ==
    ASSUME RefInv, NEW p \in Handlers
    PROVE  /\ \A u \in Users : ProfileCall(p, u) => Quiet
           /\ ProfileFind(p) \/ VerifyFind(p) \/ ResetFind(p) \/ WriteRow(p) => Quiet
           /\ ResetRevoke(p) \/ AdminRevoke(p) \/ StatementFails(p) => Quiet
           /\ AdminFind(p) \/ AdminWrite(p) => Quiet
<1> TypeOK
  BY DEF RefInv, IndInv
<1>1. ASSUME NEW u \in Users, ProfileCall(p, u)
      PROVE  Quiet
  <2> DEFINE h == [pc |-> "profile_find", user |-> u]
  <2>1. handlers' = [handlers EXCEPT ![p] = h] /\ h.pc \notin Begins
    BY <1>1 DEF ProfileCall, Continue, Begins
  <2> HIDE DEF h
  <2> QED
    BY <1>1, <2>1, TurnQuiet DEF ProfileCall, Quiet
<1>2. ASSUME ProfileFind(p)
      PROVE  Quiet
  <2> DEFINE h == [pc |-> "profile_write", user |-> handlers[p].user,
                   row |-> accounts[handlers[p].user]]
  <2>1. handlers' = [handlers EXCEPT ![p] = h] /\ h.pc \notin Begins
    BY <1>2 DEF ProfileFind, Continue, Begins
  <2> HIDE DEF h
  <2> QED
    BY <1>2, <2>1, TurnQuiet DEF ProfileFind, Quiet
<1>3. ASSUME VerifyFind(p)
      PROVE  Quiet
  <2> DEFINE row == [accounts[handlers[p].user] EXCEPT !.verified = TRUE]
             h == [pc |-> "verify_write", user |-> handlers[p].user,
                   token |-> handlers[p].token, row |-> row]
  <2>1. handlers' = [handlers EXCEPT ![p] = h]
    BY <1>3 DEF VerifyFind, Continue
  <2> HIDE DEF row
  <2>2. h.pc \notin Begins
    BY DEF Begins
  <2> HIDE DEF h
  <2> QED
    BY <1>3, <2>1, <2>2, TurnQuiet DEF VerifyFind, Quiet
<1>4. ASSUME ResetFind(p)
      PROVE  Quiet
  <2> DEFINE row == [accounts[handlers[p].user] EXCEPT !.password = handlers[p].password]
             h == [pc |-> "reset_write", user |-> handlers[p].user,
                   token |-> handlers[p].token, row |-> row]
  <2>1. handlers' = [handlers EXCEPT ![p] = h]
    BY <1>4 DEF ResetFind, Continue
  <2> HIDE DEF row
  <2>2. h.pc \notin Begins
    BY DEF Begins
  <2> HIDE DEF h
  <2> QED
    BY <1>4, <2>1, <2>2, TurnQuiet DEF ResetFind, Quiet
<1>5. ASSUME WriteRow(p)
      PROVE  Quiet
  <2>1. Exists(accounts[handlers[p].user])
    BY <1>5 DEF RefInv, IndInv, Owned, WriteRow, WritesRow
  <2>2. \A u \in Users : accounts'[u] = accounts[u] \/ u = handlers[p].user
    BY <1>5 DEF WriteRow, TypeOK
  <2>3. \A q \in Handlers : handlers'[q] = handlers[q] \/ handlers'[q].pc \notin Begins
    <3> DEFINE h == [pc |-> "reset_revoke", user |-> handlers[p].user]
    <3>1. h.pc \notin Begins /\ (Answer(p) \/ handlers' = [handlers EXCEPT ![p] = h])
      BY <1>5 DEF WriteRow, Continue, Begins
    <3> HIDE DEF h
    <3> QED
      BY <3>1, TurnQuiet, AnswerQuiet
  <2> QED
    BY <1>5, <2>1, <2>2, <2>3 DEF WriteRow, Quiet
<1>6. ASSUME ResetRevoke(p) \/ AdminRevoke(p) \/ StatementFails(p)
      PROVE  Quiet
  BY <1>6, AnswerQuiet, RevokeQuiet DEF ResetRevoke, AdminRevoke, StatementFails, Quiet
<1>7. ASSUME AdminFind(p)
      PROVE  Quiet
  <2> DEFINE h == [handlers[p] EXCEPT !.pc = "admin_write"]
  <2>1. Answer(p) \/ handlers' = [handlers EXCEPT ![p] = h]
    BY <1>7 DEF AdminFind, Continue
  <2>2. handlers[p] \in Administering
    BY <1>7, PcTypes DEF AdminFind, At
  <2>3. h.pc \notin Begins
    BY <2>2 DEF Begins, Administering
  <2> HIDE DEF h
  <2> QED
    BY <1>7, <2>1, <2>3, TurnQuiet, AnswerQuiet DEF AdminFind, Quiet
<1>8. ASSUME AdminWrite(p)
      PROVE  Quiet
  <2>1. Exists(accounts[handlers[p].user])
    BY <1>8 DEF RefInv, IndInv, Owned, AdminWrite, At
  <2>2. \A u \in Users : accounts'[u] = accounts[u] \/ u = handlers[p].user
    BY <1>8 DEF AdminWrite, TypeOK
  <2>3. \A q \in Handlers : handlers'[q] = handlers[q] \/ handlers'[q].pc \notin Begins
    <3> DEFINE h == [pc |-> "admin_revoke", user |-> handlers[p].user]
    <3>1. h.pc \notin Begins /\ (Answer(p) \/ handlers' = [handlers EXCEPT ![p] = h])
      BY <1>8 DEF AdminWrite, Continue, Begins
    <3> HIDE DEF h
    <3> QED
      BY <3>1, TurnQuiet, AnswerQuiet
  <2> QED
    BY <1>8, <2>1, <2>2, <2>3 DEF AdminWrite, Quiet
<1> QED
  BY <1>1, <1>2, <1>3, <1>4, <1>5, <1>6, <1>7, <1>8

(* The steps that end sessions, tokens or the handlers.                    *)
LEMMA OtherQuiet ==
    ASSUME RefInv
    PROVE  /\ \A s \in SessionIds : Logout(s) \/ SessionExpires(s) => Quiet
           /\ \A t \in TokenIds : TokenExpires(t) => Quiet
           /\ Restart => Quiet
           /\ UNCHANGED vars => Quiet
<1> TypeOK
  BY DEF RefInv, IndInv
<1>1. ASSUME NEW s \in SessionIds, Logout(s) \/ SessionExpires(s)
      PROVE  Quiet
  <2>1. Exists(sessions[s]) /\ \A r \in SessionIds : sessions'[r] = sessions[r] \/ r = s
    BY <1>1 DEF Logout, SessionExpires, Exists, TypeOK
  <2> QED
    BY <1>1, <2>1 DEF Logout, SessionExpires, Quiet
<1>2. ASSUME NEW t \in TokenIds, TokenExpires(t)
      PROVE  Quiet
  <2>1. Exists(tokens[t]) /\ \A r \in TokenIds : tokens'[r] = tokens[r] \/ r = t
    BY <1>2 DEF TokenExpires, Exists, TypeOK
  <2> QED
    BY <1>2, <2>1 DEF TokenExpires, Quiet
<1>3. ASSUME Restart
      PROVE  Quiet
  BY <1>3 DEF Restart, Quiet, Idle, Begins
<1>4. UNCHANGED vars => Quiet
  BY DEF vars, Quiet
<1> QED
  BY <1>1, <1>2, <1>3, <1>4

-----------------------------------------------------------------------------
(* The steps that begin something.                                         *)

(* What an account may become, as a function of what may become of each.   *)
LEMMA Allows ==
    ASSUME NEW u \in Users, NEW what,
           \A v \in Users : May(v)' = IF v = u THEN May(v) \cup what ELSE May(v)
    PROVE  Promise!Allow(u, what)
BY DEF Promise!Allow

(* What accounts may become once an idle handler has begun.                *)
LEMMA BeginCarries ==
    ASSUME TypeOK, NEW p \in Handlers, NEW h, handlers' = [handlers EXCEPT ![p] = h],
           At(p, "idle"), NEW u
    PROVE  /\ May(u)' = Has(u)' \cup Pending(u) \cup Carried(h, u)
           /\ May(u) = Has(u) \cup Pending(u)
<1>1. Carried(handlers[p], u) = {}
  BY CarriedBy DEF At
<1>2. Pending(u)' = Pending(u) \cup Carried(h, u)
  BY <1>1, TurnCarries
<1>3. May(u) = Has(u) \cup Pending(u) /\ May(u)' = Has(u)' \cup Pending(u)'
  BY DEF May, Pending
<1> QED
  BY <1>2, <1>3

(* An idle handler that begins nothing owed and no sign-in.                *)
LEMMA BeginOwes ==
    ASSUME TypeOK, NEW p \in Handlers, NEW h, handlers' = [handlers EXCEPT ![p] = h],
           At(p, "idle"), h.pc \notin {"register_token", "login_open"}
    PROVE  Due' = Due /\ Admitted' = Admitted
BY TurnOwes DEF At

(* A registration enrols.                                                  *)
LEMMA RegisterEnrols ==
    ASSUME RefInv, NEW p \in Handlers, NEW u \in Users, NEW w \in Passwords, Register(p, u, w)
    PROVE  Promise!Next
<1> TypeOK
  BY DEF RefInv, IndInv
<1> DEFINE new == [status |-> "active", password |-> w, verified |-> FALSE]
           h == [pc |-> "register_token", user |-> u]
<1>1. /\ At(p, "idle") /\ ~ Exists(accounts[u]) /\ UNCHANGED <<sessions, tokens>>
      /\ accounts' = [accounts EXCEPT ![u] = new]
      /\ handlers' = [handlers EXCEPT ![p] = h]
  BY DEF Register, Continue
<1>2. h.pc = "register_token" /\ h.user = u
  OBVIOUS
<1>3. Exists(new) /\ Attributes(new) = Promise!Account(w, FALSE)
  BY DEF Exists, Attributes, Promise!Account, Promise!Secret, Promise!Standing,
     Promise!Verified
<1> HIDE DEF new, h
<1>4. \A v \in Users : accounts'[v] = IF v = u THEN new ELSE accounts[v]
  BY <1>1 DEF TypeOK
<1>5. Has(u) = {}
  BY <1>1 DEF Has
<1>6. ASSUME NEW v \in Users
      PROVE  Has(v)' = IF v = u THEN Promise!Account(w, FALSE) ELSE Has(v)
  <2>1. Has(v)' = IF Exists(accounts'[v]) THEN Attributes(accounts'[v]) ELSE {}
    BY DEF Has, Exists, Attributes
  <2> QED
    BY <1>3, <1>4, <2>1 DEF Has
<1>7. ASSUME NEW v \in Users
      PROVE  May(v)' = IF v = u THEN May(v) \cup Promise!Account(w, FALSE) ELSE May(v)
  <2>1. Carried(h, v) = {}
    BY <1>2, CarriedBy
  <2>2. May(v)' = Has(v)' \cup Pending(v) /\ May(v) = Has(v) \cup Pending(v)
    BY <1>1, <2>1, BeginCarries
  <2> QED
    BY <1>5, <1>6, <2>2
<1>8. Promise!Allow(u, Promise!Account(w, FALSE))
  BY <1>7, Allows
<1>9. Due' = Due \cup {u} /\ Admitted' = Admitted
  BY <1>1, <1>2, TurnOwes DEF At
<1>10. UNCHANGED <<Links, Live>>
  BY <1>1 DEF Links, Live
<1>11. Promise!Enrol(u, w)
  BY <1>1, <1>5, <1>6, <1>8, <1>9, <1>10 DEF Promise!Enrol
<1> QED
  BY <1>11 DEF Promise!Next

(* A sign-in that was let through.                                         *)
LEMMA LoginAdmits ==
    ASSUME RefInv, NEW p \in Handlers, NEW u \in Users, NEW w \in Passwords, LoginFind(p, u, w)
    PROVE  Promise!Next
<1> TypeOK
  BY DEF RefInv, IndInv
<1> DEFINE h == [pc |-> "login_open", user |-> u, password |-> w]
<1>1. /\ At(p, "idle") /\ UNCHANGED <<accounts, sessions, tokens>>
      /\ accounts[u].status = "active" /\ accounts[u].password = w
      /\ handlers' = [handlers EXCEPT ![p] = h]
  BY DEF LoginFind, Continue
<1>2. h.pc = "login_open" /\ h.user = u /\ h.password = w
  OBVIOUS
<1> HIDE DEF h
<1>3. {Promise!Secret(w), Promise!Standing("active")} \subseteq Has(u)
  BY <1>1 DEF Has, Exists, Attributes, Promise!Secret, Promise!Standing
<1>4. ASSUME NEW v \in Users
      PROVE  Has(v)' = Has(v) /\ May(v)' = May(v)
  <2>1. Carried(h, v) = {}
    BY <1>2, CarriedBy
  <2>2. Has(v)' = Has(v)
    BY <1>1 DEF Has
  <2>3. May(v)' = Has(v)' \cup Pending(v) /\ May(v) = Has(v) \cup Pending(v)
    BY <1>1, <2>1, BeginCarries
  <2> QED
    BY <2>2, <2>3
<1>5. Due' = Due /\ Admitted' = Admitted \cup {<<u, w>>}
  BY <1>1, <1>2, TurnOwes DEF At
<1>6. UNCHANGED <<Links, Live>>
  BY <1>1 DEF Links, Live
<1>7. Promise!Admit(u, w)
  BY <1>1, <1>3, <1>4, <1>5, <1>6 DEF Promise!Admit
<1> QED
  BY <1>7 DEF Promise!Next

(* The end of a handler that carried nothing.                              *)
LEMMA EndCarries ==
    ASSUME TypeOK, NEW p \in Handlers, handlers' = [handlers EXCEPT ![p] = Idle],
           handlers[p].pc \in {"register_token", "login_open"}, NEW u
    PROVE  Pending(u)' = Pending(u)
<1>1. Carried(handlers[p], u) = {} /\ Carried(Idle, u) = {}
  BY CarriedBy DEF Idle
<1>2. Carried(handlers[p], u) \subseteq Carried(Idle, u)
  BY <1>1
<1>3. Pending(u)' = Pending(u) \cup Carried(Idle, u)
  BY <1>2, TurnCarries
<1> QED
  BY <1>1, <1>3

(* A session opened.                                                       *)
LEMMA LoginOpens ==
    ASSUME RefInv, NEW p \in Handlers, LoginOpen(p)
    PROVE  Promise!Next
<1> TypeOK
  BY DEF RefInv, IndInv
<1> DEFINE u == handlers[p].user
           w == handlers[p].password
           new == [status |-> "live", user |-> u, password |-> w]
<1>1. PICK s \in SessionIds :
         ~ Exists(sessions[s]) /\ sessions' = [sessions EXCEPT ![s] = new]
  BY DEF LoginOpen
<1>2. /\ handlers' = [handlers EXCEPT ![p] = Idle] /\ UNCHANGED <<accounts, tokens>>
      /\ handlers[p].pc = "login_open" /\ handlers[p] \in LoggingIn
  BY PcTypes DEF LoginOpen, Answer, Continue, At
<1>3. u \in Users /\ w \in Passwords /\ <<u, w>> \in Admitted
  BY <1>2 DEF LoggingIn, Admitted, At
<1>4. new.status = "live" /\ new.user = u /\ new.password = w /\ Exists(new)
  BY DEF Exists
<1> HIDE DEF new, u, w
<1>5. \A r \in SessionIds : sessions'[r] = IF r = s THEN new ELSE sessions[r]
  BY <1>1 DEF TypeOK
<1>6. {r \in SessionIds : Exists(sessions'[r])}
         = {r \in SessionIds : Exists(sessions[r])} \cup {s}
  BY <1>4, <1>5
<1>7. Live' = Live \cup {<<s, u, w>>}
  <2>1. sessions[s].status # "live"
    BY <1>1 DEF Exists
  <2>2. Live' = {<<r, sessions'[r].user, sessions'[r].password>> :
                    r \in {k \in SessionIds : sessions'[k].status = "live"}}
    BY DEF Live
  <2> QED
    BY <1>4, <1>5, <2>1, <2>2 DEF Live
<1>8. ASSUME NEW v \in Users
      PROVE  Has(v)' = Has(v) /\ May(v)' = May(v)
  <2>1. Pending(v)' = Pending(v)
    BY <1>2, EndCarries
  <2>2. Has(v)' = Has(v)
    BY <1>2 DEF Has
  <2> QED
    BY <2>1, <2>2 DEF May, Pending
<1>9. \A q \in Handlers : handlers'[q] = IF q = p THEN Idle ELSE handlers[q]
  BY <1>2 DEF TypeOK
<1>10. Due' = Due /\ Admitted' \subseteq Admitted
  <2>1. Due' = {handlers'[q].user : q \in {k \in Handlers : handlers'[k].pc = "register_token"}}
    BY DEF Due, At
  <2>2. Admitted' = {<<handlers'[q].user, handlers'[q].password>> :
                        q \in {k \in Handlers : handlers'[k].pc = "login_open"}}
    BY DEF Admitted, At
  <2>3. Due' = Due
    BY <1>2, <1>9, <2>1 DEF Due, At, Idle
  <2>4. Admitted' \subseteq Admitted
    BY <1>9, <2>2 DEF Admitted, At, Idle
  <2> QED
    BY <2>3, <2>4
<1>11. UNCHANGED <<Links>> /\ UNCHANGED {t \in TokenIds : Exists(tokens[t])}
  BY <1>2 DEF Links
<1>12. Promise!Open(s, u, w)
  BY <1>1, <1>3, <1>6, <1>7, <1>8, <1>10, <1>11 DEF Promise!Open
<1> QED
  BY <1>3, <1>12 DEF Promise!Next

(* A link is mailed, to an account that exists.                            *)
LEMMA IssueMails ==
    ASSUME TypeOK, NEW kind \in {"verify", "reset"}, NEW u \in Users, Exists(accounts[u]),
           IssueToken(kind, u), UNCHANGED <<accounts, sessions>>,
           \A v \in Users : Pending(v)' = Pending(v), Admitted' = Admitted,
           IF kind = "verify" THEN u \in Due /\ Due' = Due \ {u} ELSE UNCHANGED Due
    PROVE  Promise!Next
<1> DEFINE new == [status |-> "fresh", kind |-> kind, user |-> u]
<1>1. PICK t \in TokenIds : ~ Exists(tokens[t]) /\ tokens' = [tokens EXCEPT ![t] = new]
  BY DEF IssueToken
<1>2. new.status = "fresh" /\ new.kind = kind /\ new.user = u /\ Exists(new)
  BY DEF Exists
<1> HIDE DEF new
<1>3. \A r \in TokenIds : tokens'[r] = IF r = t THEN new ELSE tokens[r]
  BY <1>1 DEF TypeOK
<1>4. {r \in TokenIds : Exists(tokens'[r])} = {r \in TokenIds : Exists(tokens[r])} \cup {t}
  BY <1>2, <1>3
<1>5. Links' = Links \cup {<<t, kind, u>>}
  <2>1. tokens[t].status # "fresh"
    BY <1>1 DEF Exists
  <2>2. Links' = {<<r, tokens'[r].kind, tokens'[r].user>> :
                     r \in {k \in TokenIds : tokens'[k].status = "fresh"}}
    BY DEF Links
  <2> QED
    BY <1>2, <1>3, <2>1, <2>2 DEF Links
<1>6. ASSUME NEW v \in Users
      PROVE  Has(v)' = Has(v) /\ May(v)' = May(v)
  <2>1. Has(v)' = Has(v)
    BY DEF Has
  <2> QED
    BY <2>1 DEF May, Pending
<1>7. Has(u) # {}
  BY DEF Has, Attributes
<1>8. UNCHANGED <<Live>> /\ UNCHANGED {s \in SessionIds : Exists(sessions[s])}
  BY DEF Live
<1>9. Promise!Mail(t, kind, u)
  BY <1>1, <1>4, <1>5, <1>6, <1>7, <1>8 DEF Promise!Mail
<1> QED
  BY <1>9 DEF Promise!Next

(* The mails of Register and of ForgotPassword.                            *)
LEMMA MailsLinks ==
    ASSUME RefInv
    PROVE  /\ \A p \in Handlers : RegisterToken(p) => Promise!Next
           /\ \A u \in Users : ForgotPassword(u) => Promise!Next
<1> TypeOK
  BY DEF RefInv, IndInv
<1>1. ASSUME NEW p \in Handlers, RegisterToken(p)
      PROVE  Promise!Next
  <2> DEFINE u == handlers[p].user
  <2>1. /\ handlers[p].pc = "register_token" /\ handlers[p] \in OnAccount
        /\ handlers' = [handlers EXCEPT ![p] = Idle]
    BY <1>1, PcTypes DEF RegisterToken, At, Answer, Continue
  <2>2. u \in Users /\ Exists(accounts[u]) /\ u \in Due
    BY <2>1 DEF OnAccount, RefInv, IndInv, Owned, Due, At
  <2>3. \A q \in Handlers : handlers'[q] = IF q = p THEN Idle ELSE handlers[q]
    BY <2>1 DEF TypeOK
  <2>4. \A v \in Users : Pending(v)' = Pending(v)
    BY <2>1, EndCarries
  <2>5. Admitted' = {<<handlers'[q].user, handlers'[q].password>> :
                        q \in {k \in Handlers : handlers'[k].pc = "login_open"}}
    BY DEF Admitted, At
  <2>6. Admitted' = Admitted
    BY <2>1, <2>3, <2>5 DEF Admitted, At, Idle
  <2>7. Due' = {handlers'[q].user : q \in {k \in Handlers : handlers'[k].pc = "register_token"}}
    BY DEF Due, At
  <2>8. \A q \in Handlers : handlers[q].pc = "register_token" /\ handlers[q].user = u => q = p
    BY <2>1 DEF RefInv, RegisteredOnce, At
  <2>9. Due' = Due \ {u}
    BY <2>3, <2>7, <2>8 DEF Due, At, Idle
  <2> QED
    BY <1>1, <2>2, <2>4, <2>6, <2>9, IssueMails DEF RegisterToken
<1>2. ASSUME NEW u \in Users, ForgotPassword(u)
      PROVE  Promise!Next
  <2>1. /\ Exists(accounts[u]) /\ IssueToken("reset", u)
        /\ UNCHANGED <<accounts, sessions, handlers>>
    BY <1>2 DEF ForgotPassword
  <2>2. UNCHANGED <<Due, Admitted>>
    BY <2>1 DEF Due, Admitted, At
  <2>3. \A v \in Users : Pending(v)' = Pending(v)
    BY <2>1 DEF Pending, Carried
  <2> QED
    BY <2>1, <2>2, <2>3, IssueMails
<1> QED
  BY <1>1, <1>2

(* A link is used.                                                         *)
LEMMA ConsumeUses ==
    ASSUME RefInv, NEW p \in Handlers, NEW t \in TokenIds, NEW kind \in {"verify", "reset"},
           Consume(t, kind), At(p, "idle"), UNCHANGED <<accounts, sessions>>,
           NEW h, handlers' = [handlers EXCEPT ![p] = h],
           h.pc = "verify_find" \/ h.pc = "reset_find", h.user = tokens[t].user,
           NEW what, Carried(h, tokens[t].user) = {what}
    PROVE  tokens[t].user \in Users /\ Promise!Use(t, kind, tokens[t].user, what)
<1> TypeOK
  BY DEF RefInv, IndInv
<1>1. tokens[t].status = "fresh" /\ tokens[t].kind = kind /\ tokens[t] \in Token
  BY SpendMoves DEF Consume
<1> DEFINE u == tokens[t].user
           new == [tokens[t] EXCEPT !.status = "spent"]
<1>2. u \in Users /\ Exists(new) /\ Exists(tokens[t]) /\ new.status = "spent"
  BY <1>1, Spent DEF Token, Exists
<1>3. tokens' = [tokens EXCEPT ![t] = new]
  BY DEF Consume
<1> HIDE DEF new
<1>4. \A r \in TokenIds : tokens'[r] = IF r = t THEN new ELSE tokens[r]
  BY <1>3 DEF TypeOK
<1>5. {r \in TokenIds : Exists(tokens'[r])} = {r \in TokenIds : Exists(tokens[r])}
  BY <1>2, <1>4
<1>6. Links' = Links \ {<<t, kind, u>>} /\ <<t, kind, u>> \in Links
  <2>1. Links' = {<<r, tokens'[r].kind, tokens'[r].user>> :
                     r \in {k \in TokenIds : tokens'[k].status = "fresh"}}
    BY DEF Links
  <2>2. {k \in TokenIds : tokens'[k].status = "fresh"}
           = {k \in TokenIds : tokens[k].status = "fresh"} \ {t}
    BY <1>2, <1>4
  <2>3. \A r \in {k \in TokenIds : tokens'[k].status = "fresh"} : tokens'[r] = tokens[r]
    BY <1>4, <2>2
  <2>4. Links' = Links \ {<<t, kind, u>>}
    BY <1>1, <2>1, <2>2, <2>3 DEF Links
  <2> QED
    BY <1>1, <2>4 DEF Links
<1>7. ASSUME NEW v \in Users
      PROVE  Has(v)' = Has(v) /\ May(v)' = IF v = u THEN May(v) \cup {what} ELSE May(v)
  <2>1. May(v)' = Has(v)' \cup Pending(v) \cup Carried(h, v) /\ May(v) = Has(v) \cup Pending(v)
    BY BeginCarries
  <2>2. Carried(h, v) = IF v = u THEN {what} ELSE {}
    BY CarriedBy
  <2>3. Has(v)' = Has(v)
    BY DEF Has
  <2> QED
    BY <2>1, <2>2, <2>3
<1>8. Promise!Allow(u, {what})
  BY <1>2, <1>7, Allows
<1>9. Due' = Due /\ Admitted' = Admitted
  BY BeginOwes
<1>10. UNCHANGED <<Live>> /\ UNCHANGED {s \in SessionIds : Exists(sessions[s])}
  BY DEF Live
<1>11. Promise!Use(t, kind, u, what)
  BY <1>5, <1>6, <1>7, <1>8, <1>9, <1>10 DEF Promise!Use
<1> QED
  BY <1>2, <1>11

(* The uses by VerifyEmail and ResetPassword.                              *)
LEMMA UsesLinks ==
    ASSUME RefInv, NEW p \in Handlers, NEW t \in TokenIds
    PROVE  /\ VerifyConsume(p, t) => Promise!Next
           /\ \A w \in Passwords : ResetConsume(p, t, w) => Promise!Next
<1>1. ASSUME VerifyConsume(p, t)
      PROVE  Promise!Next
  <2> DEFINE h == [pc |-> "verify_find", user |-> tokens[t].user, token |-> t]
  <2>1. /\ Consume(t, "verify") /\ At(p, "idle") /\ UNCHANGED <<accounts, sessions>>
        /\ handlers' = [handlers EXCEPT ![p] = h]
    BY <1>1 DEF VerifyConsume, Continue
  <2>2. h.pc = "verify_find" /\ h.user = tokens[t].user
    OBVIOUS
  <2> HIDE DEF h
  <2>3. Carried(h, tokens[t].user) = {Promise!Verified(TRUE)}
    BY <2>2, CarriedBy DEF Promise!Verified
  <2>4. /\ tokens[t].user \in Users
        /\ Promise!Use(t, "verify", tokens[t].user, Promise!Verified(TRUE))
    BY <2>1, <2>2, <2>3, ConsumeUses
  <2>5. Promise!Verify(t, tokens[t].user)
    BY <2>4 DEF Promise!Verify
  <2> QED
    BY <2>4, <2>5 DEF Promise!Next
<1>2. ASSUME NEW w \in Passwords, ResetConsume(p, t, w)
      PROVE  Promise!Next
  <2> DEFINE h == [pc |-> "reset_find", user |-> tokens[t].user, token |-> t, password |-> w]
  <2>1. /\ Consume(t, "reset") /\ At(p, "idle") /\ UNCHANGED <<accounts, sessions>>
        /\ handlers' = [handlers EXCEPT ![p] = h]
    BY <1>2 DEF ResetConsume, Continue
  <2>2. h.pc = "reset_find" /\ h.user = tokens[t].user /\ h.password = w
    OBVIOUS
  <2> HIDE DEF h
  <2>3. Carried(h, tokens[t].user) = {Promise!Secret(w)}
    BY <2>2, CarriedBy DEF Promise!Secret
  <2>4. /\ tokens[t].user \in Users
        /\ Promise!Use(t, "reset", tokens[t].user, Promise!Secret(w))
    BY <2>1, <2>2, <2>3, ConsumeUses
  <2>5. Promise!Reset(t, tokens[t].user, w)
    BY <2>4 DEF Promise!Reset
  <2> QED
    BY <2>4, <2>5 DEF Promise!Next
<1> QED
  BY <1>1, <1>2

(* An administrator's status change, which comes to nothing when it        *)
(* restricts an administrator.                                             *)
LEMMA AdminDecrees ==
    ASSUME RefInv, NEW p \in Handlers, NEW a \in Admins, NEW u \in Users,
           NEW status \in Restrictions \cup {"active"}, AdminCall(p, a, u, status)
    PROVE  Promise!Next
<1> TypeOK
  BY DEF RefInv, IndInv
<1> DEFINE h == [pc |-> "admin_find", user |-> u, status |-> status]
<1>1. /\ At(p, "idle") /\ SignedIn(a) /\ UNCHANGED <<accounts, sessions, tokens>>
      /\ handlers' = [handlers EXCEPT ![p] = h]
  BY DEF AdminCall, Continue
<1>2. h.pc = "admin_find" /\ h.user = u /\ h.status = status
  OBVIOUS
<1> HIDE DEF h
<1>3. a \in Users
  BY RolesAndStatuses
<1>4. Promise!Standing("active") \in Has(a)
  BY <1>1 DEF SignedIn, Has, Exists, Attributes, Promise!Standing
<1>5. \E s \in SessionIds, w \in Passwords : <<s, a, w>> \in Live
  <2>1. PICK s \in SessionIds : sessions[s].status = "live" /\ sessions[s].user = a
    BY <1>1 DEF SignedIn
  <2>2. sessions[s] \in Session
    BY <2>1, RowTypes DEF Exists
  <2>3. sessions[s].password \in Passwords /\ <<s, a, sessions[s].password>> \in Live
    BY <2>1, <2>2 DEF Session, Live
  <2> QED
    BY <2>3
<1>6. ASSUME NEW v \in Users
      PROVE  Has(v)' = Has(v) /\ May(v)' = May(v) \cup Carried(h, v)
  <2>1. May(v)' = Has(v)' \cup Pending(v) \cup Carried(h, v) /\ May(v) = Has(v) \cup Pending(v)
    BY <1>1, BeginCarries
  <2>2. Has(v)' = Has(v)
    BY <1>1 DEF Has
  <2> QED
    BY <2>1, <2>2
<1>7. Due' = Due /\ Admitted' = Admitted
  BY <1>1, <1>2, BeginOwes
<1>8. UNCHANGED <<Links, Live>>
  BY <1>1 DEF Links, Live
<1>9. CASE u \in Admins => status = "active"
  <2>1. \A v \in Users : Carried(h, v) = IF v = u THEN {Promise!Standing(status)} ELSE {}
    BY <1>2, <1>9, CarriedBy DEF Promise!Standing
  <2>2. \A v \in Users :
           May(v)' = IF v = u THEN May(v) \cup {Promise!Standing(status)} ELSE May(v)
    BY <1>6, <2>1
  <2>3. Promise!Allow(u, {Promise!Standing(status)})
    BY <2>2, Allows
  <2>4. Promise!Decree(a, u, status)
    BY <1>1, <1>3, <1>4, <1>5, <1>6, <1>7, <1>8, <1>9, <2>3 DEF Promise!Decree
  <2> QED
    BY <2>4 DEF Promise!Next
<1>10. CASE ~ (u \in Admins => status = "active")
  <2>1. \A v \in Users : Carried(h, v) = {}
    BY <1>2, <1>10, CarriedBy
  <2>2. \A v \in Users : Has(v)' = Has(v) /\ May(v)' = May(v)
    BY <1>6, <2>1
  <2>3. \A v \in Users : Has(v) \subseteq May(v)
    BY DEF May
  <2>4. Promise!Settle
    BY <1>1, <1>7, <1>8, <2>2, <2>3 DEF Promise!Settle
  <2> QED
    BY <2>4 DEF Promise!Next
<1> QED
  BY <1>9, <1>10

(* Every step of the handlers is a step of AccountAccess.                  *)
LEMMA PromiseStep == RefInv /\ [Next]_vars => Promise!Next
<1> SUFFICES ASSUME RefInv, [Next]_vars
             PROVE  Promise!Next
  OBVIOUS
<1>1. Quiet => Promise!Next
  BY StepForms, QuietSettles DEF RefInv, Promise!Next
<1>2. ASSUME NEW p \in Handlers, Proceed(p)
      PROVE  Promise!Next
  BY <1>1, <1>2, ProceedQuiet, MailsLinks, LoginOpens DEF Proceed
<1>3. CASE UNCHANGED vars
  BY <1>1, <1>3, OtherQuiet
<1> QED
  BY <1>1, <1>2, <1>3, ProceedQuiet, OtherQuiet, MailsLinks, UsesLinks, RegisterEnrols,
     LoginAdmits, AdminDecrees DEF Next

(* Every step of the handlers is one of AccountAccess: whatever whole rows *)
(* are written back from copies, and whatever statement fails, an account  *)
(* becomes only what its registration, a mailed link or an administrator   *)
(* said.                                                                   *)
THEOREM ImplementsAccountAccess == Spec => KeepsPromise
<1>1. Init => Promise!Init
  <2> SUFFICES ASSUME Init
               PROVE  Promise!Init
    OBVIOUS
  <2>1. PICK w \in [Admins -> Passwords] :
           accounts = [u \in Users |->
              IF u \in Admins
              THEN [status |-> "active", password |-> w[u], verified |-> TRUE]
              ELSE Absent]
    BY DEF Init
  <2>2. ASSUME NEW u \in Users
        PROVE  Has(u) = IF u \in Admins THEN Promise!Account(w[u], TRUE) ELSE {}
    <3> DEFINE row == [status |-> "active", password |-> w[u], verified |-> TRUE]
    <3>1. Exists(row) /\ ~ Exists(Absent) /\ Attributes(row) = Promise!Account(w[u], TRUE)
      BY DEF Exists, Absent, Attributes, Promise!Account, Promise!Secret, Promise!Standing,
         Promise!Verified
    <3>2. accounts[u] = IF u \in Admins THEN row ELSE Absent
      BY <2>1
    <3> HIDE DEF row
    <3> QED
      BY <3>1, <3>2 DEF Has
  <2>3. ASSUME NEW u \in Users
        PROVE  May(u) = Has(u)
    <3>1. \A p \in Handlers : Carried(handlers[p], u) = {}
      BY CarriedBy DEF Init, Idle
    <3> QED
      BY <3>1 DEF May
  <2>4. /\ Due = {} /\ Links = {} /\ Admitted = {} /\ Live = {}
        /\ {t \in TokenIds : Exists(tokens[t])} = {}
        /\ {s \in SessionIds : Exists(sessions[s])} = {}
    BY DEF Init, Due, Links, Admitted, Live, At, Idle, Absent, Exists
  <2> QED
    BY <2>2, <2>3, <2>4 DEF Promise!Init
<1>2. RefInv /\ [Next]_vars => [Promise!Next]_(Promise!vars)
  BY PromiseStep
<1> QED
  BY <1>1, <1>2, RefInductive, PTL DEF Spec, KeepsPromise, Promise!Spec

-----------------------------------------------------------------------------
(* Administrators.                                                         *)

(* No administrator is shut out, and no copy of one's row says so.         *)
AdminsActive ==
    /\ \A a \in Admins : accounts[a].status = "active"
    /\ \A p \in Handlers :
          WritesRow(p) /\ handlers[p].user \in Admins => handlers[p].row.status = "active"

(* AdminSetUserStatus refuses to restrict an administrator from what it    *)
(* read, and no row that is written back says otherwise: the accounts with *)
(* the role are active for ever.                                           *)
THEOREM AdminsStayActive == Spec => []AdminsActive
<1>1. Init => AdminsActive
  <2> SUFFICES ASSUME Init
               PROVE  AdminsActive
    OBVIOUS
  <2>1. \A a \in Admins : accounts[a].status = "active"
    BY RolesAndStatuses DEF Init
  <2>2. \A p \in Handlers : ~ WritesRow(p)
    BY DEF Init, WritesRow, Idle
  <2> QED
    BY <2>1, <2>2 DEF AdminsActive
<1>2. RefInv /\ AdminsActive /\ [Next]_vars => AdminsActive'
  <2> SUFFICES ASSUME RefInv, AdminsActive, [Next]_vars
               PROVE  AdminsActive'
    OBVIOUS
  <2>1. IndInv /\ Forms
    BY StepForms DEF RefInv
  <2>2. ASSUME NEW a \in Admins
        PROVE  accounts'[a].status = "active"
    <3>1. a \in Users /\ Exists(accounts[a]) /\ accounts[a].status = "active"
      BY RolesAndStatuses DEF AdminsActive, Exists
    <3>2. \/ accounts'[a].status = accounts[a].status
          \/ \E p \in Handlers : /\ WritesRow(p) \/ At(p, "admin_write")
                                 /\ handlers[p].user = a
                                 /\ WritesRow(p) => handlers[p].row.status = accounts'[a].status
                                 /\ At(p, "admin_write") =>
                                       handlers[p].status = accounts'[a].status
      BY <2>1, <3>1, RowStays
    <3> QED
      BY <3>1, <3>2 DEF AdminsActive, RefInv, AdminsSpared
  <2>3. ASSUME NEW p \in Handlers, WritesRow(p)', handlers'[p].user \in Admins
        PROVE  handlers'[p].row.status = "active"
    <3>1. handlers'[p].pc \in {"profile_write", "verify_write", "reset_write"}
      BY <2>3 DEF WritesRow
    <3>2. CASE handlers'[p] = handlers[p]
      BY <2>3, <3>1, <3>2 DEF AdminsActive, WritesRow
    <3>3. CASE Becomes(p, handlers'[p])
      BY <2>3, <3>1, <3>3 DEF Becomes, AdminsActive, Idle
    <3> QED
      BY <2>1, <3>2, <3>3, NewHolder
  <2> QED
    BY <2>2, <2>3 DEF AdminsActive
<1> QED
  BY <1>1, <1>2, RefInductive, PTL DEF Spec

-----------------------------------------------------------------------------
(* What follows from AccountAccess.                                        *)

Linked(u) == {t \in TokenIds : <<t, "verify", u>> \in Links}

VerifiedOrBound(u) == <<"verified", TRUE>> \in May(u)

(* An account has at most one way to its verification: the link is yet to  *)
(* be mailed, or it works, or it was used.                                 *)
OneWay(u) ==
    /\ Has(u) = {} => u \notin Due /\ Linked(u) = {} /\ ~ VerifiedOrBound(u)
    /\ u \in Due => Linked(u) = {}
    /\ VerifiedOrBound(u) => u \notin Due /\ Linked(u) = {}
    /\ \A t, k \in Linked(u) : t = k

OneWayEach == \A u \in Users : OneWay(u)

(* An account gets no second way by a step that gives it none.             *)
LEMMA WaysLeft ==
    ASSUME NEW u \in Users, OneWay(u), Has(u)' = {} => Has(u) = {},
           VerifiedOrBound(u)' => VerifiedOrBound(u), u \in Due' => u \in Due,
           Linked(u)' \subseteq Linked(u)
    PROVE  OneWay(u)'
BY DEF OneWay

(* What a set of attributes says of the verification.                      *)
LEMMA OtherAttributes ==
    ASSUME NEW w, NEW status
    PROVE  /\ <<"verified", TRUE>> \notin Promise!Account(w, FALSE)
           /\ <<"verified", TRUE>> # Promise!Secret(w)
           /\ <<"verified", TRUE>> # Promise!Standing(status)
BY DEF Promise!Account, Promise!Secret, Promise!Standing, Promise!Verified

(* Something that is allowed of one account is allowed of no other.        *)
LEMMA AllowMoves ==
    ASSUME NEW u \in Users, NEW what, Promise!Allow(u, what)
    PROVE  \A v \in Users : May(v)' = IF v = u THEN May(v) \cup what ELSE May(v)
<1> DEFINE f == [v \in Users |-> May(v)]
           g == [v \in Users |-> May(v)']
<1>1. g = [f EXCEPT ![u] = @ \cup what]
  BY DEF Promise!Allow
<1>2. \A v \in Users : g[v] = IF v = u THEN f[v] \cup what ELSE f[v]
  BY <1>1
<1> QED
  BY <1>2

(* A step that allows nothing, mails nothing and enrols nobody.            *)
LEMMA PlainStep ==
    ASSUME OneWayEach,
           \/ Promise!Settle
           \/ \E u \in Users, w \in Passwords : Promise!Admit(u, w)
           \/ \E s \in SessionIds, u \in Users, w \in Passwords : Promise!Open(s, u, w)
    PROVE  OneWayEach'
<1> SUFFICES ASSUME NEW v \in Users
             PROVE  OneWay(v)'
  BY DEF OneWayEach
<1>1. Links' \subseteq Links /\ Due' \subseteq Due
  BY DEF Promise!Settle, Promise!Admit, Promise!Open
<1>2. (Has(v)' = {} => Has(v) = {}) /\ May(v)' \subseteq May(v)
  <2>1. CASE Promise!Settle
    BY <2>1 DEF Promise!Settle
  <2>2. CASE ~ Promise!Settle
    <3> DEFINE F == [u \in Users |-> Has(u)]
               G == [u \in Users |-> Has(u)']
               M == [u \in Users |-> May(u)]
               N == [u \in Users |-> May(u)']
    <3>1. F = G /\ M = N
      BY <2>2 DEF Promise!Admit, Promise!Open
    <3>2. F[v] = G[v] /\ M[v] = N[v]
      BY <3>1
    <3> QED
      BY <3>2
  <2> QED
    BY <2>1, <2>2
<1>3. Linked(v)' \subseteq Linked(v)
  BY <1>1 DEF Linked
<1>4. VerifiedOrBound(v)' => VerifiedOrBound(v)
  BY <1>2 DEF VerifiedOrBound
<1> QED
  BY <1>1, <1>2, <1>3, <1>4, WaysLeft DEF OneWayEach

(* What stays equal of the accounts stays equal of each.                   *)
LEMMA AccountsSame ==
    ASSUME [u \in Users |-> Has(u)]' = [u \in Users |-> Has(u)], NEW v \in Users
    PROVE  Has(v)' = Has(v)
<1> DEFINE F == [u \in Users |-> Has(u)]
           G == [u \in Users |-> Has(u)']
<1>1. F[v] = G[v]
  OBVIOUS
<1> QED
  BY <1>1

(* A registration opens the first way, of an account that had none.        *)
LEMMA EnrolStep ==
    ASSUME OneWayEach, NEW u \in Users, NEW w \in Passwords, Promise!Enrol(u, w)
    PROVE  OneWayEach'
<1> DEFINE what == Promise!Account(w, FALSE)
           F == [v \in Users |-> Has(v)]
           G == [v \in Users |-> Has(v)']
<1>1. /\ Has(u) = {} /\ Promise!Allow(u, what)
      /\ Due' = Due \cup {u} /\ Links' = Links
      /\ G = [F EXCEPT ![u] = what]
  BY DEF Promise!Enrol
<1>2. \A v \in Users : G[v] = IF v = u THEN what ELSE F[v]
  BY <1>1
<1>3. \A v \in Users : Has(v)' = IF v = u THEN what ELSE Has(v)
  BY <1>2
<1>4. what # {} /\ <<"verified", TRUE>> \notin what
  BY OtherAttributes DEF Promise!Account
<1> HIDE DEF what, F, G
<1>5. \A v \in Users : May(v)' = IF v = u THEN May(v) \cup what ELSE May(v)
  BY <1>1, AllowMoves
<1>6. \A v \in Users : Linked(v)' = Linked(v) /\ (VerifiedOrBound(v)' <=> VerifiedOrBound(v))
  BY <1>1, <1>4, <1>5 DEF Linked, VerifiedOrBound
<1>7. OneWay(u)'
  BY <1>1, <1>3, <1>4, <1>6 DEF OneWayEach, OneWay
<1>8. ASSUME NEW v \in Users \ {u}
      PROVE  OneWay(v)'
  BY <1>1, <1>3, <1>6, WaysLeft DEF OneWayEach
<1> QED
  BY <1>7, <1>8 DEF OneWayEach

(* A mail turns the way that is owed into the link.                        *)
LEMMA MailStep ==
    ASSUME OneWayEach, NEW t \in TokenIds, NEW kind \in {"verify", "reset"}, NEW u \in Users,
           Promise!Mail(t, kind, u)
    PROVE  OneWayEach'
<1> DEFINE M == [v \in Users |-> May(v)]
           N == [v \in Users |-> May(v)']
<1>1. /\ Links' = Links \cup {<<t, kind, u>>}
      /\ IF kind = "verify" THEN u \in Due /\ Due' = Due \ {u} ELSE Due' = Due
      /\ [v \in Users |-> Has(v)]' = [v \in Users |-> Has(v)] /\ N = M
  BY DEF Promise!Mail
<1>2. \A v \in Users : N[v] = M[v]
  BY <1>1
<1>3. \A v \in Users : May(v)' = May(v)
  BY <1>2
<1> HIDE DEF M, N
<1>4. \A v \in Users : Has(v)' = Has(v) /\ (VerifiedOrBound(v)' <=> VerifiedOrBound(v))
  BY <1>1, <1>3, AccountsSame DEF VerifiedOrBound
<1>5. ASSUME NEW v \in Users, v # u \/ kind # "verify"
      PROVE  OneWay(v)'
  <2>1. Linked(v)' \subseteq Linked(v)
    BY <1>1, <1>5 DEF Linked
  <2> QED
    BY <1>1, <1>4, <2>1, WaysLeft DEF OneWayEach
<1>6. CASE kind = "verify"
  <2>1. OneWay(u) /\ u \in Due /\ u \notin Due'
    BY <1>1, <1>6 DEF OneWayEach
  <2>2. Linked(u) = {} /\ ~ VerifiedOrBound(u) /\ Has(u) # {}
    BY <2>1 DEF OneWay
  <2>3. Linked(u)' \subseteq {t}
    <3>1. \A k \in TokenIds : <<k, "verify", u>> \notin Links
      BY <2>2 DEF Linked
    <3> QED
      BY <1>1, <1>6, <3>1 DEF Linked
  <2>4. OneWay(u)'
    BY <1>4, <2>1, <2>2, <2>3 DEF OneWay
  <2> QED
    BY <1>5, <2>4 DEF OneWayEach
<1> QED
  BY <1>5, <1>6 DEF OneWayEach

(* The use of the link is the end of it.                                   *)
LEMMA UseStep ==
    ASSUME OneWayEach, NEW t \in TokenIds, NEW kind, NEW u \in Users, NEW what,
           Promise!Use(t, kind, u, what),
           what = <<"verified", TRUE>> => kind = "verify"
    PROVE  OneWayEach'
<1>1. /\ <<t, kind, u>> \in Links /\ Links' = Links \ {<<t, kind, u>>} /\ Due' = Due
      /\ [v \in Users |-> Has(v)]' = [v \in Users |-> Has(v)] /\ Promise!Allow(u, {what})
  BY DEF Promise!Use
<1>2. \A v \in Users : Has(v)' = Has(v)
  BY <1>1, AccountsSame
<1>3. \A v \in Users : May(v)' = IF v = u THEN May(v) \cup {what} ELSE May(v)
  BY <1>1, AllowMoves
<1>4. \A v \in Users : Linked(v)' \subseteq Linked(v)
  BY <1>1 DEF Linked
<1>5. ASSUME NEW v \in Users, v # u \/ what # <<"verified", TRUE>>
      PROVE  OneWay(v)'
  <2>1. VerifiedOrBound(v)' => VerifiedOrBound(v)
    BY <1>3, <1>5 DEF VerifiedOrBound
  <2> QED
    BY <1>1, <1>2, <1>4, <2>1, WaysLeft DEF OneWayEach
<1>6. CASE what = <<"verified", TRUE>>
  <2>1. OneWay(u) /\ t \in Linked(u)
    BY <1>1, <1>6 DEF OneWayEach, Linked
  <2>2. u \notin Due /\ Linked(u) = {t} /\ Has(u) # {}
    BY <2>1 DEF OneWay
  <2>3. Linked(u)' = {}
    BY <1>1, <1>4, <1>6, <2>2 DEF Linked
  <2>4. OneWay(u)'
    BY <1>1, <1>2, <2>2, <2>3 DEF OneWay
  <2> QED
    BY <1>5, <2>4 DEF OneWayEach
<1> QED
  BY <1>5, <1>6 DEF OneWayEach

(* A status change is no verification.                                     *)
LEMMA DecreeStep ==
    ASSUME OneWayEach, NEW a, NEW u \in Users, NEW status, Promise!Decree(a, u, status)
    PROVE  OneWayEach'
<1>1. /\ Links' = Links /\ Due' = Due
      /\ [v \in Users |-> Has(v)]' = [v \in Users |-> Has(v)]
      /\ Promise!Allow(u, {Promise!Standing(status)})
  BY DEF Promise!Decree
<1>2. \A v \in Users : Has(v)' = Has(v)
  BY <1>1, AccountsSame
<1>3. \A v \in Users :
         May(v)' = IF v = u THEN May(v) \cup {Promise!Standing(status)} ELSE May(v)
  BY <1>1, AllowMoves
<1>4. \A v \in Users : Linked(v)' = Linked(v) /\ (VerifiedOrBound(v)' <=> VerifiedOrBound(v))
  BY <1>1, <1>3, OtherAttributes DEF Linked, VerifiedOrBound
<1> QED
  BY <1>1, <1>2, <1>4, WaysLeft DEF OneWayEach

(* An account is verified by the one link its registration is owed: at no  *)
(* time has it two links, or a link beside a mail still to come, or either *)
(* once it is verified or a use of the link is under way.  So once         *)
(* VerifyEmail has consumed a link of an account, there is no other one.   *)
THEOREM OneVerification == Spec => []OneWayEach
<1>1. Init => OneWayEach
  <2> SUFFICES ASSUME Init, NEW u \in Users
               PROVE  OneWay(u)
    BY DEF OneWayEach
  <2>1. Due = {} /\ Linked(u) = {}
    BY DEF Init, Due, Links, Linked, At, Idle, Absent
  <2>2. May(u) = Has(u)
    <3>1. \A p \in Handlers : Carried(handlers[p], u) = {}
      BY CarriedBy DEF Init, Idle
    <3> QED
      BY <3>1 DEF May
  <2> QED
    BY <2>1, <2>2 DEF OneWay, VerifiedOrBound
<1>2. RefInv /\ OneWayEach /\ [Next]_vars => OneWayEach'
  <2> SUFFICES ASSUME RefInv, OneWayEach, [Next]_vars
               PROVE  OneWayEach'
    OBVIOUS
  <2>1. Promise!Next
    BY PromiseStep
  <2>2. ASSUME NEW t \in TokenIds, NEW u \in Users, Promise!Verify(t, u)
        PROVE  OneWayEach'
    BY <2>2, UseStep DEF Promise!Verify
  <2>3. ASSUME NEW t \in TokenIds, NEW u \in Users, NEW w \in Passwords, Promise!Reset(t, u, w)
        PROVE  OneWayEach'
    BY <2>3, UseStep, OtherAttributes DEF Promise!Reset
  <2> QED
    BY <2>1, <2>2, <2>3, PlainStep, EnrolStep, MailStep, DecreeStep DEF Promise!Next
<1> QED
  BY <1>1, <1>2, RefInductive, PTL DEF Spec

=============================================================================
