------------------------------ MODULE ServerProcess ------------------------------
(***************************************************************************)
(* One API process and the browsers in front of it: the start of           *)
(* ProcessBoot, the middleware chain every request goes through            *)
(* (SessionAuth, CSRF, the RateLimiter of sensitive routes, RequireAuth),  *)
(* and the end of the process, with which its limiters are gone.           *)
(*                                                                         *)
(* A browser is its two cookies.  The session cookie is set by login and   *)
(* outlives the browser's windows; the CSRF cookie is set by SessionAuth   *)
(* and does not.  The web client echoes the CSRF cookie it has in the      *)
(* header of every mutating request, so all that CSRF can find amiss is    *)
(* that there is none, and its value is left out.                          *)
(*                                                                         *)
(* A browser may have several requests under way.  Each carries the        *)
(* cookies of the moment it was sent, and its answer sets cookies when it  *)
(* is received, which may be after later requests were served, or never.   *)
(* A 401, and a request that fails in its handler, change nothing that     *)
(* losing the request does not, and have no action of their own.           *)
(*                                                                         *)
(* Abstracted: what the handlers do to the tables of their contexts, and   *)
(* who a session belongs to.  A session whose user is restricted counts as *)
(* ended, as it does for SessionAuth.                                      *)
(***************************************************************************)
EXTENDS ProcessBoot, RateLimiter

CONSTANTS
    Browsers,
    SessionIds,     \* bounds the sessions ever opened
    Requests        \* bounds the requests under way at a time

VARIABLES
    sessions,       \* table sessions
    cookies,        \* the two cookies in each browser
    sent,           \* requests on their way to the process, or in it
    answers,        \* responses on their way to a browser
    signedIn,       \* history: browsers that ever received a session
    told,           \* history: browsers that received a 403 for want of the CSRF
                    \* cookie on a live session, since their windows were opened
    strayed         \* history: <<browser, public route>>, got through to before
                    \* the browser had ever signed in

wireVars == <<sent, answers>>

historyVars == <<signedIn, told, strayed>>

gateVars == <<sessions, cookies, wireVars, historyVars>>

vars == <<bootVars, limiterVars, gateVars>>

-----------------------------------------------------------------------------
(* Routes: a GET of any of them, and the mutating ones.                    *)

Opening == {"login"}                    \* register and google are like it
Public  == {"reset", "report"}          \* forgot, reset, verify; field reports
Guarded == {"logout", "edit"}           \* behind RequireAuth
Limited == {"login", "reset"}           \* behind the limiter of /auth

Routes == {"get"} \cup Opening \cup Public \cup Guarded

NoCookie == "none"
Kept     == "kept"      \* an answer that leaves the session cookie alone

Cookies == [session: SessionIds \cup {NoCookie}, csrf: BOOLEAN]

(* The cookies it carries, and whether its browser had been told before.   *)
Sent == [id: Requests, browser: Browsers, session: SessionIds \cup {NoCookie},
         csrf: BOOLEAN, told: BOOLEAN]

(* The cookies it sets, and whether it is a 403 on a live session.         *)
Answers == [id: Requests, browser: Browsers, session: SessionIds \cup {NoCookie, Kept},
            csrf: BOOLEAN, refused: BOOLEAN]

TypeOK ==
    /\ BootTypeOK /\ LimiterTypeOK
    /\ sessions \in [SessionIds -> {"unused", "live", "ended"}]
    /\ cookies \in [Browsers -> Cookies]
    /\ sent \subseteq Sent
    /\ answers \subseteq Answers
    /\ signedIn \subseteq Browsers
    /\ told \subseteq Browsers
    /\ strayed \subseteq Browsers \X Public

Init ==
    /\ BootInit /\ LimiterInit
    /\ sessions = [s \in SessionIds |-> "unused"]
    /\ cookies = [b \in Browsers |-> [session |-> NoCookie, csrf |-> FALSE]]
    /\ sent = {} /\ answers = {}
    /\ signedIn = {} /\ told = {} /\ strayed = {}

-----------------------------------------------------------------------------
(* The browser's side.                                                     *)

Send(q, b) ==
    /\ Up
    /\ \A m \in sent \cup answers : m.id # q
    /\ sent' = sent \cup {[id |-> q, browser |-> b, session |-> cookies[b].session,
                           csrf |-> cookies[b].csrf, told |-> b \in told]}
    /\ UNCHANGED <<bootVars, limiterVars, sessions, cookies, answers, historyVars>>

Receive(a) ==
    /\ answers' = answers \ {a}
    /\ cookies' = [cookies EXCEPT ![a.browser] =
           [session |-> IF a.session = Kept THEN cookies[a.browser].session ELSE a.session,
            csrf |-> cookies[a.browser].csrf \/ a.csrf]]
    /\ signedIn' = signedIn \cup {b \in {a.browser} : a.session \in SessionIds}
    /\ told' = told \cup {b \in {a.browser} : a.refused}
    /\ UNCHANGED <<bootVars, limiterVars, sessions, sent, strayed>>

Lose(m) ==
    /\ sent' = sent \ {m}
    /\ answers' = answers \ {m}
    /\ UNCHANGED <<bootVars, limiterVars, sessions, cookies, historyVars>>

(* Nobody is left to receive an answer; a request that is served all the   *)
(* same could as well have been served before, and its answer lost.        *)
CloseBrowser(b) ==
    /\ cookies' = [cookies EXCEPT ![b] = [session |-> cookies[b].session, csrf |-> FALSE]]
    /\ sent' = {m \in sent : m.browser # b}
    /\ answers' = {a \in answers : a.browser # b}
    /\ told' = told \ {b}
    /\ UNCHANGED <<bootVars, limiterVars, sessions, signedIn, strayed>>

-----------------------------------------------------------------------------
(* SessionAuth and CSRF.                                                   *)

SessionLive(m) == m.session # NoCookie /\ sessions[m.session] = "live"

(* A lookup that fails is logged, and the request goes on as a visitor's.  *)
Lookup(m) == {SessionLive(m), FALSE}

(* Mutant of SetsCookie: an existing CSRF cookie is all that is renewed.   *)
SetsCookieAgain(m, known) == known /\ m.csrf

(* Whether the answer will bring the CSRF cookie: it is set before the     *)
(* request goes on to the CSRF check, for requests that fail it too.       *)
SetsCookie(m, known) == known

(* CSRF, skipped for GET and for the routes that open a session.           *)
Passes(m, r) == r \in Opening \cup {"get"} \/ m.csrf

(* An answer that sets no cookie leaves its browser as it is.              *)
Answer(m, known, session, refused) ==
    /\ sent' = sent \ {m}
    /\ answers' = answers \cup
           {a \in {[id |-> m.id, browser |-> m.browser, session |-> session,
                    csrf |-> SetsCookie(m, known), refused |-> refused]} :
                known \/ session # Kept}

-----------------------------------------------------------------------------
(* Requests.                                                               *)

(* 403, before limiter and guard.                                          *)
Forbid(m, r) ==
    /\ Up
    /\ ~ Passes(m, r)
    /\ \E known \in Lookup(m) : Answer(m, known, Kept, known)
    /\ UNCHANGED <<bootVars, limiterVars, sessions, cookies, historyVars>>

(* 429.                                                                    *)
Throttle(m, r, a) ==
    /\ Up
    /\ Passes(m, r) /\ r \in Limited
    /\ Refuse(a)
    /\ \E known \in Lookup(m) : Answer(m, known, Kept, FALSE)
    /\ UNCHANGED <<bootVars, sessions, cookies, historyVars>>

(* A request that reaches its handler.                                     *)
Reach(m, r, a, known) ==
    /\ Up
    /\ Passes(m, r)
    /\ r \in Guarded => known
    /\ IF r \in Limited THEN Allow(a) ELSE UNCHANGED limiterVars
    /\ UNCHANGED <<bootVars, cookies, signedIn, told>>

Login(m, a) ==
    \E known \in Lookup(m), s \in SessionIds :
        /\ Reach(m, "login", a, known)
        /\ sessions[s] = "unused"
        /\ sessions' = [sessions EXCEPT ![s] = "live"]
        /\ Answer(m, known, s, FALSE)
        /\ UNCHANGED strayed

(* The session cookie goes even if the revocation failed, for its error is *)
(* dropped; the CSRF cookie stays behind.                                  *)
Logout(m, a) ==
    /\ Reach(m, "logout", a, SessionLive(m))
    /\ sessions' \in {sessions, [sessions EXCEPT ![m.session] = "ended"]}
    /\ Answer(m, TRUE, NoCookie, FALSE)
    /\ UNCHANGED strayed

(* Any other route, a login with a wrong password among them.              *)
Handle(m, r, a) ==
    \E known \in Lookup(m) :
        /\ Reach(m, r, a, known)
        /\ Answer(m, known, Kept, FALSE)
        /\ strayed' = strayed \cup (({m.browser} \ signedIn) \X ({r} \cap Public))
        /\ UNCHANGED sessions

-----------------------------------------------------------------------------
(* Everything else.                                                        *)

(* Expiry, revocation elsewhere, or a restriction of the user.             *)
SessionEnds(s) ==
    /\ sessions[s] = "live"
    /\ sessions' = [sessions EXCEPT ![s] = "ended"]
    /\ UNCHANGED <<bootVars, limiterVars, cookies, wireVars, historyVars>>

Boot == BootStep /\ UNCHANGED <<limiterVars, gateVars>>

Time == (Tick \/ Sweep) /\ Up /\ UNCHANGED <<bootVars, gateVars>>

(* Limiters are memory of the process, and its connections go with it;     *)
(* sessions and cookies do not, nor do answers already written.            *)
End ==
    /\ Die /\ ForgetAll
    /\ sent' = {}
    /\ UNCHANGED <<sessions, cookies, answers, historyVars>>

Serve(m) ==
    \/ \E r \in Routes : Forbid(m, r)
    \/ \E r \in Limited, a \in Addresses : Throttle(m, r, a)
    \/ \E a \in Addresses : Login(m, a) \/ Logout(m, a)
    \/ \E r \in Routes \ {"logout"}, a \in Addresses : Handle(m, r, a)

Next ==
    \/ Boot \/ Time \/ End
    \/ \E b \in Browsers : CloseBrowser(b) \/ \E q \in Requests : Send(q, b)
    \/ \E m \in sent : Serve(m)
    \/ \E a \in answers : Receive(a)
    \/ \E m \in sent \cup answers : Lose(m)
    \/ \E s \in SessionIds : SessionEnds(s)

Spec == Init /\ [][Next]_vars

-----------------------------------------------------------------------------
(* Properties.                                                             *)

(* A signed-in browser that lost its CSRF cookie has only to try again: the*)
(* refusal of a live session itself brings the cookie (SessionAuth runs    *)
(* before CSRF, and sets it for refused requests too), so nothing that is  *)
(* sent once such a refusal was received is refused for want of it, however*)
(* the answers to requests sent together are ordered or lost.  A refusal   *)
(* whose lookup failed brings nothing, and does not count; requests sent   *)
(* before the refusal arrived may still be refused as well.                *)
RefusedOnceTold == [][\A m \in sent, r \in Routes : Forbid(m, r) => ~ m.told]_vars

(* Service.Create: filing a report is a "public endpoint - any visitor"    *)
(* (moderation service.go:76).  A visitor is a request without a session.  *)
AnyVisitorMayReport ==
    [][\A m \in sent : m.session = NoCookie => ~ Forbid(m, "report")]_vars

(* A browser that never received a session reaches no mutating route but   *)
(* those that open one: reports, password reset and e-mail verification    *)
(* work only where somebody had signed in before.                          *)
VisitorsOnlySignIn == strayed = {}

=============================================================================
