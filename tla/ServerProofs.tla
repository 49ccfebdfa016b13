------------------------------ MODULE ServerProofs ------------------------------
(***************************************************************************)
(* Proofs about ProcessBoot, and about ServerProcess as the composition of *)
(* ProcessBoot and RateLimiter: each of its steps is a step or a stutter of*)
(* either part, so what is proved of the parts holds of the whole.         *)
(***************************************************************************)
EXTENDS ServerProcess, RateLimiterProofs

-----------------------------------------------------------------------------
(* The start.                                                              *)

Versioned == Schema \cup Seed

(* Every start applies versions from below, so the table has no hole.      *)
NoHoles == \A v \in applied, u \in Versioned : u < v => u \in applied

(* What is planned and what is applied make up the directory.              *)
PlanComplete ==
    phase = "applying" =>
        plan \subseteq Versions(dir) /\ Versions(dir) \subseteq plan \cup applied

SchemaFirst == dir = "seed" => Schema \subseteq applied

(* A start that has read its settings has them.                            *)
Configured == phase \notin {"down", "refused"} => config \in Config

(* From the wiring on, every migration is applied.                         *)
WiredOverAll == phase \in {"wiring", "serving", "draining"} => applied = Versioned

BootInv ==
    /\ BootTypeOK
    /\ NoHoles /\ PlanComplete /\ SchemaFirst /\ WiredOverAll /\ Configured
    /\ BootAccepted
    /\ ServingMeansReady

(* A database without holes is accepted, for either directory.             *)
LEMMA NothingMissing ==
    ASSUME BootTypeOK, NoHoles
    PROVE  Missing(dir) = {}
BY DEF BootTypeOK, NoHoles, Missing, Versions, Versioned

(* The lowest version planned leaves no hole below it: all of Schema is    *)
(* numbered below all of Seed.                                             *)
LEMMA ApplyKeepsNoHoles ==
    ASSUME BootInv, Apply
    PROVE  NoHoles'
<1>1. PICK v \in plan : /\ \A w \in plan : v <= w
                        /\ applied' = applied \cup {v}
  BY DEF Apply
<1>2. phase = "applying" /\ dir \in {"schema", "seed"} /\ v \in Versions(dir)
  BY <1>1 DEF Apply, BootInv, BootTypeOK, PlanComplete
<1>3. ASSUME NEW u \in Versioned, u < v
      PROVE  u \in applied
  <2>1. CASE u \in Versions(dir)
    <3>1. u \notin plan
      BY <1>1, <1>2, <1>3, SeedsComeAfterSchema DEF Versions, Versioned
    <3>2. QED
      BY <2>1, <3>1, <1>2 DEF BootInv, PlanComplete
  <2>2. CASE u \notin Versions(dir)
    <3>1. dir = "seed" /\ u \in Schema
      BY <2>2, <1>2, <1>3, SeedsComeAfterSchema DEF Versions, Versioned
    <3>2. QED
      BY <3>1 DEF BootInv, SchemaFirst
  <2>3. QED
    BY <2>1, <2>2
<1>4. QED
  BY <1>1, <1>3 DEF NoHoles, BootInv, Versioned

(* The invariant of the start is inductive.                                *)
LEMMA BootInductive == BootSpec => []BootInv
<1>1. BootInit => BootInv
  BY DEF BootInit, BootInv, BootTypeOK, NoHoles, PlanComplete, SchemaFirst,
         Configured, WiredOverAll, BootAccepted, ServingMeansReady, Up
<1>2. BootInv /\ [BootNext]_bootVars => BootInv'
  <2> SUFFICES ASSUME BootInv, [BootNext]_bootVars
               PROVE  BootInv'
    OBVIOUS
  <2> USE DEF BootInv, BootTypeOK, BootAccepted, Configured
  <2>1. CASE \E e \in Environment : Load(e)
    BY <2>1 DEF Load, Environment, Numeric, GetInt, Config, NoHoles, PlanComplete,
                SchemaFirst, WiredOverAll, ServingMeansReady, Up, Versioned
  <2>2. CASE Open
    BY <2>2 DEF Open, NoHoles, PlanComplete, SchemaFirst, WiredOverAll,
                ServingMeansReady, Up, Versioned
  <2>3. CASE List
    <3>1. /\ phase = "listing"
          /\ phase' = "applying" /\ plan' = Versions(dir) \ applied
          /\ UNCHANGED <<config, dir, applied>>
      BY <2>3, NothingMissing DEF List
    <3>2. QED
      BY <3>1 DEF NoHoles, PlanComplete, SchemaFirst, WiredOverAll,
                  ServingMeansReady, Up, Versioned, Versions
  <2>4. CASE Apply
    <3>1. NoHoles'
      BY <2>4, ApplyKeepsNoHoles
    <3>2. PICK v \in plan : applied' = applied \cup {v} /\ plan' = plan \ {v}
      BY <2>4 DEF Apply
    <3>3. QED
      BY <2>4, <3>1, <3>2 DEF Apply, PlanComplete, SchemaFirst, WiredOverAll,
                              ServingMeansReady, Up, Versions
  <2>5. CASE Migrated
    BY <2>5 DEF Migrated, NoHoles, PlanComplete, SchemaFirst, WiredOverAll,
                ServingMeansReady, Up, Versions, Versioned
  <2>6. CASE Wire
    BY <2>6 DEF Wire, OrDefault, NoHoles, PlanComplete, SchemaFirst, WiredOverAll,
                ServingMeansReady, Up, Versioned, Config
  <2>7. CASE Signal
    BY <2>7 DEF Signal, NoHoles, PlanComplete, SchemaFirst, WiredOverAll,
                ServingMeansReady, Up, Versioned
  <2>8. CASE Die
    BY <2>8 DEF Die, NoHoles, PlanComplete, SchemaFirst, WiredOverAll,
                ServingMeansReady, Up, Versioned
  <2>9. CASE UNCHANGED bootVars
    BY <2>9 DEF bootVars, NoHoles, PlanComplete, SchemaFirst, WiredOverAll,
                ServingMeansReady, Up, Versioned, Versions
  <2>10. QED
    BY <2>1, <2>2, <2>3, <2>4, <2>5, <2>6, <2>7, <2>8, <2>9 DEF BootNext, BootStep
<1>3. QED
  BY <1>1, <1>2, PTL DEF BootSpec

-----------------------------------------------------------------------------
(* The composition.                                                        *)

(* A request, a boot step, the passing of time or the end of the process   *)
(* moves each part as the part itself allows.                              *)
LEMMA PartsMove ==
    ASSUME [Next]_vars
    PROVE  [BootNext]_bootVars /\ [LimiterNext]_limiterVars
<1> USE DEF bootVars, limiterVars, gateVars, wireVars, historyVars, vars
<1>1. CASE Boot
  BY <1>1 DEF Boot, BootNext
<1>2. CASE Time
  BY <1>2 DEF Time, LimiterNext
<1>3. CASE End
  BY <1>3 DEF End, BootNext, LimiterNext
<1>4. CASE \E b \in Browsers : CloseBrowser(b) \/ \E q \in Requests : Send(q, b)
  BY <1>4 DEF Send, CloseBrowser
<1>5. ASSUME NEW m, Serve(m)
      PROVE  [BootNext]_bootVars /\ [LimiterNext]_limiterVars
  <2>1. ASSUME NEW r, NEW a \in Addresses, NEW known, Reach(m, r, a, known)
        PROVE  [BootNext]_bootVars /\ [LimiterNext]_limiterVars
    BY <2>1 DEF Reach, LimiterNext
  <2>2. CASE \E r \in Routes : Forbid(m, r)
    BY <2>2 DEF Forbid
  <2>3. CASE \E r \in Limited, a \in Addresses : Throttle(m, r, a)
    BY <2>3 DEF Throttle, LimiterNext
  <2>4. CASE \E a \in Addresses : Login(m, a) \/ Logout(m, a)
    BY <2>4, <2>1 DEF Login, Logout
  <2>5. CASE \E r \in Routes \ {"logout"}, a \in Addresses : Handle(m, r, a)
    BY <2>5, <2>1 DEF Handle
  <2>6. QED
    BY <1>5, <2>2, <2>3, <2>4, <2>5 DEF Serve
<1>6. CASE \E a \in answers : Receive(a)
  BY <1>6 DEF Receive
<1>7. CASE \E m \in sent \cup answers : Lose(m)
  BY <1>7 DEF Lose
<1>8. CASE \E s \in SessionIds : SessionEnds(s)
  BY <1>8 DEF SessionEnds
<1>9. QED
  BY <1>1, <1>2, <1>3, <1>4, <1>5, <1>6, <1>7, <1>8 DEF Next

(* A behaviour of the server is a behaviour of either part.                *)
LEMMA Composition == Spec => BootSpec /\ LimiterSpec
<1>1. Init => BootInit /\ LimiterInit
  BY DEF Init
<1>2. QED
  BY <1>1, PartsMove, PTL DEF Spec, BootSpec, LimiterSpec

(* Migrate (main.go:80): whatever cuts earlier starts off, the database    *)
(* they leave is accepted by every later one, for any numbering that puts  *)
(* the seeds after the schema.                                             *)
THEOREM EveryStartIsAccepted == Spec => []BootAccepted
BY Composition, BootInductive, PTL DEF BootInv

(* run (main.go:58): requests are served only over the complete schema and *)
(* seed, with positive lifetimes.                                          *)
THEOREM ServedWhenReady == Spec => []ServingMeansReady
BY Composition, BootInductive, PTL DEF BootInv

(* RateLimiter (ratelimit.go): in the composed server too, requests and    *)
(* restarts in any order keep every address within its budget, and         *)
(* eviction of idle buckets cannot be told from keeping them.              *)
THEOREM ServerKeepsBudget == Spec => SweepIsInvisible /\ []BudgetHolds
BY Composition, ImplementsTokenBuckets, BudgetIsKept, PTL

-----------------------------------------------------------------------------
(* The gate.                                                               *)

GateTypeOK ==
    /\ sessions \in [SessionIds -> {"unused", "live", "ended"}]
    /\ cookies \in [Browsers -> Cookies]
    /\ sent \subseteq Sent
    /\ answers \subseteq Answers
    /\ signedIn \subseteq Browsers
    /\ told \subseteq Browsers
    /\ strayed \subseteq Browsers \X Public

(* A browser has nothing before a login brings it its first session, and   *)
(* one that was refused with a live session has its CSRF cookie since.     *)
CookiesAgree ==
    \A b \in Browsers :
        /\ b \notin signedIn => cookies[b].session = NoCookie /\ ~ cookies[b].csrf
        /\ b \in told => cookies[b].csrf

(* The same of the cookies that a request carries.                         *)
SentAgree ==
    \A m \in sent :
        /\ m.browser \notin signedIn => m.session = NoCookie /\ ~ m.csrf
        /\ m.told => m.csrf

(* The CSRF cookie is on its way to browsers with a session only, and with *)
(* every refusal that counts.                                              *)
AnswersAgree ==
    \A a \in answers :
        /\ a.csrf => a.browser \in signedIn
        /\ a.refused => a.csrf

GateInv ==
    GateTypeOK /\ CookiesAgree /\ SentAgree /\ AnswersAgree /\ VisitorsOnlySignIn

(* The answer to a request: SessionAuth puts the CSRF cookie into it if the*)
(* session of the request is live, whether or not the request is refused.  *)
LEMMA AnswerKeeps ==
    ASSUME GateInv, NEW m \in sent, NEW known \in Lookup(m),
           NEW session \in SessionIds \cup {NoCookie, Kept},
           NEW refused \in BOOLEAN, refused => known,
           Answer(m, known, session, refused),
           sessions' \in [SessionIds -> {"unused", "live", "ended"}],
           UNCHANGED <<cookies, signedIn, told, strayed>>
    PROVE  GateInv'
<1> DEFINE new == [id |-> m.id, browser |-> m.browser, session |-> session,
                   csrf |-> SetsCookie(m, known), refused |-> refused]
<1>1. m \in Sent /\ known \in BOOLEAN
  BY DEF GateInv, GateTypeOK, Lookup, SessionLive
<1>2. known => m.browser \in signedIn
  BY DEF Lookup, SessionLive, GateInv, SentAgree
<1>3. /\ new \in Answers
      /\ new.browser = m.browser /\ new.csrf = known /\ new.refused = refused
  BY <1>1 DEF Sent, Answers, SetsCookie
<1>4. sent' \subseteq sent /\ answers' \subseteq answers \cup {new}
  BY DEF Answer
<1> HIDE DEF new
<1>5. AnswersAgree'
  BY <1>2, <1>3, <1>4 DEF GateInv, AnswersAgree
<1>6. QED
  BY <1>3, <1>4, <1>5
  DEF GateInv, GateTypeOK, CookiesAgree, SentAgree, VisitorsOnlySignIn

(* Every step of the process on a request keeps the invariant.             *)
LEMMA ServeKeeps ==
    ASSUME GateInv, NEW m \in sent, Serve(m)
    PROVE  GateInv'
<1>1. sessions \in [SessionIds -> {"unused", "live", "ended"}]
  BY DEF GateInv, GateTypeOK
<1>2. ASSUME NEW r \in Routes, Forbid(m, r)
      PROVE  GateInv'
  <2>1. PICK known \in Lookup(m) : Answer(m, known, Kept, known)
    BY <1>2 DEF Forbid
  <2>2. known \in BOOLEAN
    BY DEF Lookup, SessionLive
  <2>3. sessions' = sessions /\ UNCHANGED <<cookies, signedIn, told, strayed>>
    BY <1>2 DEF Forbid, historyVars
  <2>4. QED
    BY <1>1, <2>1, <2>2, <2>3, AnswerKeeps
<1>3. ASSUME NEW r \in Limited, NEW a \in Addresses, Throttle(m, r, a)
      PROVE  GateInv'
  <2>1. PICK known \in Lookup(m) : Answer(m, known, Kept, FALSE)
    BY <1>3 DEF Throttle
  <2>2. sessions' = sessions /\ UNCHANGED <<cookies, signedIn, told, strayed>>
    BY <1>3 DEF Throttle, historyVars
  <2>3. QED
    BY <1>1, <2>1, <2>2, AnswerKeeps
<1>4. ASSUME NEW a \in Addresses, Login(m, a)
      PROVE  GateInv'
  <2>1. PICK known \in Lookup(m), s \in SessionIds :
          /\ sessions' = [sessions EXCEPT ![s] = "live"]
          /\ Answer(m, known, s, FALSE)
          /\ UNCHANGED <<cookies, signedIn, told, strayed>>
    BY <1>4 DEF Login, Reach
  <2>2. sessions' \in [SessionIds -> {"unused", "live", "ended"}]
    BY <1>1, <2>1
  <2>3. QED
    BY <2>1, <2>2, AnswerKeeps
<1>5. ASSUME NEW a \in Addresses, Logout(m, a)
      PROVE  GateInv'
  <2>1. /\ sessions' \in {sessions, [sessions EXCEPT ![m.session] = "ended"]}
        /\ Answer(m, TRUE, NoCookie, FALSE)
        /\ UNCHANGED <<cookies, signedIn, told, strayed>>
        /\ TRUE \in Lookup(m)
    BY <1>5 DEF Logout, Reach, Guarded, Lookup, SessionLive
  <2>2. sessions' \in [SessionIds -> {"unused", "live", "ended"}]
    BY <1>1, <2>1
  <2>3. QED
    BY <2>1, <2>2, AnswerKeeps
<1>6. ASSUME NEW r \in Routes, NEW a \in Addresses, Handle(m, r, a)
      PROVE  GateInv'
  <2>1. PICK known \in Lookup(m) :
          /\ Passes(m, r)
          /\ Answer(m, known, Kept, FALSE)
          /\ strayed' = strayed \cup (({m.browser} \ signedIn) \X ({r} \cap Public))
          /\ UNCHANGED <<sessions, cookies, signedIn, told>>
    BY <1>6 DEF Handle, Reach
  <2>2. m.browser \in signedIn \/ r \notin Public
    BY <2>1 DEF Passes, Opening, Public, GateInv, SentAgree
  <2>3. ({m.browser} \ signedIn) \X ({r} \cap Public) = {}
    BY <2>2
  <2>4. strayed' = strayed
    BY <2>1, <2>3
  <2>5. QED
    BY <1>1, <2>1, <2>4, AnswerKeeps
<1>7. QED
  BY <1>2, <1>3, <1>4, <1>5, <1>6 DEF Serve

(* What an answer brings its browser agrees with what is remembered of it. *)
LEMMA ReceiveKeeps ==
    ASSUME GateInv, NEW a \in answers, Receive(a)
    PROVE  GateInv'
<1> DEFINE b == a.browser
           c == [session |-> IF a.session = Kept THEN cookies[b].session ELSE a.session,
                 csrf |-> cookies[b].csrf \/ a.csrf]
<1>1. a \in Answers /\ b \in Browsers /\ cookies[b] \in Cookies
  BY DEF GateInv, GateTypeOK, Answers
<1>2. c \in Cookies /\ c.csrf = (cookies[b].csrf \/ a.csrf)
  BY <1>1 DEF Answers, Cookies
<1>3. /\ cookies' = [cookies EXCEPT ![b] = c]
      /\ answers' = answers \ {a}
      /\ signedIn' = signedIn \cup {x \in {b} : a.session \in SessionIds}
      /\ told' = told \cup {x \in {b} : a.refused}
      /\ UNCHANGED <<sessions, sent, strayed>>
  BY DEF Receive
<1>4. b \notin signedIn' => c.session = NoCookie /\ ~ c.csrf
  <2>1. SUFFICES ASSUME b \notin signedIn'
                 PROVE  c.session = NoCookie /\ ~ c.csrf
    OBVIOUS
  <2>2. b \notin signedIn /\ a.session \notin SessionIds
    BY <1>3, <2>1
  <2>3. cookies[b].session = NoCookie /\ ~ cookies[b].csrf /\ ~ a.csrf
    BY <1>1, <2>2 DEF GateInv, CookiesAgree, AnswersAgree
  <2>4. a.session \in {NoCookie, Kept}
    BY <1>1, <2>2 DEF Answers
  <2>5. QED
    BY <2>3, <2>4
<1>5. b \in told' => c.csrf
  BY <1>1, <1>2, <1>3 DEF GateInv, CookiesAgree, AnswersAgree
<1> HIDE DEF b, c
<1>6. GateTypeOK'
  BY <1>1, <1>2, <1>3 DEF GateInv, GateTypeOK
<1>7. CookiesAgree'
  <2>1. SUFFICES ASSUME NEW x \in Browsers
                 PROVE  /\ x \notin signedIn' =>
                              cookies'[x].session = NoCookie /\ ~ cookies'[x].csrf
                        /\ x \in told' => cookies'[x].csrf
    BY DEF CookiesAgree
  <2>2. CASE x = b
    BY <1>1, <1>3, <1>4, <1>5, <2>2 DEF GateInv, GateTypeOK
  <2>3. CASE x # b
    BY <1>1, <1>3, <2>3 DEF GateInv, GateTypeOK, CookiesAgree
  <2>4. QED
    BY <2>2, <2>3
<1>8. signedIn \subseteq signedIn'
  BY <1>3
<1>9. SentAgree' /\ AnswersAgree' /\ VisitorsOnlySignIn'
  BY <1>3, <1>8 DEF GateInv, SentAgree, AnswersAgree, VisitorsOnlySignIn
<1>10. QED
  BY <1>6, <1>7, <1>9 DEF GateInv

(* A request carries the cookies of its browser, and inherits what is      *)
(* known of them.                                                          *)
LEMMA SendKeeps ==
    ASSUME GateInv, NEW q \in Requests, NEW b \in Browsers, Send(q, b)
    PROVE  GateInv'
<1> DEFINE new == [id |-> q, browser |-> b, session |-> cookies[b].session,
                   csrf |-> cookies[b].csrf, told |-> b \in told]
<1>1. cookies[b] \in Cookies
  BY DEF GateInv, GateTypeOK
<1>2. new \in Sent
  BY <1>1 DEF Cookies, Sent
<1>3. /\ new.browser \notin signedIn => new.session = NoCookie /\ ~ new.csrf
      /\ new.told => new.csrf
  BY DEF GateInv, CookiesAgree
<1>4. /\ sent' = sent \cup {new}
      /\ UNCHANGED <<sessions, cookies, answers, signedIn, told, strayed>>
  BY DEF Send, historyVars
<1> HIDE DEF new
<1>5. SentAgree'
  BY <1>3, <1>4 DEF GateInv, SentAgree
<1>6. QED
  BY <1>2, <1>4, <1>5
  DEF GateInv, GateTypeOK, CookiesAgree, AnswersAgree, VisitorsOnlySignIn

(* With the windows of a browser, the CSRF cookie goes and what was        *)
(* remembered of it.                                                       *)
LEMMA CloseKeeps ==
    ASSUME GateInv, NEW b \in Browsers, CloseBrowser(b)
    PROVE  GateInv'
<1> DEFINE c == [session |-> cookies[b].session, csrf |-> FALSE]
<1>1. c \in Cookies /\ c.session = cookies[b].session /\ ~ c.csrf
  BY DEF GateInv, GateTypeOK, Cookies
<1>2. /\ cookies' = [cookies EXCEPT ![b] = c]
      /\ sent' \subseteq sent /\ answers' \subseteq answers
      /\ told' = told \ {b}
      /\ UNCHANGED <<sessions, signedIn, strayed>>
  BY DEF CloseBrowser
<1> HIDE DEF c
<1>3. CookiesAgree'
  BY <1>1, <1>2 DEF GateInv, GateTypeOK, CookiesAgree
<1>4. QED
  BY <1>1, <1>2, <1>3
  DEF GateInv, GateTypeOK, SentAgree, AnswersAgree, VisitorsOnlySignIn

(* Every step of the server keeps the invariant of the gate.               *)
LEMMA GateMoves == GateInv /\ [Next]_vars => GateInv'
<1> SUFFICES ASSUME GateInv, [Next]_vars
             PROVE  GateInv'
  OBVIOUS
<1> USE DEF GateInv, GateTypeOK, CookiesAgree, SentAgree, AnswersAgree, VisitorsOnlySignIn
<1>1. CASE UNCHANGED gateVars
  BY <1>1 DEF gateVars, wireVars, historyVars
<1>2. CASE End
  BY <1>2 DEF End, historyVars
<1>3. CASE \E m \in sent \cup answers : Lose(m)
  BY <1>3 DEF Lose, historyVars
<1>4. CASE \E s \in SessionIds : SessionEnds(s)
  BY <1>4 DEF SessionEnds, wireVars, historyVars
<1>5. QED
  BY <1>1, <1>2, <1>3, <1>4, SendKeeps, CloseKeeps, ServeKeeps, ReceiveKeeps
  DEF Next, vars, Boot, Time

(* The invariant of the gate holds in every behaviour.                     *)
LEMMA GateInductive == Spec => []GateInv
<1>1. Init => GateInv
  BY DEF Init, GateInv, GateTypeOK, CookiesAgree, SentAgree, AnswersAgree,
         VisitorsOnlySignIn, Cookies
<1>2. QED
  BY <1>1, GateMoves, PTL DEF Spec

(* All variables of the server keep their types.                           *)
THEOREM ServerTypeCorrect == Spec => []TypeOK
<1>1. BootInv /\ LimiterTypeOK /\ GateInv => TypeOK
  BY DEF BootInv, GateInv, GateTypeOK, TypeOK
<1>2. QED
  BY <1>1, Composition, BootInductive, LimiterTypeCorrect, GateInductive, PTL

(* SessionAuth before CSRF (server.go:49): any number of browsers, sessions*)
(* and restarts, and any number of requests under way at once, answered,   *)
(* received or lost in any order, and no browser that received a refusal of*)
(* its live session for want of the CSRF cookie sends another request that *)
(* is refused for it, until its windows are closed.                        *)
THEOREM OneRefusalIsEnough == Spec => RefusedOnceTold
<1> DEFINE Refused == \A m \in sent, r \in Routes : Forbid(m, r) => ~ m.told
<1>1. GateInv => Refused
  BY DEF GateInv, SentAgree, Forbid, Passes
<1>2. GateInv /\ [Next]_vars => [Refused]_vars
  BY <1>1
<1> HIDE DEF Refused
<1>3. Spec => [][Refused]_vars
  BY <1>2, GateInductive, PTL DEF Spec
<1>4. QED
  BY <1>3 DEF Refused, RefusedOnceTold

(* CSRF (middleware.go:178): what the routes call public is open only to   *)
(* browsers in which somebody signed in before.                            *)
THEOREM PublicNeedsSignIn == Spec => []VisitorsOnlySignIn
<1>1. GateInv => VisitorsOnlySignIn
  BY DEF GateInv
<1>2. QED
  BY <1>1, GateInductive, PTL

=============================================================================
