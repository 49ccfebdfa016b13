# Specifications of the hikingfo backend

TLA+ models of the Go backend in this repository, the TLC configurations that
check them on small instances, and TLAPS proofs that hold for instances of any
size.

    tlc -workers 2 -config Partner.cfg MCPartnerRequests     # a model-checking run
    tlapm PartnerProofs.tla                                  # the proofs of a module

`PROJECT.json` lists the components, the runs, the mutants that show each
property can fail, the source lines every definition models, the findings and
the hazards.

## 1. The system

A Gin server, one goroutine per HTTP request, over one PostgreSQL database. The
code is split into bounded contexts (`internal/<context>/{domain, application,
infrastructure, interfaces}`); contexts do not import each other and are joined
by closures in `cmd/api/main.go`.

Three facts shape all the models:

* **A repository call is one autocommit SQL statement.** Services are sequences
  of such calls with no transaction around them. Only the catalogue's
  `MountainWriter` opens transactions, at PostgreSQL's default READ COMMITTED
  level and without row locks. So between any two calls of a handler any other
  handler may run, and the process may stop.
* **Requests are concurrent and unserialised.** Nothing (no lock, no version
  column) keeps two requests off the same row. What protects a row is the
  `WHERE` clause and the column list of the statement that writes it.
* **Many later steps are best effort.** Their errors are dropped on purpose and
  the handler answers success.

| Context | State | Operations that change it | Talks to |
|---|---|---|---|
| partner | `partner_notices`, `partner_requests` | publish and withdraw a notice; send, accept, decline, withdraw a request; reveal contacts | identity (contacts), notification (hooks), moderation (reports) |
| identity | `users`, `sessions`, `email_verification_tokens`, `password_reset_tokens`, `contact_channels` | register, login, logout, verify, forgot, reset, edit profile and contacts, suspend | every context, through the session middleware |
| journey | `hike_log_entries`, `journey_posts` | record and delete a hike; create, edit, publish, delete a post | badge hook; moderation acts on its rows |
| moderation | `reports`, `user_blocks` | report, resolve, block, unblock | journey (hide, de-count), notification |
| achievement | `badge_configs` | create a badge; the earned badges are derived | reads `hike_log_entries` |
| notification | `notifications` | record, list, mark read | written by four hooks |
| catalogue | `mountains`, `mountain_routes`, `mountain_basecamps`, `mountain_revisions`, `mountain_photos`, the edit log, the image store | edit, roll back, cover photo, gallery, routes, basecamps, delete | image store |
| weather cache (catalogue) | `mountain_weather`, one row per mountain; goroutines in flight | serve, fetch, refresh in the background | Open-Meteo; edits and deletions of the mountain |
| http platform | two cookies per browser, requests and answers under way; the limiters' maps, in memory | look up the session, check CSRF, limit, guard | `sessions`, every handler |
| process | settings, `goose_db_version`, the listener | load, open, migrate twice, wire, serve, stop | everything above |

Hard behaviour, and what correctness means there:

* *partner*: the recipient's decision races the sender's withdrawal and other
  decisions; contacts are private, so a reveal must follow from the
  recipient's own consent; a match must close the pair.
* *identity*: `UserRepository.Update` writes a whole row from an earlier read; a
  login is past its check when a suspension or reset revokes sessions; mailed
  links must work once.
* *journey and moderation*: an author edits while an administrator hides; a
  resolution is an effect, a notification and a closing in three statements.
* *badges*: the hook compares state read by three statements and remembers what
  it announced only through the notifications themselves, a page of them; badges may
  share a threshold.
* *catalogue*: revisions and the edit log must account for what administrators
  overwrite, though the log is listed by when transactions began; images are deleted
  outside the transaction that replaced them.
* *weather*: nobody waits for a refresh, nobody retries one, several may run and
  store in any order, and one may outlive the mountain or its coordinates; the
  cache must come back to a live forecast of the right place all the same.
* *http platform*: the limiter forgets idle addresses and a restart forgets all;
  neither may give a client more than it could have had by waiting. The two cookies
  have different lives, a browser's requests overlap, and the order of the middlewares
  decides what a browser that has lost one of them can still do.
* *process*: a start may be cut off between any two migrations, and both
  directories of migrations share one version table.

## 2. The modules

| Module | Models | Lines of code behind it |
|---|---|---|
| `PartnerRequests` | the partner context | `internal/partner`, trigger `set_updated_at`, `AuthorizeContactReveal` |
| `ContactConsent` | abstract: what it promises about contacts | - |
| `PartnerProofs` | theorems about `PartnerRequests` | - |
| `IdentityAccounts` | accounts, sessions, mailed tokens, suspension | `internal/identity`, session middleware |
| `AccountAccess` | abstract: what it promises about who gets into an account | - |
| `IdentityProofs` | theorems about `IdentityAccounts` | - |
| `JourneyModeration` | hikes, posts, reports and resolutions | `internal/journey`, `internal/moderation` |
| `PublicContent` | abstract: what they promise about content in public | - |
| `JourneyProofs` | theorems about `JourneyModeration` | - |
| `BadgeNotifications` | the announcement hook with what it reads and writes | `evaluateAndNotifyBadges`, `internal/achievement`, `internal/notification` |
| `BadgeProofs` | theorems about `BadgeNotifications` | - |
| `MountainCatalogue` | mountains, revisions, cover, gallery, routes, edit log, images | catalogue administration and gallery |
| `CatalogueProofs` | theorems about `MountainCatalogue` | - |
| `WeatherCache` | the forecast of a mountain, its readers and its refreshes | `getWeather`, `fetchAndCacheWeather`, the refresh goroutines, `weather_repo` |
| `WeatherProofs` | theorems about `WeatherCache` | - |
| `TokenBuckets` | abstract: what the limiter promises each address | - |
| `RateLimiter` | the map of buckets and its sweep | `internal/platform/http/ratelimit.go` |
| `RateLimiterProofs` | theorems about `RateLimiter` | - |
| `ProcessBoot` | the start of the process, up to serving and its stop | `main.go`, `config`, `db` |
| `ServerProcess` | the composition of `ProcessBoot`, `RateLimiter` and the middleware chain, with browsers | `server.go`, the session, CSRF and guard middlewares, cookies |
| `ServerProofs` | theorems about `ProcessBoot` and `ServerProcess` | - |
| `MC*` | TLC instances: symmetry sets and sequences a `.cfg` cannot write | - |

`JourneyModeration` composes two contexts and `BadgeNotifications` three, where
the code does: through the closures of `main.go`. `ServerProcess` composes
`ProcessBoot` and `RateLimiter`: it EXTENDS both, its steps are theirs conjoined
with what happens to the cookies and the sessions, and the two share the one
moment that both take part in, the end of the process (`End`). No other pair of
components shares a row that both write, so they are modelled apart. What
`WeatherCache` needs of the administration is that coordinates change and that
a mountain with its weather row goes; it has an action for each.

### How the models read

* A table is a function from ids to rows; an id that is not in the table has the
  row `Absent`, and where ids of removed rows matter, `Deleted`.
* `handlers` maps a small set of slots to what an in-flight goroutine holds: `pc`
  names its next statement, the other fields are the values it has read. An
  operation that is one statement is one action without a slot. A handler's
  actions are named after the operation and the statement (`AcceptFind`,
  `AcceptWrite`, `AcceptReverse`, ...).
* A conditional statement (`... WHERE status = 'pending'`) has its condition as
  the guard of the action; an unconditional one does not, even when the service
  checked the condition a statement earlier.
* `StatementFails` is the error return of whichever call comes next, with the
  code's reaction: end the handler, or go on where the code drops the error.
  `Restart` is the end of the process between any two statements: tables
  survive and handlers do not.
* A handler that finds a row gone or in the wrong state answers an error and
  changes nothing. Where this happens at its first statement there is no step
  (`SendCheck` on a matched pair); later it is `StatementFails`.
* A catalogue transaction takes its lock with its first write, so the
  reads before it are steps of their own and the writes up to the commit are
  one step.
* The edit log is listed by `created_at`, which is when an entry's transaction began.
  `editLog` keeps the entries in the order of their commits, each with how many were
  committed when its transaction began (`began`, taken by `PhotoBegin`, `ObjectFind` and
  the one-statement operations from `Now`). `Follows(j, i)` says that entry `j` began after `i`
  was committed, so that the list has `j` as the newer; of two that overlapped it may
  show either first, and no property relies on which.
* Photo keys are whatever has the shape that `validUploadKey` accepts. Setting a cover or
  adding a gallery photo does not ask the store, so any key may be named at any time,
  whether its image was uploaded, is gone, or never was.
* A browser request is a message with the cookies of the moment it was sent, and its
  answer one with the cookies it sets. Several are under way at a time; each may be
  lost, and answers are received in any order. Between the two the process serves the request in
  one step (`Forbid`, `Throttle`, `Login`, `Logout`, `Handle`): the middlewares read nothing
  that is written between them but the session, whose lookup may also fail.

One over-approximation: `AdminCall` (suspension, reactivation) stands for a handler and a
route that exist and are tested, but `main.go` never mounts identity's
`RegisterAdminRoutes`; only `tests/integration/admin_smoke_test.go` does. In the
shipped process no status ever changes. The properties about suspension hold of the application
layer, for the day the routes are mounted; those that do not speak of it hold in either case.

History variables and fields, which no guard reads: `consented`, `revealed`
(partner); a session's `password` (identity); `outcomes` (journey: the reports whose owner
was notified); `best`, `pages`, `goal`, `skipped`, `page` (badges); a revision's `rollback`
flag and an entry's `began` (catalogue; the code keeps them as the revision's reason and the
entry's `created_at`); `spent` and `restarts` (limiter); `signedIn`, `told` with its copy in
each request, `refused` in each answer, and `strayed` (server); `quiet` (weather).
`restarts` also carries the bound on restarts. `calm` (weather) is not
history but an assumption made into a state: once it is set, failures, edits and
crashes no longer happen, which only `ComesBackLive` asks for.

Abstracted throughout: texts, dates, validation of input formats, hashing,
paging and sorting of listings, JSON. Trip dates are left out of the partner
model: all its requests are for one trip, which is the case the reverse loop is
about. Expiry of sessions and tokens may happen at any moment. Requests expire
nowhere: no code writes the status `expired`.

## 3. The runs

Every cfg with an `expect: pass` is checked exhaustively, with deadlock checking
on (`Restart` is always possible, so a deadlock would be a modelling error;
that a handler cannot be stuck is `EveryDecisionSettles`' business).

| Run | Instance | What it shows |
|---|---|---|
| `partner` | 2 users, 1 mountain, 2 requests, 1 notice, 2 handlers | `AcceptedByRecipient`, `RevealNeedsConsent`, `DecisionIsFinal`, `MatchClosesPair` |
| `partner_live` | 3 users, 1 request, 2 handlers, fair | `EveryDecisionSettles`; `KeepsPromise`: refinement of `ContactConsent` |
| `identity` | admin and member, 3 passwords, 2 sessions, 2 tokens, 2 handlers | `TokenWorksOnce`, `ShutOutHolds`, `ResetForcesLogout`, `PasswordStaysCurrent`, `VerificationLasts`; `KeepsPromise`: refinement of `AccountAccess` |
| `journey` | 1 author, 1 post, 1 hike, 2 bodies, 2 reports, 2 handlers | `ResolutionsHold`, `ModerationIsFinal`, `PublishedSettles`, `ClosedSettles`; `KeepsPromise`: refinement of `PublicContent` |
| `badges` | 2 mountains, 2 hikes, a badge at 2 and one added at 1 or 2, page of 2, 5 notifications, 2 hooks | `AnnouncedWasReached`, `EarnedIsCovered`, `HigherTierOnly` |
| `catalogue` | 1 mountain, 1 route, 1 gallery row, 1 image, 2 revisions, 3 log entries, 2 requests | `CoverFollowsLog`, `LostImageIsLogged`, `TrailMatchesObjects` |
| `weather` | 2 places, 1 request, 2 refreshes, a lifetime of 1 tick, fair | `DeletedLeavesNothing`, `FormerPlaceFades`, `ProfileNeverWaits`, `ComesBackLive` |
| `server` | 2 schema and 2 seed migrations, 1 browser with 2 requests under way, 1 session, 1 address, buckets of 2 tokens refilled in 2 ticks each, 2 restarts | `BootAccepted`, `ServingMeansReady`, `RefusedOnceTold`, `BudgetHolds`; `SweepIsInvisible`: refinement of `TokenBuckets` |

### Why the bounds are enough

Every race in the code is between two handlers on one row (or on one pair of
users), so two slots reach each of them; a third contender can only repeat what
the second did, because handlers meet in the tables alone and keep nothing of
each other. Two requests make both directions of a pair, a duplicate in one
direction, and a match next to a pending request. Two sessions let a login
race a revocation while an older session is live, or a revocation miss one of
two; three passwords let two resets follow each other; two tokens let a verification
race a reset, or two resets race. Two reports allow two resolutions of the same
content with different actions. Two hikes on one mountain or on two tell hikes from
mountains, and a removed one lowers the count; a page of two among five notifications pushes
an announcement out of the page and out of it again; the added badge may share the other's
threshold or lie below it, before or after it in the sort order. One image and none give
a cover that is set, removed, set again and restored. `MaxNotices`, `MaxRevisions`,
`MaxLog` and the id sets bound counters that the code lets grow for ever: when one
is used up the operation is simply no longer taken. In the weather cache
two refreshes overtake each other, and a third only repeats one of them; two
places give a former and a present one, and going back and forth; ages are
counted up to one past the lifetime, where a forecast is stale whatever more it
ages. Two requests at a time were explored too (490,000 states), with the same
result. In `server` two migrations in each directory are enough for a start to be
cut off before, between and after them, and two restarts for a third start to
meet what two left; one address is enough because buckets do not meet, and one
browser because browsers meet only in the limiter; two requests of it overlap, and the one session
may end or be lost by the browser in between; the theorems of section 5
hold for any number of either. `MaxTime` lets a bucket be emptied, filled and
dropped by the sweep within a run.

Symmetry is used in the passing safety runs, over sets whose
members no action or property tells apart. `PartnerLive.cfg` has none, because
symmetry is not sound for liveness, nor has `Weather.cfg`.

### What the abstract specifications leave out

`ContactConsent`, `PublicContent`, `AccountAccess` and `TokenBuckets` know neither rows nor
handlers nor failures. What is under way appears in them only as far as it can still show:
`AccountAccess` keeps for each account what it is (`has`) and what it may yet become (`may`), an
upper bound that registration, a used link and an administrator's decree extend and that
`Settle` may use up or drop at any moment. In `IdentityAccounts` `may` is the row together
with what each handler carries (`Carried`): a whole row that `UserRepository.Update` will write
back, a password behind a consumed reset link, a status past or before its check. So the
refinement says that writing whole rows back from copies may undo a change but never
brings about one that nobody made: no password, no verification and no status that was not
the account's before or due to it by one use of one link or one decree; that a session
opens only along a sign-in that was let through, while the account was active, with the
password it then had; and that a registration is owed one verification link and no more.

### Fairness

Two runs assume any. `partner_live` assumes weak fairness of `Proceed(p)` for each handler
(`Runs(p)`).
A goroutine holding work is scheduled again by the Go runtime, and every call on the pool
returns, since the request's context ends it if nothing else does;
`StatementFails` is part of `Proceed`, so returning an error is allowed for ever. Nothing is
assumed about clients: no request need ever come. The property still needs the
argument that a decided request admits no new decision handlers.

`weather` assumes that time passes and that a goroutine that is not waiting for
Open-Meteo goes on (`TimePasses`, `Runs(t)`). Nothing is assumed of
Open-Meteo: `http.Get` is called without a timeout, so `ProfileNeverWaits` must hold even
if it never answers. `ComesBackLive` cannot, and states what it needs as its
hypothesis: failures, edits and crashes come to an end, Open-Meteo answers what is
then asked of it (`Answers(t)`), and weather requests keep coming (the property is about the
request that is made when there is no row at all; nothing else creates one). It
also takes a store to be faster than a tick once calm: a forecast that takes longer
than its lifetime to be written would be stale on arrival.

### Conditions inside the properties

Several properties say "once no racing handler is left" (`Settled`, `ShutOut`,
`Unopposed`, `Confirmed`). These conditions are exactly the code's exposure: without
them the property is false, and the runs below show it for posts and
revisions. With them
the property says that the damage is limited to the race itself and that nothing
later, in any order, can undo what has settled.

Others say what can be told from what an operation had before it, and no more:

* `HigherTierOnly` compares a badge announcement with the notifications its hook had read. A
  threshold is announced twice where no hook can see it, which section 4 lists.
* `EarnedIsCovered` takes a badge as covered when it or a higher one was announced. That is the
  code's own notion, and its price: when recording a lower badge fails and a higher one
  is recorded, the lower one is never announced.
* `CoverFollowsLog` and `TrailMatchesObjects` order two log entries only if the second began after
  the first was committed, as `created_at` does.
* `LostImageIsLogged` is about images that were uploaded; a row may name a key that never was.
* `RefusedOnceTold` is about requests sent after a refusal arrived that brought the
  cookie. Requests already under way may be refused as well, and a refusal whose session lookup
  failed brings no cookie and does not count, so there may be any number of those before.
* `FormerPlaceFades` needs the refreshes of former coordinates to be over: one that is stuck
  for ever, which nothing in the code prevents, keeps its condition from being met.
* `BudgetHolds` is about one key of the limiter. The key is gin's `ClientIP`, and as
  `TRUSTED_PROXIES` is read but never applied to the engine, that is whatever `X-Forwarded-For`
  says: the budget is that of the name a client gives, not of the client.

## 4. Where the code departs from its comments

Four runs are expected to fail; each checks one property taken from a comment.

| Run | The comment | What happens |
|---|---|---|
| `partner_accept` | `AcceptRequest` "also marks the reverse direction request if it exists, and updates the notice" (`service.go:158`) | the trigger of `0005_partner.sql:40` runs the function of the `users` table, which raises; the error is dropped and the notice stays open. The loop lists the sender's own sent requests and looks among them for ones addressed to the sender: never any |
| `journey_edit_race` | "published posts are immutable" | an edit that read the draft rewrites the published post |
| `catalogue_revisions` | a revision holds "the row as it was BEFORE the edit" | two overlapping edits snapshot the same row, and the row between is lost |
| `server_visitors` | filing a report is a "public endpoint — any visitor" (moderation `service.go:76`, `handlers.go:117`) | CSRF lets only register, login and google through without its cookie, and the cookie comes only with a live session, so a visitor's report is answered 403 |

`FollowUpsNeverHappen` (section 5) proves that what `partner_accept` shows for one handler
is so whatever runs beside it. `PublicNeedsSignIn` proves what `server_visitors` shows for one
request of every browser and of every public mutating route, forgot, reset and verify of `/auth`
among them: none gets through before the browser has once signed in.

Other departures met while modelling, which no run is expected to show:

* *Withdrawal* "cancels a pending request", but an accept in flight turns the
  withdrawn request into a match; `DecisionIsFinal` says what holds instead.
* *Registration* "must not silently strand the account": the user "can resend from
  the login screen" (`auth.go:60`), as the mailer says too (`mailer.go:30`). No operation issues a
  second verification token, and registering again finds the e-mail taken. `Stranded` in
  `IdentityAccounts` names the ways into it; one of them is a profile edit that read the account
  before its verification and writes it back unverified. The theorem `StrandedStays` proves that
  there is no way out. `VerificationLasts` says when a verification can no longer be lost.
* *Suspension*: `UserRepository.Update` writes the status it read (`user_repo.go:105`), so a
  profile edit, a verification or a reset that read the row before a suspension writes `active`
  back. That is a race of the application layer. Over HTTP the shipped binary cannot reach it, as it
  mounts no route that suspends; `ShutOutHolds` says what holds where one is mounted.
* *Posts by id*: `GetFeedItem` is "for the public feed" (`service.go:337`), but its query is the
  id alone (`journey_post_repo.go:195`): drafts and hidden posts are answered to whoever knows the
  id, until they are deleted. `PublicContent` therefore promises of hidden content only that it is not
  listed again.
* *Badges* are announced "idempotent per threshold" (`main.go:285`), yet only a badge's key is
  unique (`0004_achievement.sql`, `badge_config_repo.go:81`): two badges of one threshold are both
  announced by one call. Hooks that overlap, a hundred later notifications, or a
  listing that failed repeat an announcement as well.
* *Upserts of badges*: with a key that exists, the upsert takes its UPDATE branch, whose
  trigger is the one of the `users` table and raises (`0004_achievement.sql:28`), so no badge can be
  changed.
* *Photo keys*: a cover must be an upload "issued by POST /uploads" as its error says, but only
  the shape of the key is checked (`admin.go:455`), and the gallery does the same.
* *The edit log* is listed by `created_at DESC` (`mountain_writer.go:578`), when transactions
  began. Of two changes that overlapped, the one committed last, whose cover is shown, may be
  listed as the older.
* *Settings*: "Unknown/invalid values error" (`config.go:105`), but a number or a
  boolean that does not parse is silently the default. `ServingMeansReady` shows that no
  lifetime of zero or less survives, for the services replace those.
* *Stopping*: the server "gracefully shuts down" (`server.go:78`), but `Run` sleeps ten
  seconds with the listener open and returns: `draining` serves as `serving`
  does, and `Die` cuts off whatever runs.
* *Seeds* are applied "when present" (`main.go:75`), but the runner answers an error
  for a directory that is missing.
* *Publication*: a post that is created as published, or made so by an edit, has no
  publication date, by which the feed sorts. `PublishedSettles` includes that
  whatever date a settled published post has, or has not, it keeps.

## 5. The proofs

Every theorem is for any sets of users, rows, handlers, addresses and so on, of any
size.

### Partner

`PartnerProofs` assumes nothing but `NoNoticeIsNoId` (the value for a NULL notice id is no notice id):

| Theorem | Statement |
|---|---|
| `TypeCorrect` | `Spec => []TypeOK` |
| `AcceptanceIsConsent` | `Spec => []AcceptedByRecipient` |
| `RevealIsConsented` | `Spec => []RevealNeedsConsent` |
| `DecisionsAreFinal` | `Spec => DecisionIsFinal` |
| `MatchesClosePairs` | `Spec => MatchClosesPair` |
| `ImplementsContactConsent` | `Spec => KeepsPromise` |
| `FollowUpsNeverHappen` | no notice is ever marked matched, and the reverse loop never selects a request |
| `EveryCallAnswers` | `FairSpec /\ []NobodyIsBlocked =>` every handler that has begun ends |
| `EveryHolderQuits` | `FairSpec /\ []NobodyIsBlocked =>` whoever holds a decision on a decided request lets go of it for good |
| `DecisionsSettle` | `FairSpec /\ []NobodyIsBlocked => EveryDecisionSettles`, for up to three handlers |

None of the invariants is inductive alone. A handler at `accept_write` will make
its request accepted, so `AcceptedByRecipient` survives that step only if the
handler's request is one whose recipient has called accept; and a handler at
`reveal_contacts` will add to `revealed`, so it must know a consent that joins
its two users. The inductive invariant is therefore

    IndInv == TypeOK /\ RowsSound /\ HandlersHold /\ AcceptedByRecipient
                     /\ RevealNeedsConsent

where `HandlersHold` says for each `pc` what its handler may rely on, and
`RowsSound` that consents belong to existing requests and that no request goes
from a user to the same user. The latter is why the reverse loop selects nothing
(`ReverseIsEmpty`), which every proof about `AcceptReverse` uses. Each conjunct
has its step lemma (`TypeStep`, `RowsStep`, `AcceptedStep`, `RevealStep`,
`HandlersStep`), with one step per action that can disturb it. The proofs of
the step properties rest on two facts about time: consents only grow, and the
fields of a request other than its status never change (`StepsGrow`,
`RequestSteps`). That makes `ConsentJoins` stable. `SettledStays` and
`NewHolders` carry the finality of decisions: a handler comes to hold a request
for a decision only by finding it pending. The refinement maps a send's insert
to `Propose`, the first accept call to `Agree`, the serving of contacts to
`Share`, and everything else to a stutter.

Progress is proved handler by handler: `OneLeft` to `FourLeft` count the statements that are
still ahead, each step of the handler lowers the count, and no step of another changes
it (`OthersLeaveAlone`). What the provers cannot say is that an action is enabled, so
`NobodyIsBlocked`, that a handler which has begun can take its next step, if only to
fail, is a hypothesis; it follows from the guards, since `StatementFails` is part of `Proceed`
and asks only that the handler is not idle. `EveryHolderQuits` adds that a
decided request is never found pending again. From there to `EveryDecisionSettles` each
handler's moment has to be brought under one, which the prover does for a given number of
handlers and not by induction over a set; hence the bound of three in
`DecisionsSettle`, one more than the run has.

### Identity

`IdentityProofs` assumes `RolesAndStatuses` (administrators are users; the restrictions are
neither `active` nor the mark of an absent row).

| Theorem | Statement |
|---|---|
| `TypeCorrect` | `Spec => []TypeOK` |
| `LinksWorkOnce` | `Spec => []TokenWorksOnce` |
| `ShutOutStays` | `Spec => ShutOutHolds` |
| `ResetEndsSessions` | `Spec => ResetForcesLogout` |
| `CurrentStaysCurrent` | `Spec => PasswordStaysCurrent` |
| `VerificationStays` | `Spec => VerificationLasts` |
| `StrandedStays` | an account that nothing in flight or in the mail can still verify never is verified |
| `ImplementsAccountAccess` | `Spec => KeepsPromise` |
| `OneVerification` | an account has at most one way to its verification: owed, mailed or used |
| `AdminsStayActive` | no administrator, and no copy of one's row, is ever anything but active |

The module has many actions, but few things happen to a row. So each action is first
reduced to forms: what a step can make of an account (`RowMove`), a session
(`SessionMove`), a token (`TokenMove`) and a handler (`Becomes`, of which `OneMoves` says that
only one handler moves at a time). `StepForms` is proved action by action; everything
after it speaks of the forms alone, and a property of a new operation costs one
more case there. The invariant is

    IndInv == TypeOK /\ Owned /\ TokenWorksOnce

where `Owned` says that sessions, tokens and handlers belong to accounts that exist.
The step properties follow from the forms: a status changes only through a
handler that holds an older row or through the administrator's write, and a session opens
only through a login past its check; with neither in flight (`ShutOut`, `Unopposed`)
nothing can undo what has settled.

The refinement needs two facts more (`RefInv`). An account has at most one registration under
way (`RegisteredOnce`), or else two links would be mailed for what is owed once; it holds because
a registration begins with an account that was absent. And a status change of an administrator
that is past its check is a reactivation (`AdminsSpared`). The proof divides the steps in two. One that
creates no row and begins nothing (`Quiet`) is a `Settle`: `QuietRows` and `QuietCarries` show from the
forms that what it writes and what its handler goes on to carry was in `may` before, and
`ProceedQuiet` and `OtherQuiet` that fourteen of the actions are of this kind. Each of the others is an
action of `AccountAccess`: `Register` an `Enrol`, `RegisterToken` and `ForgotPassword` a `Mail`,
`VerifyConsume` a `Verify`, `ResetConsume` a `Reset`, `LoginFind` an `Admit`, `LoginOpen` an `Open`,
and `AdminCall` a `Decree`, or nothing when it would restrict an administrator.

`OneVerification` is proved of the steps of `AccountAccess` and so of the handlers: what is owed
becomes a link (`MailStep`), the link its use (`UseStep`), and nothing else opens a way
(`PlainStep`, `DecreeStep`). With `StrandedStays` it completes the picture of registration: there is
one link and never two, and when it is lost there is none.

### Journey and moderation

`JourneyProofs` needs no assumption.

| Theorem | Statement |
|---|---|
| `TypeCorrect` | `Spec => []TypeOK` |
| `ResolutionsStay` | `Spec => []ResolutionsHold` |
| `ModerationStays` | `Spec => ModerationIsFinal` |
| `ImplementsPublicContent` | `Spec => KeepsPromise` |
| `PublicationsSettle` | `Spec => PublishedSettles` |
| `ClosingsSettle` | `Spec => ClosedSettles` |

`ResolutionsHold` is about three statements of one handler, so alone it is not inductive: a
handler about to notify the owner or to close the report must know that the
content is down already. The invariant is

    IndInv == TypeOK /\ ResolutionsHold /\ HandlersKnow /\ OutcomesKnown

with that in `HandlersKnow`. Two facts about time carry it: content that is down stays
down (deletion is final, and no write changes `hidden` or `removed` back), and the target of a
report never changes. The actions are reduced to forms as for identity
(`PostMove`, `HikeMove`, `ReportMove`, `OutcomeMove`).

The refinement maps a post to listed when it is published and visible, a hike when it is
verified, and either to barred when it is hidden, removed or deleted; a post is served by its id
as long as it has a row. As the abstract steps
are about one piece of content, the proof first shows that a step touches one row at
most (`OneMoves`); that piece is then written, listed, withdrawn, hidden or deleted
(`OneContent`), and a notification of its owner is a telling (`NotifyTells`).

### Badges

`BadgeProofs` assumes `BadgeConstants`, of which two parts matter: thresholds are positive,
so that 0 can stand for a notification of another type, and the mountains are finite, so the
count is a number. Thresholds may be shared.

| Theorem | Statement |
|---|---|
| `TypeCorrect` | `Spec => []TypeOK` |
| `AnnouncementsAreEarned` | `Spec => []AnnouncedWasReached` |
| `EarnedAreCovered` | `Spec => []EarnedIsCovered` |
| `AnnouncementsRise` | `Spec => []HigherTierOnly` |

A hook acts on a count, a list of badges and a page of notifications it read
before; the invariant (`HookSound`) says what of that is still true: the count was
reached at some time (`best`), each earned threshold is pending or below a
notification there is, and each badge it is still to record lies above all it has read. It
stays true because notifications are only added and `best` only grows. Three more
conjuncts carry it: the count never exceeds `best` (`BestCovers`), what was read for a recorded
notification came before it and is lower (`PagesSound`), and any page that is not empty has a
highest threshold (`PagesHaveMax`), which the `CHOOSE` in `NotifiedAt` needs.

### Catalogue

`CatalogueProofs` assumes `CatalogueConstants`: the empty key is no key, and mountains,
routes and photos have different ids (each is a UUID).

| Theorem | Statement |
|---|---|
| `TypeCorrect` | `Spec => []TypeOK` |
| `CoverIsLogged` | `Spec => []CoverFollowsLog` |
| `TrailIsComplete` | `Spec => []TrailMatchesObjects` |
| `ImagesAreAccounted` | `Spec => []LostImageIsLogged` |

An image is deleted after the transaction that took it out of use, by a key that was
read before it, so the properties need to know where any key in anyone's hands
comes from. That is the invariant:

    IndInv == TypeOK /\ HandlersKnow /\ CoversKnown /\ LostImageIsLogged
              /\ LogSound /\ CoverFollowsLog /\ ObjectsSound /\ TrailMatchesObjects

Every cover, present, in a revision or carried by a request, is named in the log for its
mountain (`CoversKnown`, `HandlersKnow`); hence whoever deletes an image
finds its key discarded in the log, or its mountain deleted, and what the log says of
a key never becomes untrue, because entries are only added and a deleted mountain does not
come back. None of it asks where the key came from, so it holds of keys that were never
uploaded too. `LogSound` says that every entry began before it was committed; hence the entry
committed last follows no later one, which is what `CoverFollowsLog` asks of the entry of the cover shown.
`ObjectsSound` ties an object to its mountain, whose deletion takes it along, and keeps its
entries in a life's order: `ObjectFind` names only what is there, so whatever
is logged of an object began after its creation was committed (`CreatedBy`).

### Rate limiter

`RateLimiterProofs` assumes `LimiterParameters`, of which one part matters: a bucket is
full again before its entry may be dropped (`Burst * Cost <= Idle`). It holds of
each limiter in the code by far: 50, 25 and 20 seconds against an hour.

| Theorem | Statement |
|---|---|
| `LimiterTypeCorrect` | `LimiterSpec => []LimiterTypeOK` |
| `ImplementsTokenBuckets` | `LimiterSpec => SweepIsInvisible` |
| `BudgetIsKept` | `LimiterSpec => []BudgetHolds` |

The refinement maps an address to what its bucket holds at the clock's time, and an
address without an entry to a full bucket. A refused request and a sweep are
stutters: a refusal changes only when the entry was seen, and an entry that is
stale was last used longer ago than its bucket needs to fill (`StaleIsFull`),
which is where the assumption is used. The budget is proved of the level: what
was spent and what is left never exceed a burst per start and the time passed
(`Account`), which each step of the abstract buckets keeps.

### Process

`ServerProofs` assumes `LimiterParameters` and `SeedsComeAfterSchema`: every
seed's version is above every schema version. The files have it, with the schema
numbered up to 9 and the seeds from 11 to 14. The theorem is about one set of files,
and shows how little room the numbering leaves for another: goose refuses a
directory with a version below the newest one applied that is not applied itself.
A schema migration numbered 10 is refused by every database that has the seeds, and
one numbered 15 makes an empty database refuse the seeds.

| Theorem | Statement |
|---|---|
| `EveryStartIsAccepted` | `Spec => []BootAccepted` |
| `ServedWhenReady` | `Spec => []ServingMeansReady` |
| `ServerKeepsBudget` | `Spec => SweepIsInvisible /\ []BudgetHolds` |
| `ServerTypeCorrect` | `Spec => []TypeOK` |
| `OneRefusalIsEnough` | `Spec => RefusedOnceTold` |
| `PublicNeedsSignIn` | `Spec => []VisitorsOnlySignIn` |

The composition is proved once: each step of `ServerProcess` is a step or a stutter of
`BootSpec` and one of `LimiterSpec` (`PartsMove`), so the process implements both
(`Composition`) and what is proved of a part holds of the whole. For the start, the
invariant is that the applied versions have no hole below any of them
(`NoHoles`), that what is planned and what is applied make up the directory
(`PlanComplete`), and that the seeds are reached only over the whole schema
(`SchemaFirst`). For the browsers (`GateInv`) it says the same of cookies, of requests under way
and of answers (`CookiesAgree`, `SentAgree`, `AnswersAgree`): an answer that refuses a live session
brings the CSRF cookie, a browser that received one has it, and so has every request it has
sent since; and a browser that never signed in has neither cookie, and carries none. Each kind
of step keeps these by a lemma of its own (`SendKeeps`, `ServeKeeps`, `ReceiveKeeps`, `CloseKeeps`).

### Weather

`WeatherProofs` assumes `WeatherParameters` (the lifetime is a natural number, and the
place of a deleted mountain is no place).

| Theorem | Statement |
|---|---|
| `TypeCorrect` | `Spec => []TypeOK` |
| `DeletionIsClean` | `Spec => []DeletedLeavesNothing` |
| `FormerPlacesFade` | `Spec => []FormerPlaceFades` |
| `ProfilesAreAnswered` | `FairSpec /\ []NobodyIsBlocked => ProfileNeverWaits` |
| `FormerPlacesAreLetGo` | `FairSpec`, answers of Open-Meteo, `[]NobodyIsBlocked` and `[]EveryFetchIsOpen` imply that once calm each goroutine lets go of former places for good |
| `RightPlaceIsKept` | once calm and with no former place in hand, a forecast of the right place stays one |

`FormerPlaceFades` is not inductive: a store may bring a forecast of a former place
at any moment. The strengthening is that whoever holds former coordinates keeps
`quiet` at zero (`HoldersAreCounted`), so that what it stores is old enough.

`ProfileNeverWaits` is proved without a word about Open-Meteo: a profile request is never at
a fetch (`ProfilesOnlyRead`), whatever refreshes wait beside it. Of `ComesBackLive` both halves are
proved: the goroutines let go of former places (`FormerPlacesAreLetGo`), and from then on no store
undoes a forecast of the right place (`RightPlaceIsKept`).

### Model-checked only

Every safety invariant, action property and refinement of a passing run is a theorem.
Of the three liveness properties `ProfileNeverWaits` is proved in general and `EveryDecisionSettles` for
up to three handlers; what stays with TLC is

* `ComesBackLive` as a whole: that the expiring forecast is at some time replaced takes an
  induction over its age, and the halves take an exchange of "for each goroutine" with
  "from some moment on" over a set of any finite size;
* `EveryDecisionSettles` for more handlers, for the second reason;
* that the actions are enabled when the hypotheses of the progress theorems say so
  (`NobodyIsBlocked`, `EveryFetchIsOpen`): ENABLED is beyond the provers. TLC finds both true in every
  state of `partner_live` and `weather`.

The properties of the failing runs are false of the code, so there is nothing to prove of them; what is
true in their place is proved for `partner_accept` (`FollowUpsNeverHappen`) and `server_visitors`
(`PublicNeedsSignIn`).

## 6. Not modelled

* Public catalogue reads other than the lookups that the weather needs, search,
  feeds and listings: they read and format. What the feed and the read of a post by id show
  is in `JourneyModeration` as what they filter on (`Listed`, `ServedById`).
* Blocks: an idempotent insert and delete; no code asks whether a user is
  blocked. Contact channels: one upsert. Read marks of notifications.
* `RequireAdmin` (it reads the session's user), CORS, language, request ids,
  security headers, recovery, error bodies.
* Google sign-in: `main.go` configures no verifier, so its route answers an error.
* The event bus: nothing publishes or subscribes.
* The SQL of the migrations beyond the tables, types, cascades and triggers that the
  other modules use; down migrations, which nothing calls; the settings that no
  service treats specially; logging.
* MinIO, SMTP, the password hash, image sniffing, pure value types.

## 7. Plan

Done: the partner context, identity, and journey and moderation, each with its abstract
specification; badges; the catalogue; the weather cache; the limiter with
its abstract specification; the process with the middleware chain, composed. Each has its
proofs, the refinements among them.

Next, in this order:

1. An abstract specification for the announcement hook: what a user may be told, and when.
2. Blocks, once some code asks whether a user is blocked.
