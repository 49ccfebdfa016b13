------------------------------ MODULE WeatherCache ------------------------------
(***************************************************************************)
(* The forecast of one mountain: a row of mountain_weather that profile    *)
(* and weather requests read, that a stale read refreshes in a goroutine of*)
(* its own, and that a weather request fetches itself when there is none.  *)
(*                                                                         *)
(* Every task is one goroutine.  A forecast is known by the place it is for*)
(* (the coordinates that were read) and its age since CapturedAt, counted  *)
(* up to one past the lifetime: older forecasts behave alike.              *)
(*                                                                         *)
(* Abstracted: the payload, and the other blocks of a profile.  External:  *)
(* Open-Meteo, whose answers may take forever (http.Get has no timeout),   *)
(* and the admin's edit of the coordinates and deletion (MountainCatalogue)*)
(***************************************************************************)
EXTENDS Integers

CONSTANTS
    Readers,        \* requests at a time
    Refreshers,     \* background refreshes at a time; one more is not modelled
    Places,         \* coordinates the mountain may be given
    WeatherTTL,     \* in ticks
    Gone            \* place of a deleted mountain

ASSUME WeatherParameters == WeatherTTL \in Nat /\ Gone \notin Places

VARIABLES
    place,          \* the mountain's coordinates
    row,            \* its row of mountain_weather
    tasks,          \* the goroutines
    quiet,          \* ticks since a forecast of a former place could begin or be under way
    calm            \* disturbances are over: only ComesBackLive asks for it

vars == <<place, row, tasks, quiet, calm>>

-----------------------------------------------------------------------------

Ages == 0..(WeatherTTL + 1)

Snapshots == [place: Places, age: Ages]

Absent == [place |-> Gone]

Idle == [pc |-> "idle"]

Tasks == Readers \cup Refreshers

Task == [pc: {"get"}, kind: {"profile", "weather"}, place: Places]
   \cup [pc: {"find"}, kind: {"refresh"}]
   \cup [pc: {"fetch"}, kind: {"profile", "weather", "refresh"}, place: Places]
   \cup [pc: {"store"}, kind: {"profile", "weather", "refresh"}, snapshot: Snapshots]

TypeOK ==
    /\ place \in Places \cup {Gone}
    /\ row \in Snapshots \cup {Absent}
    /\ tasks \in [Tasks -> Task \cup {Idle}]
    /\ quiet \in Ages
    /\ calm \in BOOLEAN

Init ==
    /\ place \in Places
    /\ row = Absent
    /\ tasks = [t \in Tasks |-> Idle]
    /\ quiet = 0
    /\ calm = FALSE

At(t, pc) == tasks[t].pc = pc

Older(age) == IF age > WeatherTTL THEN age ELSE age + 1

Aged(snapshot) == [snapshot EXCEPT !.age = Older(@)]

(* Now is after ExpiresAt.                                                 *)
Expired(snapshot) == snapshot.age > WeatherTTL

(* fetchAndCacheWeather begins with the coordinates of the mountain given. *)
Fetching(kind, from) == [pc |-> "fetch", kind |-> kind, place |-> from]

-----------------------------------------------------------------------------
(* The two requests.                                                       *)

(* FindBySlug.  404 when the mountain is gone.                             *)
Find(p, kind) ==
    /\ tasks[p] = Idle
    /\ tasks' = IF place = Gone THEN tasks
                ELSE [tasks EXCEPT ![p] = [pc |-> "get", kind |-> kind, place |-> place]]
    /\ UNCHANGED <<place, row, quiet, calm>>

(* No row, or none that could be read: a profile goes without, a weather   *)
(* request fetches.                                                        *)
AfterMiss(p) ==
    IF tasks[p].kind = "weather" THEN Fetching("weather", tasks[p].place) ELSE Idle

(* Mutant of Get: a stale forecast is refreshed before it is answered.     *)
GetBlocking(p) ==
    /\ At(p, "get")
    /\ tasks' = [tasks EXCEPT ![p] =
          IF row = Absent THEN AfterMiss(p)
          ELSE IF Expired(row) THEN Fetching(tasks[p].kind, tasks[p].place) ELSE Idle]
    /\ UNCHANGED <<place, row, quiet, calm>>

(* getWeather.  What is found is the answer, whatever its age; each stale  *)
(* read starts a refresh.                                                  *)
Get(p) ==
    /\ At(p, "get")
    /\ LET free == {g \in Refreshers : tasks[g] = Idle} IN
       IF row # Absent /\ Expired(row) /\ free # {}
       THEN \E g \in free :
               tasks' = [tasks EXCEPT ![p] = Idle,
                                      ![g] = [pc |-> "find", kind |-> "refresh"]]
       ELSE tasks' = [tasks EXCEPT ![p] = IF row = Absent THEN AfterMiss(p) ELSE Idle]
    /\ UNCHANGED <<place, row, quiet, calm>>

GetFails(p) ==
    /\ ~ calm
    /\ At(p, "get")
    /\ tasks' = [tasks EXCEPT ![p] = AfterMiss(p)]
    /\ UNCHANGED <<place, row, quiet, calm>>

-----------------------------------------------------------------------------
(* Refreshing.                                                             *)

(* Mutant of FindByID: the error is not looked at.                         *)
FindByIDUnchecked(g) ==
    /\ At(g, "find")
    /\ tasks' = [tasks EXCEPT ![g] = Fetching("refresh", place)]
    /\ UNCHANGED <<place, row, quiet, calm>>

(* Mutant of FindByID: the forecast is fetched again for where it was for. *)
FindByIDCached(g) ==
    /\ At(g, "find")
    /\ tasks' = [tasks EXCEPT ![g] = IF row = Absent THEN Idle ELSE Fetching("refresh", row.place)]
    /\ UNCHANGED <<place, row, quiet, calm>>

FindByID(g) ==
    /\ At(g, "find")
    /\ tasks' = [tasks EXCEPT ![g] = IF place = Gone THEN Idle ELSE Fetching("refresh", place)]
    /\ UNCHANGED <<place, row, quiet, calm>>

(* Open-Meteo answers; the forecast is captured now.                       *)
Fetch(t) ==
    /\ At(t, "fetch")
    /\ tasks' = [tasks EXCEPT ![t] =
          [pc |-> "store", kind |-> @.kind, snapshot |-> [place |-> @.place, age |-> 0]]]
    /\ UNCHANGED <<place, row, quiet, calm>>

(* Mutant of Upsert: a row that is there stays.                            *)
UpsertIfAbsent(snapshot) ==
    row' = IF place = Gone \/ row # Absent THEN row ELSE snapshot

(* Mutant of Upsert: the table without its foreign key.                    *)
UpsertLoose(snapshot) == row' = snapshot

(* The row's foreign key refuses a forecast of a deleted mountain.         *)
Upsert(snapshot) == row' = IF place = Gone THEN row ELSE snapshot

(* The error of the upsert is dropped, and the task is done.               *)
Store(t) ==
    /\ At(t, "store")
    /\ Upsert(tasks[t].snapshot)
    /\ tasks' = [tasks EXCEPT ![t] = Idle]
    /\ UNCHANGED <<place, quiet, calm>>

(* A failed lookup, a refused fetch or a failed upsert ends the task.      *)
Fails(t) ==
    /\ ~ calm
    /\ At(t, "find") \/ At(t, "fetch") \/ At(t, "store")
    /\ tasks' = [tasks EXCEPT ![t] = Idle]
    /\ UNCHANGED <<place, row, quiet, calm>>

-----------------------------------------------------------------------------
(* Everything else.                                                        *)

(* Coordinates that a task holds and the mountain no longer has.           *)
HoldsFormer(t) ==
    /\ tasks[t] # Idle /\ ~ At(t, "find")
    /\ place # IF At(t, "store") THEN tasks[t].snapshot.place ELSE tasks[t].place

(* In the calm a store takes less than a tick.                             *)
Tick ==
    /\ calm => \A t \in Tasks : ~ At(t, "store")
    /\ row' = IF row = Absent THEN Absent ELSE Aged(row)
    /\ tasks' = [t \in Tasks |->
          IF At(t, "store") THEN [tasks[t] EXCEPT !.snapshot = Aged(@)] ELSE tasks[t]]
    /\ quiet' = IF \E t \in Tasks : HoldsFormer(t) THEN 0 ELSE Older(quiet)
    /\ UNCHANGED <<place, calm>>

(* AdminUpdate: nothing tells the cache.                                   *)
Move(q) ==
    /\ ~ calm
    /\ place \notin {q, Gone}
    /\ place' = q
    /\ quiet' = 0
    /\ UNCHANGED <<row, tasks, calm>>

(* AdminDelete: the row goes with the mountain.                            *)
Delete ==
    /\ ~ calm
    /\ place # Gone
    /\ place' = Gone
    /\ row' = Absent
    /\ quiet' = 0
    /\ UNCHANGED <<tasks, calm>>

Restart ==
    /\ ~ calm
    /\ tasks' = [t \in Tasks |-> Idle]
    /\ UNCHANGED <<place, row, quiet, calm>>

(* From some moment on there are no edits, failures and crashes.           *)
CalmDown ==
    /\ ~ calm
    /\ calm' = TRUE
    /\ UNCHANGED <<place, row, tasks, quiet>>

(* What a goroutine does without Open-Meteo.                               *)
Proceed(t) ==
    \/ t \in Readers /\ (Get(t) \/ GetFails(t))
    \/ t \in Refreshers /\ FindByID(t)
    \/ Store(t)

Next ==
    \/ \E p \in Readers, kind \in {"profile", "weather"} : Find(p, kind)
    \/ \E t \in Tasks : Proceed(t) \/ Fetch(t) \/ Fails(t)
    \/ Tick
    \/ \E q \in Places : Move(q)
    \/ Delete
    \/ Restart \/ CalmDown

Spec == Init /\ [][Next]_vars

(* The goroutine keeps running, and its calls on the pool return.          *)
Runs(t) == WF_vars(Proceed(t))

(* Open-Meteo answers the goroutine.                                       *)
Answers(t) == WF_vars(Fetch(t))

TimePasses == WF_vars(Tick)

(* Nothing is assumed of Open-Meteo.                                       *)
FairSpec == Spec /\ TimePasses /\ \A t \in Tasks : Runs(t)

-----------------------------------------------------------------------------
(* Properties.                                                             *)

(* A refresh that outlives its mountain leaves no forecast behind: the     *)
(* refresh is not part of the request nor of the deletion.                 *)
DeletedLeavesNothing == place = Gone => row = Absent

(* An edit of the coordinates leaves the cached forecast alone, and        *)
(* fetches under way may still store one for the former place.  But once   *)
(* they are through, no forecast of a former place is captured: what is    *)
(* served is at least as old as that moment, so after WeatherTTL it is     *)
(* served as stale and refreshed for the right place.                      *)
FormerPlaceFades ==
    row # Absent /\ place # Gone /\ row.place # place => row.age >= quiet

ServesProfile(p) == tasks[p] # Idle /\ tasks[p].kind = "profile"

ProfileEnds(p) == ServesProfile(p) ~> tasks[p] = Idle

(* A profile is answered even if Open-Meteo never answers again.           *)
ProfileNeverWaits == \A p \in Readers : ProfileEnds(p)

(* When edits, crashes and failures have ended, and if Open-Meteo then     *)
(* answers and weather requests keep coming, the cache always comes back to*)
(* a live forecast of the right place: though nobody waits for a refresh,  *)
(* nobody retries one that failed, and several of them may store their     *)
(* results in any order.                                                   *)
ComesBackLive ==
    /\ <>calm
    /\ \A t \in Tasks : Answers(t)
    /\ []<><<\E p \in Readers : Find(p, "weather")>>_vars
    => []<>(place = Gone \/ (row # Absent /\ ~ Expired(row) /\ row.place = place))

=============================================================================
