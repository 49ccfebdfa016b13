----------------------------- MODULE WeatherProofs -----------------------------
(***************************************************************************)
(* Proofs about WeatherCache, for any number of requests and refreshes, any*)
(* places and any lifetime of a forecast.                                  *)
(***************************************************************************)
EXTENDS WeatherCache, TLAPS

(* What a task holds is of the present place, or the last change is fresh. *)
HoldersAreCounted == \A t \in Tasks : HoldsFormer(t) => quiet = 0

IndInv == TypeOK /\ DeletedLeavesNothing /\ FormerPlaceFades /\ HoldersAreCounted

(* The fields of a task, by where it is.                                   *)
LEMMA TaskKind ==
    ASSUME TypeOK, NEW t \in Tasks
    PROVE  /\ At(t, "get") => /\ tasks[t].kind \in {"profile", "weather"}
                              /\ tasks[t].place \in Places
           /\ At(t, "fetch") => /\ tasks[t].kind \in {"profile", "weather", "refresh"}
                                /\ tasks[t].place \in Places
           /\ At(t, "store") => /\ tasks[t].kind \in {"profile", "weather", "refresh"}
                                /\ tasks[t].snapshot \in Snapshots
BY DEF TypeOK, Task, At, Idle

(* What the handlers make of a task is a task.                             *)
LEMMA TaskTypes ==
    /\ Idle \in Task \cup {Idle}
    /\ [pc |-> "find", kind |-> "refresh"] \in Task
    /\ \A k \in {"profile", "weather"}, q \in Places :
          [pc |-> "get", kind |-> k, place |-> q] \in Task
    /\ \A k \in {"profile", "weather", "refresh"}, q \in Places : Fetching(k, q) \in Task
    /\ \A k \in {"profile", "weather", "refresh"}, s \in Snapshots :
          [pc |-> "store", kind |-> k, snapshot |-> s] \in Task
BY DEF Task, Fetching

(* An age stays an age as it grows.                                        *)
LEMMA AgesGrow ==
    ASSUME NEW a \in Ages
    PROVE  Older(a) \in Ages /\ Older(a) >= a
BY WeatherParameters DEF Ages, Older

(* Ageing keeps the place and the order of two ages.                       *)
LEMMA AgedSnapshot ==
    ASSUME NEW s \in Snapshots, NEW a \in Ages
    PROVE  /\ Aged(s) \in Snapshots
           /\ Aged(s).place = s.place
           /\ s.age >= a => Aged(s).age >= Older(a)
           /\ Aged(s).age >= s.age /\ Aged(s).age >= 0
<1>1. s.age \in Ages /\ s.place \in Places
  BY DEF Snapshots
<1>2. Aged(s) = [place |-> s.place, age |-> Older(s.age)]
  BY DEF Aged, Snapshots
<1>3. QED
  BY <1>1, <1>2, WeatherParameters DEF Snapshots, Ages, Older

(* Replacing one task by one that holds nothing but the present place.     *)
LEMMA OneTask ==
    ASSUME IndInv, NEW t \in Tasks, NEW new \in Task \cup {Idle},
           tasks' = [tasks EXCEPT ![t] = new],
           UNCHANGED <<place, row, quiet, calm>>,
           HoldsFormer(t)' => HoldsFormer(t)
    PROVE  IndInv'
<1>1. TypeOK'
  BY DEF IndInv, TypeOK
<1>2. DeletedLeavesNothing' /\ FormerPlaceFades'
  BY DEF IndInv, DeletedLeavesNothing, FormerPlaceFades
<1>3. ASSUME NEW u \in Tasks, HoldsFormer(u)'
      PROVE  quiet' = 0
  <2>1. CASE u = t
    BY <1>3, <2>1 DEF IndInv, HoldersAreCounted
  <2>2. CASE u # t
    <3>1. tasks'[u] = tasks[u]
      BY <2>2 DEF IndInv, TypeOK
    <3>2. HoldsFormer(u)
      BY <1>3, <3>1 DEF HoldsFormer, At
    <3>3. QED
      BY <3>2 DEF IndInv, HoldersAreCounted
  <2>3. QED
    BY <2>1, <2>2
<1>4. QED
  BY <1>1, <1>2, <1>3 DEF IndInv, HoldersAreCounted

(* What a reader that found no row goes on with.                           *)
LEMMA MissKeepsPlace ==
    ASSUME IndInv, NEW p \in Readers, At(p, "get"),
           tasks' = [tasks EXCEPT ![p] = AfterMiss(p)],
           UNCHANGED <<place, row, quiet, calm>>
    PROVE  IndInv'
<1>1. tasks[p].place \in Places /\ p \in Tasks
  BY TaskKind DEF IndInv, Tasks
<1>2. AfterMiss(p) \in Task \cup {Idle}
  BY <1>1, TaskTypes DEF AfterMiss
<1>3. tasks'[p] = AfterMiss(p)
  BY <1>1 DEF IndInv, TypeOK
<1>4. HoldsFormer(p)' => HoldsFormer(p)
  BY <1>1, <1>3 DEF HoldsFormer, At, AfterMiss, Fetching, Idle
<1>5. QED
  BY <1>1, <1>2, <1>4, OneTask

(* A stale read answers and starts a refresh, which holds no place yet.    *)
LEMMA SpawnHoldsNothing ==
    ASSUME IndInv, NEW p \in Tasks, NEW g \in Tasks,
           tasks' = [tasks EXCEPT ![p] = Idle, ![g] = [pc |-> "find", kind |-> "refresh"]],
           UNCHANGED <<place, row, quiet, calm>>
    PROVE  IndInv'
<1>1. TypeOK'
  BY TaskTypes DEF IndInv, TypeOK
<1>2. DeletedLeavesNothing' /\ FormerPlaceFades'
  BY DEF IndInv, DeletedLeavesNothing, FormerPlaceFades
<1>3. ASSUME NEW u \in Tasks, HoldsFormer(u)'
      PROVE  quiet' = 0
  <2>1. u # p /\ u # g
    BY <1>3 DEF HoldsFormer, At, Idle, IndInv, TypeOK
  <2>2. tasks'[u] = tasks[u]
    BY <2>1 DEF IndInv, TypeOK
  <2>3. HoldsFormer(u)
    BY <1>3, <2>2 DEF HoldsFormer, At
  <2>4. QED
    BY <2>3 DEF IndInv, HoldersAreCounted
<1>4. QED
  BY <1>1, <1>2, <1>3 DEF IndInv, HoldersAreCounted

(* A request begins.                                                       *)
LEMMA StepFind ==
    ASSUME IndInv, NEW p \in Readers, NEW kind \in {"profile", "weather"}, Find(p, kind)
    PROVE  IndInv'
<1> DEFINE new == IF place = Gone THEN Idle ELSE [pc |-> "get", kind |-> kind, place |-> place]
<1>1. p \in Tasks /\ tasks' = [tasks EXCEPT ![p] = new]
  BY DEF Find, Tasks, IndInv, TypeOK
<1>2. new \in Task \cup {Idle}
  BY TaskTypes DEF IndInv, TypeOK
<1>3. ~ HoldsFormer(p)'
  <2>1. tasks'[p] = new /\ place' = place
    BY <1>1 DEF Find, IndInv, TypeOK
  <2>2. QED
    BY <2>1 DEF HoldsFormer, At, Idle
<1> HIDE DEF new
<1>4. QED
  BY <1>1, <1>2, <1>3, OneTask DEF Find

(* A request reads the row.                                                *)
LEMMA StepGet ==
    ASSUME IndInv, NEW p \in Readers, Get(p)
    PROVE  IndInv'
<1>1. p \in Tasks /\ At(p, "get") /\ UNCHANGED <<place, row, quiet, calm>>
  BY DEF Get, Tasks
<1>2. CASE \E g \in Refreshers :
             tasks' = [tasks EXCEPT ![p] = Idle, ![g] = [pc |-> "find", kind |-> "refresh"]]
  BY <1>1, <1>2, SpawnHoldsNothing DEF Tasks
<1>3. CASE tasks' = [tasks EXCEPT ![p] = AfterMiss(p)]
  BY <1>1, <1>3, MissKeepsPlace
<1>4. CASE tasks' = [tasks EXCEPT ![p] = Idle]
  <2>1. ~ HoldsFormer(p)'
    BY <1>1, <1>4 DEF HoldsFormer, Idle, IndInv, TypeOK
  <2>2. QED
    BY <1>1, <1>4, <2>1, TaskTypes, OneTask
<1>5. QED
  BY <1>2, <1>3, <1>4 DEF Get

(* A refresh reads the mountain.                                           *)
LEMMA StepFindByID ==
    ASSUME IndInv, NEW g \in Refreshers, FindByID(g)
    PROVE  IndInv'
<1> DEFINE new == IF place = Gone THEN Idle ELSE Fetching("refresh", place)
<1>1. g \in Tasks /\ tasks' = [tasks EXCEPT ![g] = new] /\ UNCHANGED <<place, row, quiet, calm>>
  BY DEF FindByID, Tasks
<1>2. new \in Task \cup {Idle}
  BY TaskTypes DEF IndInv, TypeOK
<1>3. ~ HoldsFormer(g)'
  <2>1. tasks'[g] = new /\ place' = place
    BY <1>1 DEF IndInv, TypeOK
  <2>2. QED
    BY <2>1 DEF HoldsFormer, At, Idle, Fetching
<1> HIDE DEF new
<1>4. QED
  BY <1>1, <1>2, <1>3, OneTask

(* A fetch is answered.                                                    *)
LEMMA StepFetch ==
    ASSUME IndInv, NEW t \in Tasks, Fetch(t)
    PROVE  IndInv'
<1> DEFINE snap == [place |-> tasks[t].place, age |-> 0]
           new == [pc |-> "store", kind |-> tasks[t].kind, snapshot |-> snap]
<1>1. /\ tasks[t].kind \in {"profile", "weather", "refresh"}
      /\ tasks[t].place \in Places
  BY TaskKind DEF Fetch, IndInv
<1>2. snap \in Snapshots
  BY <1>1, WeatherParameters DEF Snapshots, Ages
<1>3. new \in Task
  BY <1>1, <1>2, TaskTypes
<1>4. tasks' = [tasks EXCEPT ![t] = new] /\ UNCHANGED <<place, row, quiet, calm>>
  BY DEF Fetch
<1>5. HoldsFormer(t)' => HoldsFormer(t)
  <2>1. tasks'[t] = new
    BY <1>4 DEF IndInv, TypeOK
  <2>2. QED
    BY <1>4, <2>1 DEF HoldsFormer, At, Fetch, Idle
<1> HIDE DEF new
<1>6. QED
  BY <1>3, <1>4, <1>5, OneTask

(* What is stored is of the present place, or quiet is 0.                  *)
LEMMA StepStore ==
    ASSUME IndInv, NEW t \in Tasks, Store(t)
    PROVE  IndInv'
<1>1. tasks[t].snapshot \in Snapshots /\ At(t, "store")
  BY TaskKind DEF Store, IndInv
<1>2. /\ row' = IF place = Gone THEN row ELSE tasks[t].snapshot
      /\ tasks' = [tasks EXCEPT ![t] = Idle]
      /\ UNCHANGED <<place, quiet, calm>>
  BY DEF Store, Upsert
<1>3. TypeOK'
  BY <1>1, <1>2, TaskTypes DEF IndInv, TypeOK
<1>4. DeletedLeavesNothing'
  BY <1>2 DEF IndInv, DeletedLeavesNothing
<1>5. FormerPlaceFades'
  <2>1. tasks[t].snapshot.place # place => quiet = 0
    BY <1>1 DEF IndInv, HoldersAreCounted, HoldsFormer, At, Idle
  <2>2. tasks[t].snapshot.age >= 0
    BY <1>1 DEF Snapshots, Ages
  <2>3. QED
    BY <1>2, <2>1, <2>2 DEF IndInv, FormerPlaceFades
<1>6. ASSUME NEW u \in Tasks, HoldsFormer(u)'
      PROVE  quiet' = 0
  <2>1. u # t /\ tasks'[u] = tasks[u]
    BY <1>2, <1>6 DEF HoldsFormer, At, Idle, IndInv, TypeOK
  <2>2. HoldsFormer(u)
    BY <1>2, <1>6, <2>1 DEF HoldsFormer, At
  <2>3. QED
    BY <1>2, <2>2 DEF IndInv, HoldersAreCounted
<1>7. QED
  BY <1>3, <1>4, <1>5, <1>6 DEF IndInv, HoldersAreCounted

(* A task ends without a result.                                           *)
LEMMA StepFails ==
    ASSUME IndInv, NEW t \in Tasks, Fails(t)
    PROVE  IndInv'
<1>1. tasks' = [tasks EXCEPT ![t] = Idle] /\ UNCHANGED <<place, row, quiet, calm>>
  BY DEF Fails
<1>2. ~ HoldsFormer(t)'
  BY <1>1 DEF HoldsFormer, Idle, IndInv, TypeOK
<1>3. QED
  BY <1>1, <1>2, TaskTypes, OneTask

(* Time ages what is stored and what is about to be, and counts only while *)
(* nobody holds a former place.                                            *)
LEMMA StepTick ==
    ASSUME IndInv, Tick
    PROVE  IndInv'
<1> DEFINE aged(t) == IF At(t, "store") THEN [tasks[t] EXCEPT !.snapshot = Aged(@)] ELSE tasks[t]
<1>1. /\ row' = IF row = Absent THEN Absent ELSE Aged(row)
      /\ tasks' = [t \in Tasks |-> aged(t)]
      /\ quiet' = IF \E t \in Tasks : HoldsFormer(t) THEN 0 ELSE Older(quiet)
      /\ UNCHANGED <<place, calm>>
  BY DEF Tick
<1>2. quiet \in Ages /\ (row # Absent => row \in Snapshots)
  BY DEF IndInv, TypeOK
<1>3. quiet' \in Ages
  BY <1>1, <1>2, AgesGrow, WeatherParameters DEF Ages
<1>4. ASSUME NEW t \in Tasks
      PROVE  /\ aged(t) \in Task \cup {Idle}
             /\ HoldsFormer(t)' => HoldsFormer(t)
  <2>1. CASE At(t, "store")
    <3> DEFINE new == [pc |-> "store", kind |-> tasks[t].kind,
                       snapshot |-> Aged(tasks[t].snapshot)]
    <3>1. /\ tasks[t].kind \in {"profile", "weather", "refresh"}
          /\ tasks[t].snapshot \in Snapshots
      BY <2>1, TaskKind DEF IndInv
    <3>2. tasks[t] = [pc |-> "store", kind |-> tasks[t].kind, snapshot |-> tasks[t].snapshot]
      BY <2>1 DEF IndInv, TypeOK, Task, At, Idle
    <3>3. aged(t) = new
      BY <2>1, <3>2
    <3>4. /\ Aged(tasks[t].snapshot) \in Snapshots
          /\ Aged(tasks[t].snapshot).place = tasks[t].snapshot.place
      BY <1>2, <3>1, AgedSnapshot
    <3>5. new \in Task
      BY <3>1, <3>4, TaskTypes
    <3>6. tasks'[t] = new /\ place' = place
      BY <1>1, <3>3
    <3>7. QED
      BY <2>1, <3>3, <3>4, <3>5, <3>6 DEF HoldsFormer, At, Idle
  <2>2. CASE ~ At(t, "store")
    <3>1. aged(t) = tasks[t]
      BY <2>2
    <3>2. tasks'[t] = tasks[t] /\ place' = place
      BY <1>1, <3>1
    <3>3. QED
      BY <3>1, <3>2 DEF HoldsFormer, At, IndInv, TypeOK
  <2>3. QED
    BY <2>1, <2>2
<1> HIDE DEF aged
<1>5. TypeOK'
  BY <1>1, <1>2, <1>3, <1>4, AgedSnapshot DEF IndInv, TypeOK
<1>6. DeletedLeavesNothing'
  BY <1>1 DEF IndInv, DeletedLeavesNothing
<1>7. FormerPlaceFades'
  <2> SUFFICES ASSUME row' # Absent, place' # Gone, row'.place # place'
               PROVE  row'.age >= quiet'
    BY DEF FormerPlaceFades
  <2>1. row # Absent /\ row \in Snapshots /\ row' = Aged(row)
    BY <1>1, <1>2
  <2>2. row.place # place /\ row.age >= quiet
    BY <1>1, <1>2, <2>1, AgedSnapshot DEF IndInv, FormerPlaceFades
  <2>3. Aged(row).age >= Older(quiet) /\ Aged(row).age >= 0
    BY <1>2, <2>1, <2>2, AgedSnapshot
  <2>4. QED
    BY <1>1, <2>1, <2>3
<1>8. HoldersAreCounted'
  BY <1>1, <1>4 DEF HoldersAreCounted
<1>9. QED
  BY <1>5, <1>6, <1>7, <1>8 DEF IndInv

(* The admin's edits, a restart and the rest.                              *)
LEMMA StepOther ==
    ASSUME IndInv,
           Delete \/ Restart \/ CalmDown \/ UNCHANGED vars \/ \E q \in Places : Move(q)
    PROVE  IndInv'
<1>1. CASE \E q \in Places : Move(q)
  BY <1>1, WeatherParameters
  DEF Move, IndInv, TypeOK, DeletedLeavesNothing, FormerPlaceFades, HoldersAreCounted,
      Ages, Snapshots
<1>2. CASE Delete
  BY <1>2, WeatherParameters
  DEF Delete, IndInv, TypeOK, DeletedLeavesNothing, FormerPlaceFades, HoldersAreCounted, Ages
<1>3. CASE Restart
  BY <1>3 DEF Restart, IndInv, TypeOK, DeletedLeavesNothing, FormerPlaceFades,
              HoldersAreCounted, HoldsFormer, Idle
<1>4. CASE CalmDown \/ UNCHANGED vars
  BY <1>4 DEF CalmDown, vars, IndInv, TypeOK, DeletedLeavesNothing, FormerPlaceFades,
              HoldersAreCounted, HoldsFormer, At
<1>5. QED
  BY <1>1, <1>2, <1>3, <1>4

(* The invariant holds throughout.                                         *)
LEMMA Inductive == Spec => []IndInv
<1>1. Init => IndInv
  <2> SUFFICES ASSUME Init PROVE IndInv
    OBVIOUS
  <2>1. TypeOK
    <3>1. 0 \in Ages
      BY WeatherParameters DEF Ages
    <3>2. tasks \in [Tasks -> Task \cup {Idle}]
      BY DEF Init
    <3>3. calm \in BOOLEAN
      BY DEF Init
    <3>4. QED
      BY <3>1, <3>2, <3>3 DEF Init, TypeOK
  <2>2. DeletedLeavesNothing /\ FormerPlaceFades
    BY DEF Init, DeletedLeavesNothing, FormerPlaceFades
  <2>3. HoldersAreCounted
    BY DEF Init, HoldersAreCounted
  <2>4. QED
    BY <2>1, <2>2, <2>3 DEF IndInv
<1>2. IndInv /\ [Next]_vars => IndInv'
  BY StepFind, StepGet, MissKeepsPlace, StepFindByID, StepFetch, StepStore, StepFails,
     StepTick, StepOther
  DEF Next, Proceed, GetFails
<1>3. QED
  BY <1>1, <1>2, PTL DEF Spec

(* Tasks, row and ages keep their types; no task ever carries a place the  *)
(* mountain could not have had.                                            *)
THEOREM TypeCorrect == Spec => []TypeOK
BY Inductive, PTL DEF IndInv

(* Upsert and AdminDelete: however refreshes and the deletion overlap, a   *)
(* deleted mountain has no forecast.                                       *)
THEOREM DeletionIsClean == Spec => []DeletedLeavesNothing
BY Inductive, PTL DEF IndInv

(* fetchAndCacheWeather: with any number of overlapping refreshes, a       *)
(* forecast of a former place is at least as old as the moment from which  *)
(* nobody could fetch one.                                                 *)
THEOREM FormerPlacesFade == Spec => []FormerPlaceFades
BY Inductive, PTL DEF IndInv

-----------------------------------------------------------------------------
(* What a step can make of one task.                                       *)

TaskMove(t) ==
    \/ tasks'[t] = tasks[t]
    \/ tasks'[t] = Idle
    \/ /\ tasks[t] = Idle /\ place # Gone
       /\ \E kind \in {"profile", "weather"} :
             tasks'[t] = [pc |-> "get", kind |-> kind, place |-> place]
    \/ tasks[t] = Idle /\ tasks'[t] = [pc |-> "find", kind |-> "refresh"]
    \/ /\ At(t, "get") /\ tasks[t].kind = "weather"
       /\ tasks'[t] = Fetching("weather", tasks[t].place)
    \/ At(t, "find") /\ place # Gone /\ tasks'[t] = Fetching("refresh", place)
    \/ \E kind \in {"profile", "weather", "refresh"}, snapshot \in Snapshots :
          /\ kind = tasks[t].kind
          /\ \/ At(t, "fetch") /\ snapshot = [place |-> tasks[t].place, age |-> 0]
             \/ At(t, "store") /\ snapshot = Aged(tasks[t].snapshot)
          /\ tasks'[t] = [pc |-> "store", kind |-> kind, snapshot |-> snapshot]

(* A step that replaces one task moves each.                               *)
LEMMA OneMoves ==
    ASSUME TypeOK, NEW u \in Tasks, NEW new, tasks' = [tasks EXCEPT ![u] = new],
           NEW t \in Tasks, t = u => TaskMove(t)
    PROVE  TaskMove(t)
<1>1. t # u => tasks'[t] = tasks[t]
  BY DEF TypeOK
<1>2. QED
  BY <1>1 DEF TaskMove

(* The steps of a request.                                                 *)
LEMMA RequestMoves ==
    ASSUME TypeOK, NEW p \in Readers, NEW t \in Tasks,
           \/ \E kind \in {"profile", "weather"} : Find(p, kind)
           \/ Get(p) \/ GetFails(p)
    PROVE  TaskMove(t)
<1>1. p \in Tasks
  BY DEF Tasks
<1>2. ASSUME NEW kind \in {"profile", "weather"}, Find(p, kind)
      PROVE  TaskMove(t)
  <2> DEFINE new == [pc |-> "get", kind |-> kind, place |-> place]
  <2>1. CASE place = Gone
    BY <1>2, <2>1 DEF Find, TaskMove
  <2>2. CASE place # Gone
    <3>1. tasks' = [tasks EXCEPT ![p] = new] /\ tasks[p] = Idle
      BY <1>2, <2>2 DEF Find
    <3>2. TaskMove(p)
      BY <1>1, <2>2, <3>1 DEF TaskMove, TypeOK
    <3> HIDE DEF new
    <3>3. QED
      BY <1>1, <3>1, <3>2, OneMoves
  <2>3. QED
    BY <2>1, <2>2
<1>3. ASSUME At(p, "get"), tasks' = [tasks EXCEPT ![p] = AfterMiss(p)]
      PROVE  TaskMove(t)
  <2>1. tasks'[p] = AfterMiss(p)
    BY <1>1, <1>3 DEF TypeOK
  <2>2. TaskMove(p)
    BY <1>3, <2>1 DEF TaskMove, AfterMiss
  <2>3. QED
    BY <1>1, <1>3, <2>2, OneMoves
<1>4. ASSUME tasks' = [tasks EXCEPT ![p] = Idle]
      PROVE  TaskMove(t)
  <2>1. TaskMove(p)
    BY <1>1, <1>4 DEF TaskMove, TypeOK
  <2>2. QED
    BY <1>1, <1>4, <2>1, OneMoves
<1>5. ASSUME NEW g \in Refreshers, tasks[g] = Idle,
             tasks' = [tasks EXCEPT ![p] = Idle,
                                    ![g] = [pc |-> "find", kind |-> "refresh"]]
      PROVE  TaskMove(t)
  <2>1. g \in Tasks
    BY DEF Tasks
  <2>2. CASE t = g
    BY <1>5, <2>1, <2>2 DEF TaskMove, TypeOK
  <2>3. CASE t # g
    BY <1>5, <2>3 DEF TaskMove, TypeOK
  <2>4. QED
    BY <2>2, <2>3
<1>6. CASE Get(p)
  <2>1. At(p, "get")
    BY <1>6 DEF Get
  <2>2. \/ \E g \in Refreshers :
              /\ tasks[g] = Idle
              /\ tasks' = [tasks EXCEPT ![p] = Idle,
                                        ![g] = [pc |-> "find", kind |-> "refresh"]]
        \/ tasks' = [tasks EXCEPT ![p] = AfterMiss(p)]
        \/ tasks' = [tasks EXCEPT ![p] = Idle]
    BY <1>6 DEF Get
  <2>3. QED
    BY <1>3, <1>4, <1>5, <2>1, <2>2
<1>7. CASE GetFails(p)
  BY <1>3, <1>7 DEF GetFails
<1>8. QED
  BY <1>2, <1>6, <1>7

(* The steps of a fetch.                                                   *)
LEMMA FetchMoves ==
    ASSUME TypeOK, NEW u \in Tasks, NEW t \in Tasks,
           FindByID(u) \/ Fetch(u) \/ Store(u) \/ Fails(u)
    PROVE  TaskMove(t)
<1>1. ASSUME tasks' = [tasks EXCEPT ![u] = Idle]
      PROVE  TaskMove(t)
  <2>1. TaskMove(u)
    BY <1>1 DEF TaskMove, TypeOK
  <2>2. QED
    BY <1>1, <2>1, OneMoves
<1>2. CASE FindByID(u)
  <2>1. CASE place = Gone
    BY <1>1, <1>2, <2>1 DEF FindByID
  <2>2. CASE place # Gone
    <3>1. tasks' = [tasks EXCEPT ![u] = Fetching("refresh", place)]
      BY <1>2, <2>2 DEF FindByID
    <3>2. TaskMove(u)
      BY <1>2, <2>2, <3>1 DEF TaskMove, FindByID, TypeOK
    <3>3. QED
      BY <3>1, <3>2, OneMoves
  <2>3. QED
    BY <2>1, <2>2
<1>3. CASE Fetch(u)
  <2> DEFINE new == [pc |-> "store", kind |-> tasks[u].kind,
                     snapshot |-> [place |-> tasks[u].place, age |-> 0]]
  <2>1. tasks' = [tasks EXCEPT ![u] = new]
    BY <1>3 DEF Fetch
  <2>2. /\ At(u, "fetch") /\ tasks[u].kind \in {"profile", "weather", "refresh"}
        /\ [place |-> tasks[u].place, age |-> 0] \in Snapshots
    BY <1>3, TaskKind, WeatherParameters DEF Fetch, Snapshots, Ages
  <2>3. tasks'[u] = new
    BY <2>1 DEF TypeOK
  <2>4. TaskMove(u)
    BY <2>2, <2>3 DEF TaskMove
  <2> HIDE DEF new
  <2>5. QED
    BY <2>1, <2>4, OneMoves
<1>4. CASE Store(u) \/ Fails(u)
  BY <1>1, <1>4 DEF Store, Fails
<1>5. QED
  BY <1>2, <1>3, <1>4

(* Every step moves a task in these ways.                                  *)
LEMMA TaskSteps ==
    ASSUME TypeOK, [Next]_vars, NEW t \in Tasks
    PROVE  TaskMove(t)
<1>1. CASE Tick
  <2>1. CASE At(t, "store")
    <3>1. tasks'[t] = [tasks[t] EXCEPT !.snapshot = Aged(@)]
      BY <1>1, <2>1 DEF Tick
    <3>2. tasks[t] \in [pc: {"store"}, kind: {"profile", "weather", "refresh"},
                        snapshot: Snapshots]
      BY <2>1 DEF TypeOK, Task, At, Idle
    <3>3. tasks'[t] = [pc |-> "store", kind |-> tasks[t].kind,
                      snapshot |-> Aged(tasks[t].snapshot)]
      BY <3>1, <3>2
    <3>4. tasks[t].snapshot.age \in Ages
      BY <3>2 DEF Snapshots
    <3>5. QED
      BY <2>1, <3>2, <3>3, <3>4, AgedSnapshot DEF TaskMove
  <2>2. CASE ~ At(t, "store")
    BY <1>1, <2>2 DEF Tick, TaskMove
  <2>3. QED
    BY <2>1, <2>2
<1>2. CASE Restart
  BY <1>2 DEF Restart, TaskMove
<1>3. CASE UNCHANGED tasks
  BY <1>3 DEF TaskMove
<1>4. ASSUME NEW p \in Readers, NEW kind \in {"profile", "weather"}, Find(p, kind)
      PROVE  TaskMove(t)
  BY <1>4, RequestMoves
<1>5. ASSUME NEW u \in Tasks, Proceed(u) \/ Fetch(u) \/ Fails(u)
      PROVE  TaskMove(t)
  BY <1>5, RequestMoves, FetchMoves DEF Proceed
<1>6. QED
  BY <1>1, <1>2, <1>3, <1>4, <1>5 DEF Next, Move, Delete, CalmDown, vars

-----------------------------------------------------------------------------
(* Profiles.                                                               *)

(* A profile reads the row and does no more: it is never the one that      *)
(* fetches.                                                                *)
ProfilesRead == \A t \in Tasks : ServesProfile(t) => At(t, "get")

(* No step sends a profile to Open-Meteo.                                  *)
LEMMA ProfilesStayReaders ==
    ASSUME TypeOK, ProfilesRead, [Next]_vars
    PROVE  ProfilesRead'
<1> SUFFICES ASSUME NEW t \in Tasks, ServesProfile(t)'
             PROVE  At(t, "get")'
  BY DEF ProfilesRead
<1>1. TaskMove(t)
  BY TaskSteps
<1>2. tasks'[t] # Idle /\ tasks'[t].kind = "profile"
  BY DEF ServesProfile
<1>3. CASE tasks'[t] = tasks[t]
  BY <1>3 DEF ServesProfile, ProfilesRead, At
<1>4. CASE \E kind \in {"profile", "weather", "refresh"}, snapshot \in Snapshots :
             /\ kind = tasks[t].kind
             /\ At(t, "fetch") \/ At(t, "store")
             /\ tasks'[t] = [pc |-> "store", kind |-> kind, snapshot |-> snapshot]
  <2>1. tasks[t].kind = "profile" /\ tasks[t] # Idle
    BY <1>2, <1>4 DEF At, Idle
  <2>2. At(t, "get")
    BY <2>1 DEF ProfilesRead, ServesProfile
  <2>3. QED
    BY <1>4, <2>2 DEF At
<1>5. CASE \E q : \/ tasks'[t] = Fetching("weather", q)
                  \/ tasks'[t] = Fetching("refresh", q)
                  \/ tasks'[t] = [pc |-> "find", kind |-> "refresh"]
  BY <1>2, <1>5 DEF Fetching
<1>6. CASE \E kind : tasks'[t] = [pc |-> "get", kind |-> kind, place |-> place]
  BY <1>6 DEF At
<1>7. QED
  BY <1>1, <1>2, <1>3, <1>4, <1>5, <1>6 DEF TaskMove

(* A profile that goes on is answered.                                     *)
LEMMA ProfileProceeds ==
    ASSUME TypeOK, ProfilesRead, NEW p \in Readers, ServesProfile(p), Proceed(p)
    PROVE  tasks'[p] = Idle
<1>1. p \in Tasks
  BY DEF Tasks
<1>2. At(p, "get") /\ tasks[p].kind = "profile"
  BY <1>1 DEF ProfilesRead, ServesProfile
<1>3. AfterMiss(p) = Idle
  BY <1>2 DEF AfterMiss
<1>4. Get(p) \/ GetFails(p)
  BY <1>2 DEF Proceed, FindByID, Store, At
<1>5. ASSUME NEW g \in Refreshers, tasks[g] = Idle,
             tasks' = [tasks EXCEPT ![p] = Idle,
                                    ![g] = [pc |-> "find", kind |-> "refresh"]]
      PROVE  tasks'[p] = Idle
  <2>1. g # p
    BY <1>5 DEF ServesProfile
  <2>2. QED
    BY <1>1, <1>5, <2>1 DEF TypeOK
<1>6. QED
  BY <1>1, <1>3, <1>4, <1>5 DEF Get, GetFails, TypeOK

(* Profiles only ever read.                                                *)
LEMMA ProfilesOnlyRead == Spec => []ProfilesRead
<1>1. Init => ProfilesRead
  BY DEF Init, ProfilesRead, ServesProfile
<1>2. IndInv /\ ProfilesRead /\ [Next]_vars => ProfilesRead'
  BY ProfilesStayReaders DEF IndInv
<1>3. QED
  BY <1>1, <1>2, Inductive, PTL DEF Spec

(* What the provers cannot say of the actions: a goroutine whose next step *)
(* is not Open-Meteo's can always take it.                                 *)
CanProceed(t) == ENABLED <<Proceed(t)>>_vars

NobodyIsBlocked ==
    \A t \in Tasks : At(t, "get") \/ At(t, "find") \/ At(t, "store") => CanProceed(t)

(* One profile.                                                            *)
LEMMA OneProfileEnds ==
    ASSUME NEW p \in Readers
    PROVE  Spec /\ []NobodyIsBlocked /\ Runs(p) => ProfileEnds(p)
<1> DEFINE busy == ServesProfile(p)
           done == tasks[p] = Idle
<1>1. p \in Tasks
  BY DEF Tasks
<1>2. NobodyIsBlocked /\ ProfilesRead /\ busy => CanProceed(p)
  BY <1>1 DEF NobodyIsBlocked, ProfilesRead
<1>3. IndInv /\ ProfilesRead /\ busy /\ <<Proceed(p)>>_vars => done'
  BY ProfileProceeds DEF IndInv
<1>4. IndInv /\ ProfilesRead /\ busy /\ [Next]_vars => busy' \/ done'
  <2> SUFFICES ASSUME IndInv, ProfilesRead, busy, [Next]_vars
               PROVE  busy' \/ done'
    OBVIOUS
  <2>1. TaskMove(p)
    BY <1>1, TaskSteps DEF IndInv
  <2>2. At(p, "get") /\ tasks[p].kind = "profile" /\ tasks[p] # Idle
    BY <1>1 DEF ProfilesRead, ServesProfile
  <2>3. QED
    BY <2>1, <2>2 DEF TaskMove, ServesProfile, At
<1> HIDE DEF busy, done
<1>5. Spec /\ []NobodyIsBlocked /\ Runs(p) => (busy ~> done)
  BY <1>2, <1>3, <1>4, Inductive, ProfilesOnlyRead, PTL DEF Spec, Runs, CanProceed
<1>6. QED
  BY <1>5 DEF ProfileEnds, busy, done

(* A profile is answered though Open-Meteo need not: getWeather's miss and *)
(* stale read never send it there, and its own next step is always its last*)
THEOREM ProfilesAreAnswered == FairSpec /\ []NobodyIsBlocked => ProfileNeverWaits
<1>1. ASSUME NEW p \in Readers
      PROVE  Spec /\ []NobodyIsBlocked /\ Runs(p) => ProfileEnds(p)
  BY OneProfileEnds
<1>2. ASSUME NEW p \in Readers, \A t \in Tasks : Runs(t)
      PROVE  Runs(p)
  BY <1>2 DEF Tasks
<1>3. QED
  BY <1>1, <1>2 DEF FairSpec, ProfileNeverWaits

-----------------------------------------------------------------------------
(* Former coordinates are let go.                                          *)

(* In the calm: a task on its way with former coordinates, and one without.*)
Carries(t, pc) == calm /\ HoldsFormer(t) /\ At(t, pc)

Free(t) == calm /\ ~ HoldsFormer(t)

LetsGo(t) == calm ~> []Free(t)

(* Likewise, a fetch under way is one that an answer can end.              *)
CanAnswer(t) == ENABLED <<Fetch(t)>>_vars

EveryFetchIsOpen == \A t \in Tasks : At(t, "fetch") => CanAnswer(t)

(* Once it is calm it stays so, and the mountain stays where it is.        *)
LEMMA CalmStays ==
    ASSUME calm, [Next]_vars
    PROVE  calm' /\ place' = place
<1>1. ASSUME NEW p \in Readers, NEW kind \in {"profile", "weather"}, Find(p, kind)
      PROVE  calm' /\ place' = place
  BY <1>1 DEF Find
<1>2. ASSUME NEW t \in Tasks, Proceed(t) \/ Fetch(t) \/ Fails(t)
      PROVE  calm' /\ place' = place
  BY <1>2 DEF Proceed, Get, GetFails, FindByID, Store, Fetch, Fails
<1>3. QED
  BY <1>1, <1>2 DEF Next, Tick, Move, Delete, Restart, CalmDown, vars

(* A task comes by coordinates only by reading the present ones, and with  *)
(* former ones it only goes on.                                            *)
LEMMA CarriersGoOn ==
    ASSUME TypeOK, calm, [Next]_vars, NEW t \in Tasks
    PROVE  /\ calm'
           /\ HoldsFormer(t)' => HoldsFormer(t)
           /\ HoldsFormer(t)' /\ At(t, "get") => At(t, "get")' \/ At(t, "fetch")'
           /\ HoldsFormer(t)' /\ At(t, "fetch") => At(t, "fetch")' \/ At(t, "store")'
           /\ HoldsFormer(t)' /\ At(t, "store") => At(t, "store")'
<1>1. calm' /\ place' = place /\ TaskMove(t)
  BY CalmStays, TaskSteps
<1> SUFFICES ASSUME HoldsFormer(t)'
             PROVE  /\ HoldsFormer(t)
                    /\ At(t, "get") => At(t, "get")' \/ At(t, "fetch")'
                    /\ At(t, "fetch") => At(t, "fetch")' \/ At(t, "store")'
                    /\ At(t, "store") => At(t, "store")'
  BY <1>1
<1>2. CASE tasks'[t] = tasks[t]
  BY <1>1, <1>2 DEF HoldsFormer, At
<1>3. tasks'[t] # Idle /\ tasks'[t] # [pc |-> "find", kind |-> "refresh"]
  BY DEF HoldsFormer, At
<1>4. ASSUME NEW kind
      PROVE  tasks'[t] # [pc |-> "get", kind |-> kind, place |-> place]
  BY <1>1 DEF HoldsFormer, At
<1>5. tasks'[t] # Fetching("refresh", place)
  BY <1>1 DEF HoldsFormer, At, Fetching
<1>6. CASE At(t, "get") /\ tasks'[t] = Fetching("weather", tasks[t].place)
  BY <1>1, <1>6 DEF HoldsFormer, At, Fetching, Idle
<1>7. CASE \E kind : /\ At(t, "fetch")
                     /\ tasks'[t] = [pc |-> "store", kind |-> kind,
                                     snapshot |-> [place |-> tasks[t].place, age |-> 0]]
  BY <1>1, <1>7 DEF HoldsFormer, At, Idle
<1>8. CASE \E kind : /\ At(t, "store")
                     /\ tasks'[t] = [pc |-> "store", kind |-> kind,
                                     snapshot |-> Aged(tasks[t].snapshot)]
  <2>1. tasks[t].snapshot \in Snapshots /\ tasks[t].snapshot.age \in Ages
    BY <1>8, TaskKind DEF Snapshots
  <2>2. Aged(tasks[t].snapshot).place = tasks[t].snapshot.place
    BY <2>1, AgedSnapshot
  <2>3. QED
    BY <1>1, <1>8, <2>2 DEF HoldsFormer, At, Idle
<1>9. QED
  BY <1>1, <1>2, <1>3, <1>4, <1>5, <1>6, <1>7, <1>8 DEF TaskMove

(* What carries former coordinates is a request or a fetch.                *)
LEMMA CarriersStages ==
    ASSUME TypeOK, NEW t \in Tasks, HoldsFormer(t)
    PROVE  At(t, "get") \/ At(t, "fetch") \/ At(t, "store")
BY DEF TypeOK, Task, HoldsFormer, At

(* Each of its own steps brings a carrier nearer to its end.               *)
LEMMA CarriersAdvance ==
    ASSUME TypeOK, NEW t \in Tasks
    PROVE  /\ At(t, "get") /\ Proceed(t) => ~ At(t, "get")'
           /\ At(t, "fetch") /\ Fetch(t) => ~ At(t, "fetch")'
           /\ At(t, "store") /\ Proceed(t) => ~ At(t, "store")'
<1>1. ASSUME At(t, "get"), Proceed(t)
      PROVE  ~ At(t, "get")'
  <2>1. t \in Readers /\ (Get(t) \/ GetFails(t))
    BY <1>1 DEF Proceed, FindByID, Store, At
  <2>2. ASSUME NEW g \in Refreshers, tasks[g] = Idle,
               tasks' = [tasks EXCEPT ![t] = Idle,
                                      ![g] = [pc |-> "find", kind |-> "refresh"]]
        PROVE  ~ At(t, "get")'
    BY <2>2 DEF TypeOK, At, Idle
  <2>3. ASSUME tasks' = [tasks EXCEPT ![t] = AfterMiss(t)]
        PROVE  ~ At(t, "get")'
    BY <2>3 DEF TypeOK, At, Idle, AfterMiss, Fetching
  <2>4. ASSUME tasks' = [tasks EXCEPT ![t] = Idle]
        PROVE  ~ At(t, "get")'
    BY <2>4 DEF TypeOK, At, Idle
  <2>5. QED
    BY <2>1, <2>2, <2>3, <2>4 DEF Get, GetFails
<1>2. ASSUME At(t, "fetch"), Fetch(t)
      PROVE  ~ At(t, "fetch")'
  <2> DEFINE new == [pc |-> "store", kind |-> tasks[t].kind,
                     snapshot |-> [place |-> tasks[t].place, age |-> 0]]
  <2>1. tasks' = [tasks EXCEPT ![t] = new]
    BY <1>2 DEF Fetch
  <2>2. tasks'[t] = new
    BY <2>1 DEF TypeOK
  <2>3. QED
    BY <2>2 DEF At
<1>3. ASSUME At(t, "store"), Proceed(t)
      PROVE  ~ At(t, "store")'
  <2>1. Store(t)
    BY <1>3 DEF Proceed, Get, GetFails, FindByID, At
  <2>2. QED
    BY <2>1 DEF Store, TypeOK, At, Idle
<1>4. QED
  BY <1>1, <1>2, <1>3

(* One task: from each stage to the next, and out.                         *)
LEMMA OneLetsGo ==
    ASSUME NEW t \in Tasks
    PROVE  Spec /\ []NobodyIsBlocked /\ []EveryFetchIsOpen /\ Runs(t) /\ Answers(t)
              => LetsGo(t)
<1> DEFINE g == Carries(t, "get")
           f == Carries(t, "fetch")
           s == Carries(t, "store")
           d == Free(t)
<1>1. TypeOK /\ calm => g \/ f \/ s \/ d
  BY CarriersStages DEF Carries, Free
<1>2. TypeOK /\ d /\ [Next]_vars => d'
  BY CarriersGoOn DEF Free
<1>3. TypeOK /\ g /\ [Next]_vars => (g \/ f \/ d)'
  BY CarriersGoOn DEF Carries, Free
<1>4. TypeOK /\ f /\ [Next]_vars => (f \/ s \/ d)'
  BY CarriersGoOn DEF Carries, Free
<1>5. TypeOK /\ s /\ [Next]_vars => (s \/ d)'
  BY CarriersGoOn DEF Carries, Free
<1>6. TypeOK /\ g /\ <<Proceed(t)>>_vars => ~ g'
  BY CarriersAdvance DEF Carries
<1>7. TypeOK /\ f /\ <<Fetch(t)>>_vars => ~ f'
  BY CarriersAdvance DEF Carries
<1>8. TypeOK /\ s /\ <<Proceed(t)>>_vars => ~ s'
  BY CarriersAdvance DEF Carries
<1>9. NobodyIsBlocked => (g \/ s => CanProceed(t))
  BY DEF NobodyIsBlocked, Carries
<1>10. EveryFetchIsOpen => (f => CanAnswer(t))
  BY DEF EveryFetchIsOpen, Carries
<1>11. IndInv => TypeOK
  BY DEF IndInv
<1> HIDE DEF g, f, s, d
<1>12. Spec /\ []NobodyIsBlocked /\ []EveryFetchIsOpen /\ Runs(t) /\ Answers(t)
          => (calm ~> []d)
  BY <1>1, <1>2, <1>3, <1>4, <1>5, <1>6, <1>7, <1>8, <1>9, <1>10, <1>11, Inductive, PTL
  DEF Spec, Runs, Answers, CanProceed, CanAnswer
<1>13. QED
  BY <1>12 DEF LetsGo, d

(* The first half of ComesBackLive: when edits, crashes and failures have  *)
(* ended and Open-Meteo answers, every goroutine lets go of coordinates the*)
(* mountain no longer has, for good.                                       *)
THEOREM FormerPlacesAreLetGo ==
    FairSpec /\ (\A t \in Tasks : Answers(t)) /\ []NobodyIsBlocked /\ []EveryFetchIsOpen
        => \A t \in Tasks : LetsGo(t)
BY OneLetsGo DEF FairSpec

(* No edits, failures or crashes any more, and no coordinates of the past. *)
Clear == calm /\ \A t \in Tasks : ~ HoldsFormer(t)

HasRightPlace == place # Gone /\ row # Absent /\ row.place = place

(* From then on it stays so, and a forecast for the right place is never   *)
(* again replaced by one for another or lost.                              *)
RightPlaceStays ==
    [][Clear => Clear' /\ (HasRightPlace => HasRightPlace')]_vars

(* The row is only ever written by a tick, a store or the deletion.        *)
LEMMA RowSteps ==
    ASSUME [Next]_vars
    PROVE  \/ row' = row
           \/ row # Absent /\ row' = Aged(row)
           \/ \E t \in Tasks : Store(t)
           \/ ~ calm
<1>1. ASSUME NEW p \in Readers, NEW kind \in {"profile", "weather"}, Find(p, kind)
      PROVE  row' = row
  BY <1>1 DEF Find
<1>2. ASSUME NEW t \in Tasks, Proceed(t) \/ Fetch(t) \/ Fails(t)
      PROVE  row' = row \/ Store(t)
  BY <1>2 DEF Proceed, Get, GetFails, FindByID, Fetch, Fails
<1>3. QED
  BY <1>1, <1>2 DEF Next, Tick, Move, Delete, Restart, CalmDown, vars

(* The second half: whatever fetches are still under way, and in whatever  *)
(* order they store, none undoes a forecast for the right place.           *)
THEOREM RightPlaceIsKept == Spec => RightPlaceStays
<1>1. ASSUME IndInv, Clear, [Next]_vars
      PROVE  Clear' /\ (HasRightPlace => HasRightPlace')
  <2>1. TypeOK /\ calm' /\ place' = place
    BY <1>1, CalmStays DEF IndInv, Clear
  <2>2. Clear'
    BY <1>1, <2>1, CarriersGoOn DEF Clear
  <2>3. ASSUME HasRightPlace
        PROVE  HasRightPlace'
    <3>1. row \in Snapshots /\ row.age \in Ages
      BY <2>1, <2>3 DEF TypeOK, HasRightPlace, Snapshots
    <3>2. CASE row' = row
      BY <2>1, <2>3, <3>2 DEF HasRightPlace
    <3>3. CASE row' = Aged(row)
      <4>1. row'.place = row.place /\ row' \in Snapshots
        BY <3>1, <3>3, AgedSnapshot
      <4>2. row' # Absent
        BY <4>1, WeatherParameters DEF Snapshots, Absent
      <4>3. QED
        BY <2>1, <2>3, <4>1, <4>2 DEF HasRightPlace
    <3>4. ASSUME NEW t \in Tasks, Store(t)
          PROVE  HasRightPlace'
      <4>1. At(t, "store") /\ ~ HoldsFormer(t) /\ row' = tasks[t].snapshot
        BY <1>1, <2>3, <3>4 DEF Store, Upsert, Clear, HasRightPlace
      <4>2. tasks[t].snapshot \in Snapshots /\ tasks[t].snapshot.place = place
        BY <2>1, <4>1, TaskKind DEF HoldsFormer, At, Idle
      <4>3. row' # Absent
        BY <4>1, <4>2, WeatherParameters DEF Snapshots, Absent
      <4>4. QED
        BY <2>1, <2>3, <4>1, <4>2, <4>3 DEF HasRightPlace
    <3>5. QED
      BY <1>1, <3>2, <3>3, <3>4, RowSteps DEF Clear
  <2>4. QED
    BY <2>2, <2>3
<1>2. QED
  BY <1>1, Inductive, PTL DEF Spec, RightPlaceStays

=============================================================================
