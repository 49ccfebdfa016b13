-------------------------- MODULE BadgeNotifications --------------------------
(***************************************************************************)
(* Badge announcements: the hook that RecordHike fires after it has logged *)
(* a hike (evaluateAndNotifyBadges, at the composition root) compares the  *)
(* badges the user has earned with the highest threshold found among the   *)
(* user's newest notifications, and records one notification for each      *)
(* badge above it.  It joins the journey, achievement and notification     *)
(* contexts and keeps no state of its own.                                 *)
(*                                                                         *)
(* One user: every statement is scoped to the user.  Of a badge the model  *)
(* keeps the threshold; nothing but its key is unique, so badges may share *)
(* one.  Each repository call is one step; hooks of the user's concurrent  *)
(* requests, moderation and deletions come between them.                   *)
(***************************************************************************)
EXTENDS Naturals, Sequences, FiniteSets

CONSTANTS
    Mountains,
    HikeIds,        \* bounds the hikes ever recorded
    Seeded,         \* thresholds of the seeded badges, in their sort order
    Added,          \* thresholds of the badges an administrator may add
    MaxBadges,      \* bounds the badges there ever are
    PageSize,       \* how many of the newest notifications the hook reads (100)
    MaxNotices,     \* bounds the notifications the user ever gets
    Handlers        \* slots for in-flight RecordHike requests

Thresholds == {Seeded[i] : i \in 1..Len(Seeded)} \cup Added

(* A threshold is at least 1 (0004_achievement.sql, adminBadgeInput).      *)
ASSUME BadgeConstants ==
    /\ Seeded \in Seq(Nat \ {0}) /\ Added \subseteq Nat \ {0}
    /\ MaxBadges \in Nat
    /\ IsFiniteSet(Mountains)
    /\ PageSize \in Nat \ {0} /\ MaxNotices \in Nat

VARIABLES
    hikes,          \* the user's rows of hike_log_entries
    badges,         \* the active rows of badge_configs, in sort order
    notices,        \* the user's notifications, newest last: the threshold
                    \* of a badge_earned one, 0 for any other type
    handlers,       \* what each in-flight hook holds and does next
    best,           \* history: the highest count the user ever had
    pages           \* history: for each notification, those its hook had read

vars == <<hikes, badges, notices, handlers, best, pages>>

-----------------------------------------------------------------------------

Absent == [status |-> "absent"]
Deleted == [status |-> "deleted"]

HikeLogEntry ==
    [status: {"verified", "unverified", "removed"}, mountain: Mountains]

Idle == [pc |-> "idle"]

(* todo are the places of the badges that the loop has still to record.    *)
(* goal, skipped and page are history: the earned badges; a record of the  *)
(* loop failed; the places of the notifications that the hook read.        *)
Recording ==
    [pc: {"record"}, badges: Seq(Thresholds), todo: SUBSET Nat,
     goal: SUBSET Thresholds, skipped: BOOLEAN, page: SUBSET Nat]

TypeOK ==
    /\ hikes \in [HikeIds -> HikeLogEntry \cup {Absent, Deleted}]
    /\ badges \in Seq(Thresholds)
    /\ notices \in Seq(Thresholds \cup {0}) /\ Len(notices) <= MaxNotices
    /\ handlers \in [Handlers ->
          {Idle} \cup [pc: {"count"}] \cup [pc: {"badges"}, count: Nat]
             \cup [pc: {"list"}, count: Nat, badges: Seq(Thresholds)] \cup Recording]
    /\ best \in Nat
    /\ pages \in Seq(SUBSET Nat) /\ Len(pages) = Len(notices)

Init ==
    /\ hikes = [h \in HikeIds |-> Absent]
    /\ badges = Seeded
    /\ notices = <<>>
    /\ handlers = [p \in Handlers |-> Idle]
    /\ best = 0
    /\ pages = <<>>

-----------------------------------------------------------------------------
(* Queries.                                                                *)

(* Mutant of CountVerifiedDistinctMountains: hikes are counted.            *)
CountVerifiedHikes(log) ==
    Cardinality({h \in HikeIds : log[h].status = "verified"})

CountVerifiedDistinctMountains(log) ==
    Cardinality({log[h].mountain : h \in {i \in HikeIds : log[i].status = "verified"}})

Elements(s) == {s[i] : i \in DOMAIN s}

(* The places of the newest page of the notifications, and what is on it.  *)
NewestPage == {i \in DOMAIN notices : i + PageSize > Len(notices)}
Newest == {notices[i] : i \in NewestPage}

(* Mutant of NotifiedAt: the last badge announced, not the highest.        *)
NotifiedFirst ==
    LET announced == {t \in Newest : t > 0} IN
    IF announced = {} THEN 0 ELSE CHOOSE t \in announced : \A s \in announced : t <= s

(* The highest threshold announced on that page.                           *)
NotifiedAt ==
    IF Newest = {} THEN 0 ELSE CHOOSE t \in Newest : \A s \in Newest : s <= t

(* Mutant of ToRecord: a lower badge waits for the ones above it.          *)
ToRecordOnlyNext(all, count, notifiedAt) ==
    {i \in DOMAIN all : all[i] <= count /\ all[i] > notifiedAt
                        /\ \A s \in Elements(all) : s < all[i] => s <= notifiedAt}

(* Where the badges are that are earned and above notifiedAt.              *)
ToRecord(all, count, notifiedAt) ==
    {i \in DOMAIN all : all[i] <= count /\ all[i] > notifiedAt}

-----------------------------------------------------------------------------

Continue(p, held) == handlers' = [handlers EXCEPT ![p] = held]
At(p, pc) == handlers[p].pc = pc

(* How many mountains the user has a verified hike of.                     *)
Climbed(log) ==
    Cardinality({m \in Mountains :
        \E h \in HikeIds : log[h].status = "verified" /\ log[h].mountain = m})

(* A write of the hike log, with the history of the count.                 *)
WriteHike(h, row) ==
    /\ hikes' = [hikes EXCEPT ![h] = row]
    /\ best' = IF Climbed(hikes') > best THEN Climbed(hikes') ELSE best

(* RecordHike logs the hike and fires the hook.                            *)
RecordHike(p, h, m, status) ==
    /\ At(p, "idle")
    /\ hikes[h] = Absent
    /\ WriteHike(h, [status |-> status, mountain |-> m])
    /\ Continue(p, [pc |-> "count"])
    /\ UNCHANGED <<badges, notices, pages>>

(* Mutant of RemoveEvidence: a status the column's type does not have.     *)
RemoveEvidenceRejected(h) ==
    /\ hikes[h].status \in {"verified", "unverified"}
    /\ WriteHike(h, [hikes[h] EXCEPT !.status = "rejected"])
    /\ UNCHANGED <<badges, notices, handlers, pages>>

RemoveEvidence(h) ==
    /\ hikes[h].status \in {"verified", "unverified"}
    /\ WriteHike(h, [hikes[h] EXCEPT !.status = "removed"])
    /\ UNCHANGED <<badges, notices, handlers, pages>>

DeleteMyHike(h) ==
    /\ hikes[h].status \notin {"absent", "deleted"}
    /\ WriteHike(h, Deleted)
    /\ UNCHANGED <<badges, notices, handlers, pages>>

(* AdminUpsertBadge with a new key, at any place in the sort order and with*)
(* any threshold, a taken one too.  With a known key the UPDATE fires the  *)
(* users trigger, which raises.                                            *)
AddBadge(t, i) ==
    /\ Len(badges) < MaxBadges
    /\ badges' = SubSeq(badges, 1, i) \o <<t>> \o SubSeq(badges, i + 1, Len(badges))
    /\ UNCHANGED <<hikes, notices, handlers, best, pages>>

(* Service.Record, with the history of what its caller had read.           *)
Record(t, page) ==
    /\ Len(notices) < MaxNotices
    /\ notices' = Append(notices, t)
    /\ pages' = Append(pages, page)

(* Partner and moderation notifications.                                   *)
RecordOther ==
    /\ Record(0, {})
    /\ UNCHANGED <<hikes, badges, handlers, best>>

-----------------------------------------------------------------------------
(* The hook.                                                               *)

GetCount(p) ==
    /\ At(p, "count")
    /\ Continue(p, [pc |-> "badges", count |-> CountVerifiedDistinctMountains(hikes)])
    /\ UNCHANGED <<hikes, badges, notices, best, pages>>

GetActive(p) ==
    /\ At(p, "badges")
    /\ Continue(p, [pc |-> "list", count |-> handlers[p].count, badges |-> badges])
    /\ UNCHANGED <<hikes, badges, notices, best, pages>>

StartRecording(p, notifiedAt, page) ==
    LET h == handlers[p] IN
    Continue(p, [pc |-> "record", badges |-> h.badges,
                 todo |-> ToRecord(h.badges, h.count, notifiedAt),
                 goal |-> {t \in Elements(h.badges) : t <= h.count},
                 skipped |-> FALSE, page |-> page])

ListNotices(p) ==
    /\ At(p, "list")
    /\ StartRecording(p, NotifiedAt, NewestPage)
    /\ UNCHANGED <<hikes, badges, notices, best, pages>>

(* When the listing fails, nothing counts as announced.                    *)
ListFails(p) ==
    /\ At(p, "list")
    /\ StartRecording(p, 0, {})
    /\ UNCHANGED <<hikes, badges, notices, best, pages>>

(* The badge at i is the next of those to record: the list is in order.    *)
IsNext(p, i) == i \in handlers[p].todo /\ \A j \in handlers[p].todo : i <= j

RecordBadge(p) ==
    /\ At(p, "record")
    /\ \E i \in handlers[p].todo :
          /\ IsNext(p, i)
          /\ Record(handlers[p].badges[i], handlers[p].page)
          /\ Continue(p, [handlers[p] EXCEPT !.todo = @ \ {i}])
    /\ UNCHANGED <<hikes, badges, best>>

(* The error of a record is dropped and the loop goes on.                  *)
RecordFails(p) ==
    /\ At(p, "record")
    /\ \E i \in handlers[p].todo :
          /\ IsNext(p, i)
          /\ Continue(p, [handlers[p] EXCEPT !.todo = @ \ {i}, !.skipped = TRUE])
    /\ UNCHANGED <<hikes, badges, notices, best, pages>>

HookReturns(p) ==
    /\ At(p, "record")
    /\ handlers[p].todo = {}
    /\ Continue(p, Idle)
    /\ UNCHANGED <<hikes, badges, notices, best, pages>>

(* A failed count or badge query ends the hook; a crash ends every hook.   *)
QueryFails(p) ==
    /\ At(p, "count") \/ At(p, "badges")
    /\ Continue(p, Idle)
    /\ UNCHANGED <<hikes, badges, notices, best, pages>>

Restart ==
    /\ handlers' = [p \in Handlers |-> Idle]
    /\ UNCHANGED <<hikes, badges, notices, best, pages>>

-----------------------------------------------------------------------------

Next ==
    \/ \E p \in Handlers, h \in HikeIds, m \in Mountains,
          status \in {"verified", "unverified"} : RecordHike(p, h, m, status)
    \/ \E h \in HikeIds : RemoveEvidence(h) \/ DeleteMyHike(h)
    \/ \E t \in Added, i \in 0..Len(badges) : AddBadge(t, i)
    \/ RecordOther
    \/ \E p \in Handlers :
          \/ GetCount(p) \/ GetActive(p) \/ ListNotices(p) \/ ListFails(p)
          \/ RecordBadge(p) \/ RecordFails(p) \/ HookReturns(p) \/ QueryFails(p)
    \/ Restart

Spec == Init /\ [][Next]_vars

-----------------------------------------------------------------------------
(* Properties.                                                             *)

(* A badge is announced only to a user who had reached its threshold in    *)
(* distinct mountains with verified hikes, although count, badges and      *)
(* notifications are read by separate statements while hikes come and go.  *)
AnnouncedWasReached == \A i \in DOMAIN notices : notices[i] <= best

(* The thresholds that the hook is still to record.                        *)
Pending(p) == {handlers[p].badges[i] : i \in handlers[p].todo}

(* A hook none of whose records failed leaves no earned badge unannounced: *)
(* each one it found earned has a notification, or lies below one that has,*)
(* in whatever order the administrator sorted the badges.                  *)
EarnedIsCovered ==
    \A p \in Handlers :
        At(p, "record") /\ ~ handlers[p].skipped =>
            \A t \in handlers[p].goal :
                \/ t \in Pending(p)
                \/ \E i \in DOMAIN notices : notices[i] >= t

(* "Re-recording requires the count to reach a strictly higher tier": of   *)
(* every badge notification the user ever got, those that its hook had read*)
(* announced strictly lower thresholds, whatever was recorded since.  So a *)
(* threshold comes twice only where no hook could see it: by the same call,*)
(* of badges that share it; by hooks that overlap; after PageSize others;  *)
(* or after a listing that failed.                                         *)
HigherTierOnly ==
    \A j \in DOMAIN notices :
        notices[j] > 0 => \A i \in pages[j] : notices[i] < notices[j]

=============================================================================
