----------------------------- MODULE BadgeProofs -----------------------------
(***************************************************************************)
(* Proofs about BadgeNotifications, for any mountains, badges, pages and   *)
(* hooks, and notifications and hikes without bound.                       *)
(***************************************************************************)
EXTENDS BadgeNotifications, FiniteSetTheorems, SequenceTheorems, TLAPS

-----------------------------------------------------------------------------
(* The invariant.                                                          *)

HandlerStates ==
    {Idle} \cup [pc: {"count"}] \cup [pc: {"badges"}, count: Nat]
    \cup [pc: {"list"}, count: Nat, badges: Seq(Thresholds)] \cup Recording

(* What a hook has read is true of the user, of any notifications and best *)
(* count: what it counted and will record was reached, what it found       *)
(* earned is covered, or will be, and what it will record is above what it *)
(* read.                                                                   *)
HookSound(h, ns, b) ==
    /\ h.pc \in {"badges", "list"} => h.count <= b
    /\ h.pc = "record" =>
          /\ h.todo \subseteq DOMAIN h.badges
          /\ \A i \in h.todo : h.badges[i] <= b
          /\ ~ h.skipped =>
                \A t \in h.goal : \/ \E i \in h.todo : t = h.badges[i]
                                  \/ \E i \in DOMAIN ns : ns[i] >= t
          /\ h.page \subseteq DOMAIN ns
          /\ \A i \in h.todo : \A j \in h.page : ns[j] < h.badges[i]

HooksSound == \A p \in Handlers : HookSound(handlers[p], notices, best)

(* Of the newest notifications, however many, one is the highest.          *)
Page(k) == {i \in DOMAIN notices : i > k}

PagesHaveMax ==
    \A k \in Int : Page(k) # {} => \E i \in Page(k) : \A j \in Page(k) : notices[j] <= notices[i]

BestCovers == Climbed(hikes) <= best

(* What a hook had read came before what it recorded, and is below it.     *)
PagesSound ==
    \A j \in DOMAIN notices : notices[j] > 0 =>
        /\ pages[j] \subseteq DOMAIN notices
        /\ \A i \in pages[j] : notices[i] < notices[j]

IndInv ==
    /\ TypeOK /\ BestCovers /\ PagesSound
    /\ AnnouncedWasReached /\ PagesHaveMax /\ HooksSound

-----------------------------------------------------------------------------
(* Counts, pages and lists.                                                *)

(* Thresholds are positive.                                                *)
LEMMA ThresholdTypes == Thresholds \subseteq Nat \ {0}
<1>1. \A i \in 1..Len(Seeded) : Seeded[i] \in Nat \ {0}
  BY BadgeConstants, ElementOfSeq
<1> QED
  BY <1>1, BadgeConstants DEF Thresholds

(* The count of a log is a number, and both queries are the same.          *)
LEMMA CountTypes ==
    ASSUME NEW log \in [HikeIds -> HikeLogEntry \cup {Absent, Deleted}]
    PROVE  Climbed(log) \in Nat /\ CountVerifiedDistinctMountains(log) = Climbed(log)
<1> DEFINE M == {m \in Mountains :
                    \E h \in HikeIds : log[h].status = "verified" /\ log[h].mountain = m}
           Q == {log[h].mountain : h \in {i \in HikeIds : log[i].status = "verified"}}
<1>1. M \in SUBSET Mountains
  OBVIOUS
<1>2. Cardinality(M) \in Nat
  <2> HIDE DEF M
  <2> QED
    BY <1>1, FS_Subset, FS_CardinalityType, BadgeConstants
<1>3. ASSUME NEW h \in HikeIds, log[h].status = "verified"
      PROVE  log[h].mountain \in Mountains
  BY <1>3 DEF HikeLogEntry, Absent, Deleted
<1>4. Q = M
  BY <1>3
<1> QED
  BY <1>2, <1>4 DEF Climbed, CountVerifiedDistinctMountains

(* A sequence that grew by one.                                            *)
LEMMA Appended ==
    ASSUME NEW S, NEW s \in Seq(S), NEW x \in S
    PROVE  /\ Append(s, x) \in Seq(S) /\ Len(Append(s, x)) = Len(s) + 1
           /\ DOMAIN Append(s, x) = DOMAIN s \cup {Len(s) + 1}
           /\ \A i \in DOMAIN s : Append(s, x)[i] = s[i]
           /\ Append(s, x)[Len(s) + 1] = x
           /\ \A i \in DOMAIN s : i \in Nat /\ i < Len(s) + 1
OBVIOUS

(* A list of badges with a new one put in.                                 *)
LEMMA Inserted ==
    ASSUME NEW s \in Seq(Thresholds), NEW t \in Thresholds, NEW i \in 0..Len(s)
    PROVE  SubSeq(s, 1, i) \o <<t>> \o SubSeq(s, i + 1, Len(s)) \in Seq(Thresholds)
<1> DEFINE a == SubSeq(s, 1, i)
           c == SubSeq(s, i + 1, Len(s))
<1>1. Len(s) \in Nat /\ i \in Nat /\ i <= Len(s) /\ \A j \in 1..Len(s) : s[j] \in Thresholds
  OBVIOUS
<1>2. a \in Seq(Thresholds)
  BY <1>1, SubSeqProperties
<1>3. c \in Seq(Thresholds)
  <2>1. \A j \in (i + 1)..Len(s) : s[j] \in Thresholds
    BY <1>1
  <2> QED
    BY <1>1, <2>1, SubSeqProperties
<1>4. <<t>> \in Seq(Thresholds)
  OBVIOUS
<1> HIDE DEF a, c
<1>5. a \o <<t>> \o c \in Seq(Thresholds)
  BY <1>2, <1>3, <1>4
<1> QED
  BY <1>5 DEF a, c

(* Notifications are thresholds or zero.                                   *)
LEMMA NoticeTypes ==
    ASSUME TypeOK
    PROVE  \A i \in DOMAIN notices :
              notices[i] \in Thresholds \cup {0} /\ notices[i] \in Nat
<1>1. notices \in Seq(Thresholds \cup {0})
  BY DEF TypeOK
<1>2. \A i \in DOMAIN notices : notices[i] \in Thresholds \cup {0}
  BY <1>1, ElementOfSeq
<1>3. \A x \in Thresholds \cup {0} : x \in Nat
  BY ThresholdTypes
<1> QED
  BY <1>2, <1>3

(* Nothing on the newest page, or the highest announced on it.             *)
LEMMA NotifiedIsMax ==
    ASSUME TypeOK, PagesHaveMax
    PROVE  /\ NotifiedAt \in Nat
           /\ NotifiedAt # 0 => \E i \in DOMAIN notices : notices[i] = NotifiedAt
           /\ \A i \in DOMAIN notices : i + PageSize > Len(notices) => notices[i] <= NotifiedAt
<1> DEFINE k == Len(notices) - PageSize
<1>1. /\ notices \in Seq(Thresholds \cup {0}) /\ Len(notices) \in Nat /\ PageSize \in Nat
      /\ DOMAIN notices = 1..Len(notices) /\ k \in Int
      /\ \A i \in DOMAIN notices : notices[i] \in Nat
  <2>1. /\ notices \in Seq(Thresholds \cup {0}) /\ Len(notices) \in Nat /\ PageSize \in Nat
        /\ DOMAIN notices = 1..Len(notices)
    BY BadgeConstants DEF TypeOK
  <2>2. k \in Int
    BY <2>1
  <2> QED
    BY <2>1, <2>2, NoticeTypes
<1>2. Newest = {notices[i] : i \in Page(k)}
      /\ Page(k) = {j \in DOMAIN notices : j + PageSize > Len(notices)}
  BY <1>1 DEF Newest, NewestPage, Page
<1>3. CASE Newest = {}
  BY <1>1, <1>2, <1>3 DEF NotifiedAt
<1>4. CASE Newest # {}
  <2>1. \E t \in Newest : \A s \in Newest : s <= t
    <3> PICK i \in Page(k) : \A j \in Page(k) : notices[j] <= notices[i]
      BY <1>1, <1>2, <1>4 DEF PagesHaveMax
    <3> QED
      BY <1>2
  <2>2. NotifiedAt \in Newest /\ \A s \in Newest : s <= NotifiedAt
    BY <1>4, <2>1 DEF NotifiedAt
  <2> QED
    BY <1>1, <1>2, <2>2 DEF Page
<1> QED
  BY <1>3, <1>4

-----------------------------------------------------------------------------
(* What a step does to the hooks.                                          *)

(* A hook that does nothing stays sound while the best count grows.        *)
LEMMA WaitingStays ==
    ASSUME NEW h \in HandlerStates, NEW ns, NEW b \in Nat, NEW c \in Nat, b <= c,
           HookSound(h, ns, b)
    PROVE  HookSound(h, ns, c)
<1>1. /\ h.pc \in {"badges", "list"} => h.count \in Nat
      /\ h.pc = "record" => h.badges \in Seq(Thresholds)
  BY DEF HandlerStates, Idle, Recording
<1>2. h.pc = "record" => \A i \in DOMAIN h.badges : h.badges[i] \in Nat
  <2>1. h.pc = "record" => \A i \in DOMAIN h.badges : h.badges[i] \in Thresholds
    BY <1>1
  <2> QED
    BY <2>1, ThresholdTypes
<1>3. h.pc \in {"badges", "list"} => h.count <= c
  BY <1>1 DEF HookSound
<1>4. ASSUME h.pc = "record", NEW i \in h.todo
      PROVE  h.badges[i] <= c
  <2>1. h.badges[i] \in Nat /\ h.badges[i] <= b
    BY <1>2, <1>4 DEF HookSound
  <2> QED
    BY <2>1
<1> QED
  BY <1>3, <1>4 DEF HookSound

(* A new notification leaves a hook sound: it is not one that it read.     *)
LEMMA NoticeKeepsHook ==
    ASSUME TypeOK, NEW h \in HandlerStates, NEW x \in Thresholds \cup {0},
           HookSound(h, notices, best)
    PROVE  HookSound(h, Append(notices, x), best)
<1> DEFINE ns == Append(notices, x)
           n == Len(notices) + 1
<1>1. /\ DOMAIN ns = DOMAIN notices \cup {n} /\ ns[n] = x
      /\ \A i \in DOMAIN notices : ns[i] = notices[i]
  BY Appended DEF TypeOK
<1> HIDE DEF ns, n
<1>2. h.pc = "record" =>
        /\ h.page \subseteq DOMAIN ns
        /\ \A i \in h.todo : \A j \in h.page : ns[j] < h.badges[i]
  BY <1>1 DEF HookSound
<1>3. ASSUME h.pc = "record", ~ h.skipped, NEW t \in h.goal
      PROVE  \/ \E i \in h.todo : t = h.badges[i]
             \/ \E i \in DOMAIN ns : ns[i] >= t
  BY <1>1, <1>3 DEF HookSound
<1>4. HookSound(h, ns, best)
  BY <1>2, <1>3 DEF HookSound
<1> QED
  BY <1>4 DEF ns

(* Handlers are states of a hook.                                          *)
LEMMA HandlerTypes == TypeOK <=>
    /\ hikes \in [HikeIds -> HikeLogEntry \cup {Absent, Deleted}]
    /\ badges \in Seq(Thresholds)
    /\ notices \in Seq(Thresholds \cup {0}) /\ Len(notices) <= MaxNotices
    /\ handlers \in [Handlers -> HandlerStates]
    /\ best \in Nat
    /\ pages \in Seq(SUBSET Nat) /\ Len(pages) = Len(notices)
BY DEF TypeOK, HandlerStates

(* A step of one hook that records nothing.                                *)
LEMMA TurnKeeps ==
    ASSUME IndInv, UNCHANGED <<hikes, badges, notices, best, pages>>,
           NEW p \in Handlers, NEW h \in HandlerStates, Continue(p, h),
           HookSound(h, notices, best)
    PROVE  IndInv'
<1>1. TypeOK'
  <2>1. handlers \in [Handlers -> HandlerStates]
    BY HandlerTypes DEF IndInv
  <2>2. handlers' \in [Handlers -> HandlerStates]
    BY <2>1 DEF Continue
  <2> QED
    BY <2>2 DEF IndInv, TypeOK, HandlerStates
<1>2. \A q \in Handlers : handlers'[q] = IF q = p THEN h ELSE handlers[q]
  BY DEF IndInv, TypeOK, Continue
<1>3. HooksSound'
  <2>1. \A q \in Handlers : HookSound(handlers'[q], notices', best')
    BY <1>2 DEF IndInv, HooksSound
  <2> QED
    BY <2>1 DEF HooksSound
<1>4. BestCovers' /\ PagesSound' /\ AnnouncedWasReached' /\ PagesHaveMax'
  BY DEF IndInv, BestCovers, PagesSound, AnnouncedWasReached, PagesHaveMax, Page, Climbed
<1> QED
  BY <1>1, <1>3, <1>4 DEF IndInv

(* The end of a hook.                                                      *)
LEMMA TurnEnds ==
    ASSUME IndInv, UNCHANGED <<hikes, badges, notices, best, pages>>,
           NEW p \in Handlers, Continue(p, Idle)
    PROVE  IndInv'
<1>1. Idle \in HandlerStates /\ HookSound(Idle, notices, best)
  BY DEF HandlerStates, Idle, HookSound
<1> QED
  BY <1>1, TurnKeeps

(* A hook begins to record after it has read the notifications, or failed  *)
(* to: what it will not record and is earned lies below an announced one.  *)
LEMMA StartIsSound ==
    ASSUME IndInv, NEW p \in Handlers, At(p, "list"), NEW n \in Nat,
           NEW page \in SUBSET DOMAIN notices,
           n # 0 => \E i \in DOMAIN notices : notices[i] = n,
           \A i \in page : notices[i] <= n,
           UNCHANGED <<hikes, badges, notices, best, pages>>, StartRecording(p, n, page)
    PROVE  IndInv'
<1> DEFINE h == handlers[p]
           held == [pc |-> "record", badges |-> h.badges,
                    todo |-> ToRecord(h.badges, h.count, n),
                    goal |-> {t \in Elements(h.badges) : t <= h.count},
                    skipped |-> FALSE, page |-> page]
<1>1. /\ h.pc = "list" /\ h.count \in Nat /\ h.badges \in Seq(Thresholds)
      /\ h.count <= best /\ best \in Nat
  <2>1. h.pc = "list" /\ h \in HandlerStates /\ HookSound(h, notices, best) /\ best \in Nat
    BY HandlerTypes DEF At, IndInv, HooksSound
  <2>2. h.count \in Nat /\ h.badges \in Seq(Thresholds)
    BY <2>1 DEF HandlerStates, Idle, Recording
  <2> QED
    BY <2>1, <2>2 DEF HookSound
<1>2. \A i \in DOMAIN h.badges : h.badges[i] \in Thresholds /\ h.badges[i] \in Nat
                                 /\ h.badges[i] # 0 /\ i \in Nat
  <2>1. \A i \in DOMAIN h.badges : h.badges[i] \in Thresholds /\ i \in Nat
    BY <1>1
  <2> QED
    BY <2>1, ThresholdTypes
<1> HIDE DEF h
<1>3. held \in HandlerStates
  <2>1. page \in SUBSET Nat
    BY DEF IndInv, TypeOK
  <2> QED
    BY <1>1, <1>2, <2>1 DEF HandlerStates, Recording, ToRecord, Elements
<1>4. \A i \in DOMAIN notices : notices[i] \in Nat
  BY NoticeTypes DEF IndInv
<1>5. /\ held.todo = {i \in DOMAIN h.badges : h.badges[i] <= h.count /\ h.badges[i] > n}
      /\ held.pc = "record" /\ held.badges = h.badges /\ held.page = page
      /\ held.goal = {t \in Elements(h.badges) : t <= h.count}
  BY DEF ToRecord
<1> HIDE DEF held
<1>6. \A i \in held.todo : h.badges[i] <= best
  BY <1>1, <1>2, <1>5
<1>7. ASSUME NEW t \in held.goal
      PROVE  \/ \E i \in held.todo : t = h.badges[i]
             \/ \E i \in DOMAIN notices : notices[i] >= t
  <2> PICK i \in DOMAIN h.badges : t = h.badges[i] /\ t <= h.count
    BY <1>5 DEF Elements
  <2>1. CASE t > n
    BY <1>5, <2>1
  <2>2. CASE ~ (t > n)
    BY <1>2, <2>2
  <2> QED
    BY <2>1, <2>2
<1>8. ASSUME NEW i \in held.todo, NEW j \in page
      PROVE  notices[j] < h.badges[i]
  BY <1>2, <1>4, <1>5, <1>8
<1>9. HookSound(held, notices, best)
  BY <1>1, <1>5, <1>6, <1>7, <1>8 DEF HookSound
<1>10. Continue(p, held)
  BY DEF StartRecording, held, h
<1> QED
  BY <1>3, <1>9, <1>10, TurnKeeps

(* A new notification of a threshold that was reached.                     *)
LEMMA NoticesGrow ==
    ASSUME IndInv, NEW x \in Thresholds \cup {0}, x <= best, NEW page \in SUBSET Nat,
           Record(x, page), UNCHANGED <<hikes, badges, best>>,
           x > 0 => page \subseteq DOMAIN notices /\ \A i \in page : notices[i] < x,
           handlers' \in [Handlers -> HandlerStates],
           \A q \in Handlers : HookSound(handlers'[q], notices', best)
    PROVE  IndInv'
<1> DEFINE n == Len(notices) + 1
<1>1. TypeOK /\ notices \in Seq(Thresholds \cup {0}) /\ Len(notices) \in Nat
      /\ MaxNotices \in Nat
      /\ pages \in Seq(SUBSET Nat) /\ Len(pages) = Len(notices)
  BY BadgeConstants DEF IndInv, TypeOK
<1>2. /\ notices' \in Seq(Thresholds \cup {0}) /\ Len(notices') = n
      /\ DOMAIN notices' = DOMAIN notices \cup {n} /\ notices'[n] = x
      /\ \A i \in DOMAIN notices : notices'[i] = notices[i] /\ i \in Nat /\ i < n
  BY <1>1, Appended DEF Record
<1>3. /\ pages' \in Seq(SUBSET Nat) /\ Len(pages') = n /\ pages'[n] = page
      /\ \A i \in DOMAIN notices : pages'[i] = pages[i]
  <2>1. DOMAIN pages = DOMAIN notices /\ pages' = Append(pages, page)
    BY <1>1 DEF Record
  <2> QED
    BY <1>1, <2>1, Appended
<1>4. x \in Nat /\ \A i \in DOMAIN notices : notices[i] \in Nat
  BY <1>1, ThresholdTypes, NoticeTypes
<1>5. TypeOK'
  <2>1. Len(notices') <= MaxNotices
    BY <1>1, <1>2 DEF Record
  <2> QED
    BY <1>1, <1>2, <1>3, <2>1 DEF TypeOK, HandlerStates
<1>6. HooksSound'
  BY DEF HooksSound, Record
<1>7. AnnouncedWasReached'
  BY <1>2 DEF AnnouncedWasReached, IndInv
<1>8. PagesHaveMax'
  <2> SUFFICES ASSUME NEW k \in Int, Page(k)' # {}
               PROVE  \E i \in Page(k)' : \A j \in Page(k)' : notices'[j] <= notices'[i]
    BY DEF PagesHaveMax
  <2>1. Page(k)' = {i \in DOMAIN notices' : i > k}
    BY DEF Page
  <2>2. CASE n > k
    <3>1. Page(k)' = Page(k) \cup {n}
      BY <1>2, <2>1, <2>2 DEF Page
    <3>2. CASE Page(k) = {}
      BY <1>2, <1>4, <3>1, <3>2
    <3>3. CASE Page(k) # {}
      <4> PICK i \in Page(k) : \A j \in Page(k) : notices[j] <= notices[i]
        BY <3>3 DEF IndInv, PagesHaveMax
      <4>1. \A j \in Page(k) : notices'[j] = notices[j] /\ notices[j] \in Nat
        BY <1>2, <1>4 DEF Page
      <4>2. CASE notices[i] <= x
        <5>1. ASSUME NEW j \in Page(k)
              PROVE  notices'[j] <= x
          <6>1. notices[j] \in Nat /\ notices[i] \in Nat /\ notices[j] <= notices[i]
            BY <4>1, <1>4 DEF Page
          <6>2. notices[j] <= x
            BY <6>1, <4>2, <1>4
          <6>3. notices'[j] = notices[j]
            BY <4>1
          <6> QED
            BY <6>2, <6>3
        <5>2. notices'[n] <= x /\ notices'[n] = x /\ n \in Page(k)'
          BY <1>2, <1>4, <3>1
        <5> QED
          BY <3>1, <5>1, <5>2
      <4>3. CASE ~ (notices[i] <= x)
        <5>1. x <= notices[i]
          BY <1>4, <4>1, <4>3
        <5> QED
          BY <1>2, <3>1, <4>1, <5>1
      <4> QED
        BY <4>2, <4>3
    <3> QED
      BY <3>2, <3>3
  <2>3. CASE ~ (n > k)
    <3>1. Page(k)' = {}
      BY <1>1, <1>2, <2>1, <2>3
    <3> QED
      BY <3>1
  <2> QED
    BY <2>2, <2>3
<1>9. BestCovers'
  BY DEF IndInv, BestCovers, Climbed
<1>10. PagesSound'
  <2> SUFFICES ASSUME NEW j \in DOMAIN notices', notices'[j] > 0
               PROVE  pages'[j] \subseteq DOMAIN notices'
                      /\ \A i \in pages'[j] : notices'[i] < notices'[j]
    BY DEF PagesSound
  <2>1. CASE j \in DOMAIN notices
    <3>1. notices[j] > 0 /\ pages'[j] = pages[j] /\ notices'[j] = notices[j]
      BY <1>2, <1>3, <2>1
    <3>2. pages[j] \subseteq DOMAIN notices /\ \A i \in pages[j] : notices[i] < notices[j]
      BY <2>1, <3>1 DEF IndInv, PagesSound
    <3> QED
      BY <1>2, <3>1, <3>2
  <2>2. CASE j = n
    BY <1>2, <1>3, <2>2
  <2> QED
    BY <1>2, <2>1, <2>2
<1> QED
  BY <1>5, <1>6, <1>7, <1>8, <1>9, <1>10 DEF IndInv

-----------------------------------------------------------------------------
(* The actions.                                                            *)

(* A hike is logged, removed or deleted; the history keeps the best count. *)
LEMMA HikeStep ==
    ASSUME IndInv, NEW h \in HikeIds, NEW row \in HikeLogEntry \cup {Absent, Deleted},
           WriteHike(h, row), UNCHANGED <<badges, notices, pages>>,
           UNCHANGED handlers \/ \E p \in Handlers : Continue(p, [pc |-> "count"])
    PROVE  IndInv'
<1>1. hikes' \in [HikeIds -> HikeLogEntry \cup {Absent, Deleted}]
  BY DEF WriteHike, IndInv, TypeOK
<1>2. Climbed(hikes') \in Nat /\ best \in Nat
  BY <1>1, CountTypes DEF IndInv, TypeOK
<1>3. best' \in Nat /\ best <= best' /\ Climbed(hikes') <= best'
  BY <1>2 DEF WriteHike
<1>4. handlers \in [Handlers -> HandlerStates]
      /\ \A q \in Handlers : HookSound(handlers[q], notices, best)
  BY HandlerTypes DEF IndInv, HooksSound
<1>5. [pc |-> "count"] \in HandlerStates /\ HookSound([pc |-> "count"], notices, best)
  BY DEF HandlerStates, HookSound
<1>6. /\ handlers' \in [Handlers -> HandlerStates]
      /\ \A q \in Handlers : HookSound(handlers'[q], notices, best)
  BY <1>4, <1>5 DEF Continue
<1>7. \A q \in Handlers : HookSound(handlers'[q], notices', best')
  BY <1>2, <1>3, <1>6, WaitingStays
<1>8. TypeOK'
  BY <1>1, <1>3, <1>6 DEF IndInv, TypeOK, HandlerStates
<1>9. HooksSound'
  BY <1>7 DEF HooksSound
<1>10. BestCovers' /\ PagesSound' /\ PagesHaveMax'
  BY <1>3 DEF IndInv, BestCovers, PagesSound, PagesHaveMax, Page, Climbed
<1>11. AnnouncedWasReached'
  BY <1>2, <1>3, NoticeTypes DEF IndInv, AnnouncedWasReached
<1> QED
  BY <1>8, <1>9, <1>10, <1>11 DEF IndInv

(* An administrator adds a badge.                                          *)
LEMMA BadgeStep ==
    ASSUME IndInv, NEW t \in Added, NEW i \in 0..Len(badges), AddBadge(t, i)
    PROVE  IndInv'
<1>1. t \in Thresholds /\ badges \in Seq(Thresholds)
  BY DEF Thresholds, IndInv, TypeOK
<1>2. badges' \in Seq(Thresholds)
  BY <1>1, Inserted DEF AddBadge
<1>3. UNCHANGED <<hikes, notices, handlers, best, pages>>
  BY DEF AddBadge
<1>4. TypeOK'
  BY <1>2, <1>3 DEF IndInv, TypeOK
<1>5. HooksSound' /\ PagesSound' /\ BestCovers' /\ AnnouncedWasReached' /\ PagesHaveMax'
  BY <1>3 DEF IndInv, HooksSound, PagesSound, BestCovers, AnnouncedWasReached, PagesHaveMax,
     Page, Climbed
<1> QED
  BY <1>4, <1>5 DEF IndInv

(* Another notification is recorded.                                       *)
LEMMA OtherStep ==
    ASSUME IndInv, RecordOther
    PROVE  IndInv'
<1>1. 0 \in Thresholds \cup {0} /\ 0 <= best
  BY DEF IndInv, TypeOK
<1>2. handlers' \in [Handlers -> HandlerStates] /\ UNCHANGED handlers
  BY HandlerTypes DEF IndInv, RecordOther
<1>3. \A q \in Handlers : HookSound(handlers'[q], Append(notices, 0), best)
  BY <1>1, <1>2, NoticeKeepsHook DEF IndInv, HooksSound
<1>4. \A q \in Handlers : HookSound(handlers'[q], notices', best)
  BY <1>3 DEF RecordOther, Record
<1>5. {} \in SUBSET Nat /\ ~ (0 > 0)
  OBVIOUS
<1> QED
  BY <1>1, <1>2, <1>4, <1>5, NoticesGrow DEF RecordOther

(* A hook counts, reads the badges and the notifications.                  *)
LEMMA ReadSteps ==
    ASSUME IndInv, NEW p \in Handlers
    PROVE  GetCount(p) \/ GetActive(p) \/ ListNotices(p) \/ ListFails(p) => IndInv'
<1> TypeOK
  BY DEF IndInv
<1>1. ASSUME GetCount(p)
      PROVE  IndInv'
  <2> DEFINE c == CountVerifiedDistinctMountains(hikes)
             held == [pc |-> "badges", count |-> c]
  <2>1. c \in Nat /\ c <= best
    BY CountTypes DEF IndInv, TypeOK, BestCovers
  <2>2. Continue(p, held) /\ UNCHANGED <<hikes, badges, notices, best, pages>>
    BY <1>1 DEF GetCount
  <2> HIDE DEF c
  <2>3. held \in HandlerStates /\ HookSound(held, notices, best)
    BY <2>1 DEF HandlerStates, HookSound
  <2> HIDE DEF held
  <2> QED
    BY <2>2, <2>3, TurnKeeps
<1>2. ASSUME GetActive(p)
      PROVE  IndInv'
  <2> DEFINE c == handlers[p].count
             held == [pc |-> "list", count |-> c, badges |-> badges]
  <2>1. handlers[p] \in HandlerStates /\ handlers[p].pc = "badges"
        /\ HookSound(handlers[p], notices, best)
    BY <1>2, HandlerTypes DEF GetActive, At, IndInv, HooksSound
  <2>2. c \in Nat /\ c <= best
    BY <2>1 DEF HandlerStates, Idle, Recording, HookSound
  <2>3. Continue(p, held) /\ UNCHANGED <<hikes, badges, notices, best, pages>>
    BY <1>2 DEF GetActive
  <2> HIDE DEF c
  <2>4. badges \in Seq(Thresholds)
    BY DEF IndInv, TypeOK
  <2>5. held \in HandlerStates /\ HookSound(held, notices, best)
    BY <2>2, <2>4 DEF HandlerStates, HookSound
  <2> HIDE DEF held
  <2> QED
    BY <2>3, <2>5, TurnKeeps
<1>3. ASSUME ListNotices(p)
      PROVE  IndInv'
  <2> DEFINE n == NotifiedAt
             page == NewestPage
  <2>1. /\ n \in Nat
        /\ n # 0 => \E i \in DOMAIN notices : notices[i] = n
        /\ \A i \in page : notices[i] <= n
        /\ page \in SUBSET DOMAIN notices
    BY NotifiedIsMax DEF IndInv, NewestPage
  <2>2. At(p, "list") /\ StartRecording(p, n, page)
        /\ UNCHANGED <<hikes, badges, notices, best, pages>>
    BY <1>3 DEF ListNotices
  <2> HIDE DEF n, page
  <2> QED
    BY <2>1, <2>2, StartIsSound
<1>4. ASSUME ListFails(p)
      PROVE  IndInv'
  <2>1. At(p, "list") /\ StartRecording(p, 0, {})
        /\ UNCHANGED <<hikes, badges, notices, best, pages>>
    BY <1>4 DEF ListFails
  <2>2. {} \in SUBSET DOMAIN notices
    OBVIOUS
  <2> QED
    BY <2>1, <2>2, StartIsSound
<1> QED
  BY <1>1, <1>2, <1>3, <1>4

(* What the loop changes of a hook that records, a field at a time.        *)
LEMMA LoopTodo ==
    ASSUME NEW h \in Recording, NEW todo \in SUBSET Nat
    PROVE  [h EXCEPT !.todo = todo] =
             [pc |-> "record", badges |-> h.badges, todo |-> todo, goal |-> h.goal,
              skipped |-> h.skipped, page |-> h.page]
BY DEF Recording

(* As LoopTodo, of the record that failed.                                 *)
LEMMA LoopSkipped ==
    ASSUME NEW h \in Recording, NEW v \in BOOLEAN
    PROVE  [h EXCEPT !.skipped = v] =
             [pc |-> "record", badges |-> h.badges, todo |-> h.todo, goal |-> h.goal,
              skipped |-> v, page |-> h.page]
BY DEF Recording

(* What the fields of a hook that records are.                             *)
LEMMA RecordingTypes ==
    ASSUME NEW h \in Recording
    PROVE  /\ h.pc = "record" /\ h.badges \in Seq(Thresholds) /\ h.todo \in SUBSET Nat
           /\ h.goal \in SUBSET Thresholds /\ h.skipped \in BOOLEAN /\ h.page \in SUBSET Nat
           /\ h \in HandlerStates
BY DEF Recording, HandlerStates

(* A failed record.                                                        *)
LEMMA FailStep ==
    ASSUME IndInv, NEW p \in Handlers, RecordFails(p)
    PROVE  IndInv'
<1> DEFINE h == handlers[p]
<1> PICK i \in h.todo : Continue(p, [h EXCEPT !.todo = @ \ {i}, !.skipped = TRUE])
  BY DEF RecordFails
<1>1. h \in HandlerStates /\ h.pc = "record" /\ HookSound(h, notices, best)
  BY HandlerTypes DEF IndInv, HooksSound, RecordFails, At
<1>2. h \in Recording
  BY <1>1 DEF HandlerStates, Idle
<1>3. UNCHANGED <<hikes, badges, notices, best, pages>>
  BY DEF RecordFails
<1> DEFINE left == h.todo \ {i}
           y == [h EXCEPT !.todo = left]
           held == [pc |-> "record", badges |-> h.badges, todo |-> left, goal |-> h.goal,
                    skipped |-> TRUE, page |-> h.page]
<1>4. Continue(p, [y EXCEPT !.skipped = TRUE])
  OBVIOUS
<1> HIDE DEF h
<1>5. y = [pc |-> "record", badges |-> h.badges, todo |-> left, goal |-> h.goal,
           skipped |-> h.skipped, page |-> h.page]
  <2>1. left \in SUBSET Nat
    BY <1>2, RecordingTypes
  <2> HIDE DEF left
  <2> QED
    BY <1>2, <2>1, LoopTodo
<1>6. y \in Recording
  BY <1>2, <1>5, RecordingTypes DEF Recording
<1>7. [y EXCEPT !.skipped = TRUE] = held
  <2> DEFINE v == TRUE
  <2> HIDE DEF y, v
  <2>1. v \in BOOLEAN
    BY DEF v
  <2>2. [y EXCEPT !.skipped = v] =
          [pc |-> "record", badges |-> y.badges, todo |-> y.todo, goal |-> y.goal,
           skipped |-> v, page |-> y.page]
    BY <1>6, <2>1, LoopSkipped
  <2> QED
    BY <1>5, <2>2 DEF v
<1>8. held \in HandlerStates
  BY <1>2, RecordingTypes DEF HandlerStates, Recording
<1>9. HookSound(held, notices, best)
  BY <1>1 DEF HookSound
<1>10. Continue(p, held)
  BY <1>4, <1>7
<1> HIDE DEF held
<1> QED
  BY <1>3, <1>8, <1>9, <1>10, TurnKeeps

(* A recorded badge.                                                       *)
LEMMA RecordStep ==
    ASSUME IndInv, NEW p \in Handlers, RecordBadge(p)
    PROVE  IndInv'
<1> TypeOK
  BY DEF IndInv
<1> DEFINE h == handlers[p]
<1> PICK i \in h.todo :
          /\ Record(h.badges[i], h.page)
          /\ Continue(p, [h EXCEPT !.todo = @ \ {i}])
  BY DEF RecordBadge
<1>1. \A q \in Handlers : handlers[q] \in HandlerStates /\ HookSound(handlers[q], notices, best)
  BY HandlerTypes DEF IndInv, HooksSound
<1>2. h \in Recording /\ h.pc = "record" /\ HookSound(h, notices, best)
  BY <1>1 DEF RecordBadge, At, HandlerStates, Idle
<1> DEFINE x == h.badges[i]
           ns == Append(notices, x)
           n == Len(notices) + 1
           left == h.todo \ {i}
           held == [pc |-> "record", badges |-> h.badges, todo |-> left, goal |-> h.goal,
                    skipped |-> h.skipped, page |-> h.page]
<1>3. UNCHANGED <<hikes, badges, best>> /\ notices' = ns
  BY DEF RecordBadge, Record
<1>4. /\ h.badges \in Seq(Thresholds) /\ i \in DOMAIN h.badges /\ h.todo \in SUBSET Nat
      /\ x <= best /\ h.page \in SUBSET Nat /\ h.page \subseteq DOMAIN notices
      /\ \A j \in h.page : notices[j] < x
  BY <1>2, RecordingTypes DEF HookSound
<1>5. x \in Thresholds /\ x \in Nat
  BY <1>4, ThresholdTypes, ElementOfSeq
<1>6. /\ DOMAIN ns = DOMAIN notices \cup {n} /\ ns[n] = x
      /\ \A j \in DOMAIN notices : ns[j] = notices[j]
  BY <1>5, Appended DEF TypeOK
<1>7. \A q \in Handlers : HookSound(handlers[q], ns, best)
  BY <1>1, <1>5, NoticeKeepsHook
<1>8. handlers' = [handlers EXCEPT ![p] = [h EXCEPT !.todo = left]]
  BY DEF Continue
<1> HIDE DEF h, ns, n, x
<1>9. held = [h EXCEPT !.todo = left]
  <2>1. left \in SUBSET Nat
    BY <1>4
  <2> HIDE DEF left
  <2> QED
    BY <1>2, <2>1, LoopTodo
<1>10. held \in HandlerStates
  BY <1>2, RecordingTypes DEF HandlerStates, Recording
<1>11. ASSUME ~ h.skipped, NEW t \in h.goal
       PROVE  \/ \E j \in left : t = h.badges[j]
              \/ \E j \in DOMAIN ns : ns[j] >= t
  <2>1. \/ \E j \in h.todo : t = h.badges[j]
        \/ \E j \in DOMAIN notices : notices[j] >= t
    BY <1>2, <1>11 DEF HookSound
  <2>2. CASE t = x
    BY <1>5, <1>6, <2>2
  <2>3. CASE t # x
    BY <1>6, <2>1, <2>3 DEF x
  <2> QED
    BY <2>2, <2>3
<1>12. HookSound(h, ns, best)
  BY <1>7 DEF h
<1>13. HookSound(held, ns, best)
  BY <1>2, <1>11, <1>12 DEF HookSound
<1> HIDE DEF held
<1>14. /\ handlers' \in [Handlers -> HandlerStates]
       /\ \A q \in Handlers : HookSound(handlers'[q], ns, best)
  <2>1. handlers \in [Handlers -> HandlerStates] /\ handlers' = [handlers EXCEPT ![p] = held]
    BY <1>8, <1>9, HandlerTypes
  <2> QED
    BY <1>7, <1>10, <1>13, <2>1
<1>15. Record(x, h.page)
  BY DEF x
<1> QED
  BY <1>3, <1>4, <1>5, <1>14, <1>15, NoticesGrow

-----------------------------------------------------------------------------
(* The invariant holds.                                                    *)

(* Every step keeps the invariant.                                         *)
LEMMA StepKeeps == IndInv /\ [Next]_vars => IndInv'
<1> SUFFICES ASSUME IndInv, [Next]_vars
             PROVE  IndInv'
  OBVIOUS
<1>1. ASSUME NEW p \in Handlers, NEW h \in HikeIds, NEW m \in Mountains,
             NEW status \in {"verified", "unverified"}, RecordHike(p, h, m, status)
      PROVE  IndInv'
  <2>1. [status |-> status, mountain |-> m] \in HikeLogEntry
    BY DEF HikeLogEntry
  <2> QED
    BY <1>1, <2>1, HikeStep DEF RecordHike
<1>2. ASSUME NEW h \in HikeIds, RemoveEvidence(h)
      PROVE  IndInv'
  <2>1. hikes[h] \in HikeLogEntry
    BY <1>2 DEF RemoveEvidence, IndInv, TypeOK, Absent, Deleted
  <2>2. [hikes[h] EXCEPT !.status = "removed"] \in HikeLogEntry
    BY <2>1 DEF HikeLogEntry
  <2> QED
    BY <1>2, <2>2, HikeStep DEF RemoveEvidence
<1>3. ASSUME NEW h \in HikeIds, DeleteMyHike(h)
      PROVE  IndInv'
  BY <1>3, HikeStep DEF DeleteMyHike
<1>4. ASSUME NEW p \in Handlers, HookReturns(p) \/ QueryFails(p)
      PROVE  IndInv'
  BY <1>4, TurnEnds DEF HookReturns, QueryFails
<1>5. ASSUME Restart
      PROVE  IndInv'
  <2>1. Idle \in HandlerStates /\ HookSound(Idle, notices, best)
    BY DEF HandlerStates, Idle, HookSound
  <2>2. TypeOK'
    BY <1>5, <2>1 DEF Restart, IndInv, TypeOK, HandlerStates
  <2>3. \A q \in Handlers : HookSound(handlers'[q], notices', best')
    BY <1>5, <2>1 DEF Restart
  <2>4. HooksSound'
    BY <2>3 DEF HooksSound
  <2>5. BestCovers' /\ PagesSound' /\ AnnouncedWasReached' /\ PagesHaveMax'
    BY <1>5 DEF Restart, IndInv, BestCovers, PagesSound, AnnouncedWasReached, PagesHaveMax,
       Page, Climbed
  <2> QED
    BY <2>2, <2>4, <2>5 DEF IndInv
<1>6. ASSUME UNCHANGED vars
      PROVE  IndInv'
  <2>1. TypeOK' /\ HooksSound'
    BY <1>6 DEF vars, IndInv, TypeOK, HooksSound
  <2>2. BestCovers' /\ PagesSound' /\ AnnouncedWasReached' /\ PagesHaveMax'
    BY <1>6 DEF vars, IndInv, BestCovers, PagesSound, AnnouncedWasReached, PagesHaveMax,
       Page, Climbed
  <2> QED
    BY <2>1, <2>2 DEF IndInv
<1> QED
  BY <1>1, <1>2, <1>3, <1>4, <1>5, <1>6, BadgeStep, OtherStep, ReadSteps, FailStep, RecordStep
     DEF Next

(* The invariant is inductive.                                             *)
LEMMA Inductive == Spec => []IndInv
<1>1. Init => IndInv
  <2> SUFFICES ASSUME Init
               PROVE  IndInv
    OBVIOUS
  <2>1. \A i \in 1..Len(Seeded) : Seeded[i] \in Thresholds
    BY DEF Thresholds
  <2>2. Seeded \in Seq(Thresholds)
    BY <2>1, BadgeConstants, IsASeq
  <2>3. TypeOK
    BY <2>2, BadgeConstants DEF Init, TypeOK
  <2>4. PagesSound
    BY DEF Init, PagesSound
  <2>5. {m \in Mountains : \E h \in HikeIds :
            hikes[h].status = "verified" /\ hikes[h].mountain = m} = {}
    BY DEF Init, Absent
  <2>6. BestCovers
    BY <2>5, FS_EmptySet DEF BestCovers, Climbed, Init
  <2>7. AnnouncedWasReached /\ PagesHaveMax
    BY DEF Init, AnnouncedWasReached, PagesHaveMax, Page
  <2>8. HooksSound
    BY DEF Init, HooksSound, HookSound, Idle
  <2> QED
    BY <2>3, <2>4, <2>6, <2>7, <2>8 DEF IndInv
<1> QED
  BY <1>1, StepKeeps, PTL DEF Spec

(* Hikes, badges, notifications and hooks keep their types.                *)
THEOREM TypeCorrect == Spec => []TypeOK
BY Inductive, PTL DEF IndInv

(* No badge is announced to a user who had not reached it.                 *)
THEOREM AnnouncementsAreEarned == Spec => []AnnouncedWasReached
BY Inductive, PTL DEF IndInv

(* A hook none of whose records failed leaves no earned badge out.         *)
THEOREM EarnedAreCovered == Spec => []EarnedIsCovered
<1>1. HooksSound => EarnedIsCovered
  BY DEF HooksSound, HookSound, EarnedIsCovered, Pending, At
<1> QED
  BY <1>1, Inductive, PTL DEF IndInv

(* A badge is announced above all that its hook had read, whatever was     *)
(* recorded since.                                                         *)
THEOREM AnnouncementsRise == Spec => []HigherTierOnly
<1>1. PagesSound => HigherTierOnly
  BY DEF PagesSound, HigherTierOnly
<1> QED
  BY <1>1, Inductive, PTL DEF IndInv

=============================================================================
