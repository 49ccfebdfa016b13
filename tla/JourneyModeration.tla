-------------------------- MODULE JourneyModeration --------------------------
(***************************************************************************)
(* The journey context (hike log, journey posts) and the moderation queue  *)
(* that acts on it: an administrator's resolution hides a post or removes  *)
(* a hike's evidence, notifies the owner and closes the report.            *)
(*                                                                         *)
(* Every repository call is one autocommit SQL statement; a request holds  *)
(* a handler slot between its statements, and any other action may come    *)
(* between two of them.  A statement may fail, and the process may die.    *)
(*                                                                         *)
(* Abstracted: the text and photos of a post are one value, its body; the  *)
(* mountain and route; the badge hook of RecordHike (BadgeNotifications);  *)
(* the reason and detail of a report; the read-only listings.  Requests    *)
(* by a user who does not own the row change nothing and are left out.     *)
(***************************************************************************)
EXTENDS Naturals

CONSTANTS
    Users,
    Bodies,         \* what an author may write in a post
    PostIds,        \* bounds the posts ever created
    HikeIds,        \* bounds the hikes ever recorded
    ReportIds,      \* bounds the reports ever filed
    Handlers,       \* slots for in-flight handlers: bounds their concurrency
    None            \* no linked post; the target of a report on other content

ASSUME NoneIsNoId == None \notin PostIds \cup HikeIds

VARIABLES
    posts,          \* table journey_posts
    hikes,          \* table hike_log_entries
    reports,        \* table reports
    handlers,       \* what each in-flight handler holds and does next
    outcomes        \* reports whose outcome the content's owner was notified of

vars == <<posts, hikes, reports, handlers, outcomes>>

-----------------------------------------------------------------------------
(* Rows.  An id not drawn yet is absent; a deleted row's id is not reused. *)

Absent == [status |-> "absent"]
Deleted == [status |-> "deleted"]
Exists(row) == row.status \notin {"absent", "deleted"}

(* status is the visibility column, moderation the moderation_status one,  *)
(* stamped tells whether published_at is set.                              *)
JourneyPost ==
    [status: {"draft", "published"}, moderation: {"visible", "hidden"},
     stamped: BOOLEAN, owner: Users, body: Bodies]

HikeLogEntry ==
    [status: {"verified", "unverified", "removed"}, owner: Users,
     post: PostIds \cup {None}]

Target ==
    [type: {"journey_post"}, id: PostIds] \cup [type: {"hike_evidence"}, id: HikeIds]
        \cup [type: {"user_profile", "mountain_field"}, id: {None}]

Report == [status: {"open", "resolved", "dismissed"}, target: Target]

Idle == [pc |-> "idle"]

RecordingPost ==
    [pc: {"record_post"}, hike: HikeIds, owner: Users,
     status: {"draft", "published"}, body: Bodies]

RecordingLink == [pc: {"record_link"}, hike: HikeIds, post: PostIds]

(* The row as UpdatePost read it, with the edits made to the copy.         *)
Editing == [pc: {"edit_write"}, post: PostIds, row: JourneyPost]

Resolving ==
    [pc: {"resolve_effect", "resolve_owner", "resolve_notify", "resolve_close"},
     report: ReportIds, status: {"resolved", "dismissed"}]

TypeOK ==
    /\ posts \in [PostIds -> JourneyPost \cup {Absent, Deleted}]
    /\ hikes \in [HikeIds -> HikeLogEntry \cup {Absent, Deleted}]
    /\ reports \in [ReportIds -> Report \cup {Absent}]
    /\ handlers \in [Handlers ->
          {Idle} \cup RecordingPost \cup RecordingLink \cup Editing \cup Resolving]
    /\ outcomes \subseteq ReportIds

Init ==
    /\ posts = [x \in PostIds |-> Absent]
    /\ hikes = [x \in HikeIds |-> Absent]
    /\ reports = [r \in ReportIds |-> Absent]
    /\ handlers = [p \in Handlers |-> Idle]
    /\ outcomes = {}

-----------------------------------------------------------------------------

Continue(p, held) == handlers' = [handlers EXCEPT ![p] = held]
Answer(p) == Continue(p, Idle)
At(p, pc) == handlers[p].pc = pc

NewPost(u, visibility, b) ==
    [status |-> visibility, moderation |-> "visible", stamped |-> FALSE,
     owner |-> u, body |-> b]

(* JourneyPostRepository.Create: published_at stays NULL.                  *)
InsertPost(x, u, visibility, b) ==
    /\ posts[x] = Absent
    /\ posts' = [posts EXCEPT ![x] = NewPost(u, visibility, b)]

-----------------------------------------------------------------------------
(* RecordHike: the hike, then optionally a post, then the link to it.      *)

HikeStatus(evidence) == IF evidence THEN "verified" ELSE "unverified"

RecordHike(p, h, u, evidence, withPost) ==
    /\ At(p, "idle")
    /\ hikes[h] = Absent
    /\ hikes' = [hikes EXCEPT
          ![h] = [status |-> HikeStatus(evidence), owner |-> u, post |-> None]]
    /\ IF withPost
       THEN \E visibility \in {"draft", "published"}, b \in Bodies :
               Continue(p, [pc |-> "record_post", hike |-> h, owner |-> u,
                            status |-> visibility, body |-> b])
       ELSE UNCHANGED handlers
    /\ UNCHANGED <<posts, reports, outcomes>>

RecordPost(p, x) ==
    /\ At(p, "record_post")
    /\ InsertPost(x, handlers[p].owner, handlers[p].status, handlers[p].body)
    /\ Continue(p, [pc |-> "record_link", hike |-> handlers[p].hike, post |-> x])
    /\ UNCHANGED <<hikes, reports, outcomes>>

(* The update of a hike that was deleted meanwhile changes no row.         *)
RecordLink(p) ==
    /\ At(p, "record_link")
    /\ LET h == handlers[p].hike IN
       hikes' = IF Exists(hikes[h])
                THEN [hikes EXCEPT ![h].post = handlers[p].post] ELSE hikes
    /\ Answer(p)
    /\ UNCHANGED <<posts, reports, outcomes>>

(* The companion post stays.                                               *)
DeleteMyHike(h) ==
    /\ Exists(hikes[h])
    /\ hikes' = [hikes EXCEPT ![h] = Deleted]
    /\ UNCHANGED <<posts, reports, handlers, outcomes>>

-----------------------------------------------------------------------------
(* Journey posts.                                                          *)

CreatePost(x, u, visibility, b) ==
    /\ InsertPost(x, u, visibility, b)
    /\ UNCHANGED <<hikes, reports, handlers, outcomes>>

(* Mutant of EditFind: published posts may be edited.                      *)
EditFindAny(p, x, visibility, b) ==
    /\ At(p, "idle")
    /\ Exists(posts[x])
    /\ Continue(p, [pc |-> "edit_write", post |-> x,
                    row |-> [posts[x] EXCEPT !.status = visibility, !.body = b]])
    /\ UNCHANGED <<posts, hikes, reports, outcomes>>

(* UpdatePost reads the post, refuses a published one, and edits its copy. *)
EditFind(p, x, visibility, b) ==
    /\ At(p, "idle")
    /\ posts[x].status = "draft"
    /\ Continue(p, [pc |-> "edit_write", post |-> x,
                    row |-> [posts[x] EXCEPT !.status = visibility, !.body = b]])
    /\ UNCHANGED <<posts, hikes, reports, outcomes>>

(* Mutant of EditWrite: the copy is written back whole.                    *)
EditWriteRow(p) ==
    /\ At(p, "edit_write")
    /\ LET x == handlers[p].post IN
       posts' = IF Exists(posts[x]) THEN [posts EXCEPT ![x] = handlers[p].row] ELSE posts
    /\ Answer(p)
    /\ UNCHANGED <<hikes, reports, outcomes>>

(* The write covers the content and the visibility, and looks only at the  *)
(* id and the owner.                                                       *)
EditWrite(p) ==
    /\ At(p, "edit_write")
    /\ LET x == handlers[p].post
           row == handlers[p].row
       IN posts' = IF Exists(posts[x])
                   THEN [posts EXCEPT ![x].status = row.status, ![x].body = row.body]
                   ELSE posts
    /\ Answer(p)
    /\ UNCHANGED <<hikes, reports, outcomes>>

(* Mutant of PublishPost: publishing makes the post visible.               *)
PublishPostVisible(x) ==
    /\ posts[x].status = "draft"
    /\ posts' = [posts EXCEPT ![x].status = "published", ![x].stamped = TRUE,
                              ![x].moderation = "visible"]
    /\ UNCHANGED <<hikes, reports, handlers, outcomes>>

PublishPost(x) ==
    /\ posts[x].status = "draft"
    /\ posts' = [posts EXCEPT ![x].status = "published", ![x].stamped = TRUE]
    /\ UNCHANGED <<hikes, reports, handlers, outcomes>>

(* A hike linked to the post keeps the link.                               *)
DeletePost(x) ==
    /\ Exists(posts[x])
    /\ posts' = [posts EXCEPT ![x] = Deleted]
    /\ UNCHANGED <<hikes, reports, handlers, outcomes>>

-----------------------------------------------------------------------------
(* The moderation queue.  Anyone may report content whose id was served.   *)

CreateReport(r, target) ==
    /\ reports[r] = Absent
    /\ target.type = "journey_post" => posts[target.id] # Absent
    /\ target.type = "hike_evidence" => hikes[target.id] # Absent
    /\ reports' = [reports EXCEPT ![r] = [status |-> "open", target |-> target]]
    /\ UNCHANGED <<posts, hikes, handlers, outcomes>>

TargetOf(p) == reports[handlers[p].report].target

TargetExists(target) ==
    \/ target.type = "journey_post" /\ Exists(posts[target.id])
    \/ target.type = "hike_evidence" /\ Exists(hikes[target.id])

(* What an action other than dismiss does first: hide_content applies to a *)
(* post and remove_evidence to a hike; edit_field applies to a mountain    *)
(* field and changes nothing; no other action applies to a profile.        *)
FirstStep(target, status) ==
    IF status = "resolved" /\ target.type # "mountain_field"
    THEN "resolve_effect" ELSE "resolve_close"

(* Mutant of ResolveFind: a report that is closed is taken up again.       *)
ResolveFindAny(p, r, status) ==
    /\ At(p, "idle")
    /\ reports[r] # Absent
    /\ status = "resolved" => reports[r].target.type # "user_profile"
    /\ Continue(p, [pc |-> FirstStep(reports[r].target, status), report |-> r,
                    status |-> status])
    /\ UNCHANGED <<posts, hikes, reports, outcomes>>

ResolveFind(p, r, status) ==
    /\ At(p, "idle")
    /\ reports[r].status = "open"
    /\ status = "resolved" => reports[r].target.type # "user_profile"
    /\ Continue(p, [pc |-> FirstStep(reports[r].target, status), report |-> r,
                    status |-> status])
    /\ UNCHANGED <<posts, hikes, reports, outcomes>>

(* Mutant of ResolveEffect: a post that is not published is left alone.    *)
ResolveEffectPublished(p) ==
    /\ At(p, "resolve_effect")
    /\ LET target == TargetOf(p) IN
       /\ posts' = IF target.type = "journey_post" /\ posts[target.id].status = "published"
                   THEN [posts EXCEPT ![target.id].moderation = "hidden"] ELSE posts
       /\ hikes' = IF target.type = "hike_evidence" /\ TargetExists(target)
                   THEN [hikes EXCEPT ![target.id].status = "removed"] ELSE hikes
    /\ Continue(p, [handlers[p] EXCEPT !.pc = "resolve_owner"])
    /\ UNCHANGED <<reports, outcomes>>

(* HidePost and RemoveEvidence fail when there is no row, and the report   *)
(* stays open.                                                             *)
ResolveEffect(p) ==
    /\ At(p, "resolve_effect")
    /\ LET target == TargetOf(p) IN
       /\ posts' = IF target.type = "journey_post" /\ TargetExists(target)
                   THEN [posts EXCEPT ![target.id].moderation = "hidden"] ELSE posts
       /\ hikes' = IF target.type = "hike_evidence" /\ TargetExists(target)
                   THEN [hikes EXCEPT ![target.id].status = "removed"] ELSE hikes
       /\ IF TargetExists(target)
          THEN Continue(p, [handlers[p] EXCEPT !.pc = "resolve_owner"])
          ELSE Answer(p)
    /\ UNCHANGED <<reports, outcomes>>

(* The owner is looked up in the content's row.                            *)
ResolveOwner(p) ==
    /\ At(p, "resolve_owner")
    /\ Continue(p, [handlers[p] EXCEPT
          !.pc = IF TargetExists(TargetOf(p)) THEN "resolve_notify" ELSE "resolve_close"])
    /\ UNCHANGED <<posts, hikes, reports, outcomes>>

ResolveNotify(p) ==
    /\ At(p, "resolve_notify")
    /\ outcomes' = outcomes \cup {handlers[p].report}
    /\ Continue(p, [handlers[p] EXCEPT !.pc = "resolve_close"])
    /\ UNCHANGED <<posts, hikes, reports>>

(* Mutant of ResolveClose: a status the column's type does not have.       *)
ResolveCloseAsDone(p) ==
    /\ At(p, "resolve_close")
    /\ reports' = [reports EXCEPT ![handlers[p].report].status = "closed"]
    /\ Answer(p)
    /\ UNCHANGED <<posts, hikes, outcomes>>

(* UpdateStatus is by id alone.                                            *)
ResolveClose(p) ==
    /\ At(p, "resolve_close")
    /\ reports' = [reports EXCEPT ![handlers[p].report].status = handlers[p].status]
    /\ Answer(p)
    /\ UNCHANGED <<posts, hikes, outcomes>>

-----------------------------------------------------------------------------
(* Failures.  The owner's lookup and notification are best effort; any     *)
(* other failed statement ends its handler.                                *)

StatementFails(p) ==
    /\ ~ At(p, "idle")
    /\ IF At(p, "resolve_owner") \/ At(p, "resolve_notify")
       THEN Continue(p, [handlers[p] EXCEPT !.pc = "resolve_close"])
       ELSE Answer(p)
    /\ UNCHANGED <<posts, hikes, reports, outcomes>>

Restart ==
    /\ handlers' = [p \in Handlers |-> Idle]
    /\ UNCHANGED <<posts, hikes, reports, outcomes>>

-----------------------------------------------------------------------------

Proceed(p) ==
    \/ \E x \in PostIds : RecordPost(p, x)
    \/ RecordLink(p) \/ EditWrite(p)
    \/ ResolveEffect(p) \/ ResolveOwner(p) \/ ResolveNotify(p) \/ ResolveClose(p)
    \/ StatementFails(p)

Next ==
    \/ \E p \in Handlers, h \in HikeIds, u \in Users, evidence, withPost \in BOOLEAN :
          RecordHike(p, h, u, evidence, withPost)
    \/ \E h \in HikeIds : DeleteMyHike(h)
    \/ \E x \in PostIds, u \in Users, visibility \in {"draft", "published"}, b \in Bodies :
          CreatePost(x, u, visibility, b)
    \/ \E p \in Handlers, x \in PostIds, visibility \in {"draft", "published"}, b \in Bodies :
          EditFind(p, x, visibility, b)
    \/ \E x \in PostIds : PublishPost(x) \/ DeletePost(x)
    \/ \E r \in ReportIds, target \in Target : CreateReport(r, target)
    \/ \E p \in Handlers, r \in ReportIds, status \in {"resolved", "dismissed"} :
          ResolveFind(p, r, status)
    \/ \E p \in Handlers : Proceed(p)
    \/ Restart

Spec == Init /\ [][Next]_vars

-----------------------------------------------------------------------------
(* Properties.                                                             *)

(* The content was hidden or de-counted, or its owner deleted it.          *)
TakenDown(target) ==
    /\ target.type = "journey_post" =>
          \/ posts[target.id] = Deleted
          \/ Exists(posts[target.id]) /\ posts[target.id].moderation = "hidden"
    /\ target.type = "hike_evidence" => hikes[target.id].status \in {"deleted", "removed"}

(* A report is recorded as resolved, and the owner told so, only once its  *)
(* content is out of the feed and the badge count, where it stays whatever *)
(* edits, publications, links and other resolutions follow, and although   *)
(* effect, notification and closing are separate statements.  (A hidden    *)
(* post is still served to who names its id: GetFeedItem.)                 *)
ResolutionsHold ==
    \A r \in ReportIds :
        reports[r].status = "resolved" \/ r \in outcomes => TakenDown(reports[r].target)

(* Nothing but deletion undoes a moderation: an author who edits, publishes*)
(* or links with a copy read before the decision does not revert it.       *)
ModerationIsFinal ==
    [][/\ \A x \in PostIds :
             Exists(posts[x]) /\ posts[x].moderation = "hidden" =>
                 posts'[x] = Deleted \/ posts'[x].moderation = "hidden"
       /\ \A h \in HikeIds :
             hikes[h].status = "removed" => hikes'[h].status \in {"removed", "deleted"}]_vars

(* A published post that no edit in flight has read as a draft.            *)
Published(x) ==
    /\ posts[x].status = "published"
    /\ \A p \in Handlers : At(p, "edit_write") => handlers[p].post # x

(* "Published posts are immutable - delete only", but for an edit that read*)
(* the post while it was a draft: once none is in flight, no further edit  *)
(* gets past UpdatePost's check, and the post stays published, with its    *)
(* content and its published_at, until it is deleted.  So one that was     *)
(* created or edited to be published, with published_at NULL, stands in the*)
(* feed (sorted by it) as one without a date, for good.                    *)
PublishedSettles ==
    [][\A x \in PostIds :
          Published(x) =>
              \/ posts'[x] = Deleted
              \/ /\ Published(x)'
                 /\ posts'[x].body = posts[x].body
                 /\ posts'[x].stamped = posts[x].stamped]_vars

(* A closed report that no resolution in flight has read as open.          *)
Closed(r) ==
    /\ reports[r].status \in {"resolved", "dismissed"}
    /\ \A p \in Handlers :
          handlers[p].pc \in {"resolve_effect", "resolve_owner",
                              "resolve_notify", "resolve_close"} =>
              handlers[p].report # r

(* "Report already closed": once no resolution that read the report as     *)
(* open is in flight, none is taken up again and its decision is final.    *)
ClosedSettles ==
    [][\A r \in ReportIds :
          Closed(r) => Closed(r)' /\ reports'[r] = reports[r]]_vars

-----------------------------------------------------------------------------
(* The abstract specification.                                             *)

Content == [type: {"journey_post"}, id: PostIds] \cup [type: {"hike_evidence"}, id: HikeIds]

(* ListFeed's WHERE clause for a post, but for its author's status; the    *)
(* verified hikes count for badges.                                        *)
Listed(c) ==
    \/ /\ c.type = "journey_post"
       /\ posts[c.id].status = "published" /\ posts[c.id].moderation = "visible"
    \/ c.type = "hike_evidence" /\ hikes[c.id].status = "verified"

(* GetFeedItem's WHERE clause is the id alone: a draft and a hidden post   *)
(* are served too.  A hike is served to nobody but its owner.              *)
ServedById(c) == c.type = "journey_post" /\ Exists(posts[c.id])

Promise == INSTANCE PublicContent WITH
    Contents <- Content,
    listed <- {c \in Content : Listed(c)},
    served <- {c \in Content : ServedById(c)},
    barred <- {c \in Content : TakenDown(c)},
    told <- {c \in Content : \E r \in outcomes : reports[r].target = c}

(* Every behaviour of the handlers is one of PublicContent: what has been  *)
(* hidden, de-counted or deleted never gets into the feed or the count     *)
(* again, by any edit, publication or link; what was deleted is never      *)
(* served by its id again, while hiding does not end that; and nobody is   *)
(* told of the removal of content that is still, or later again, listed.   *)
KeepsPromise == Promise!Spec

-----------------------------------------------------------------------------
(* What the code's comments say and its steps do not keep.                 *)

(* "Published posts are immutable - delete only": an UpdatePost that read  *)
(* a draft writes its content and visibility after the post was published. *)
PublishedIsImmutable ==
    [][\A x \in PostIds :
          posts[x].status = "published" =>
              \/ posts'[x] = Deleted
              \/ posts'[x].status = "published" /\ posts'[x].body = posts[x].body]_vars

=============================================================================
