---------------------------- MODULE JourneyProofs ----------------------------
(***************************************************************************)
(* Proofs about JourneyModeration, for any users, posts, hikes, reports    *)
(* and handlers.  As in IdentityProofs, the actions are reduced to what    *)
(* they can make of a row and of a handler; the rest is about those forms. *)
(***************************************************************************)
EXTENDS JourneyModeration, TLAPS

-----------------------------------------------------------------------------
(* The invariant.                                                          *)

HandlerStates == {Idle} \cup RecordingPost \cup RecordingLink \cup Editing \cup Resolving

Resolutions == {"resolve_effect", "resolve_owner", "resolve_notify", "resolve_close"}

(* TakenDown, of any rows.                                                 *)
Down(ps, hs, target) ==
    /\ target.type = "journey_post" =>
          \/ ps[target.id] = Deleted
          \/ Exists(ps[target.id]) /\ ps[target.id].moderation = "hidden"
    /\ target.type = "hike_evidence" => hs[target.id].status \in {"deleted", "removed"}

(* A handler past the effect of a resolution knows its content taken down; *)
(* one that goes straight to the closing dismisses, or has none to act on. *)
HandlersKnow ==
    \A p \in Handlers :
        /\ handlers[p].pc \in Resolutions => reports[handlers[p].report] # Absent
        /\ \/ handlers[p].pc \in {"resolve_owner", "resolve_notify"}
           \/ At(p, "resolve_close") /\ handlers[p].status = "resolved"
           => Down(posts, hikes, TargetOf(p))

OutcomesKnown == \A r \in outcomes : reports[r] # Absent

IndInv == TypeOK /\ ResolutionsHold /\ HandlersKnow /\ OutcomesKnown

-----------------------------------------------------------------------------
(* What a step can make of each of them.                                   *)

PostMove(x) ==
    \/ posts'[x] = posts[x]
    \/ posts[x] = Absent /\ posts'[x] \in JourneyPost /\ posts'[x].moderation = "visible"
    \/ posts'[x] = Deleted
    \/ /\ posts[x] \in JourneyPost /\ posts'[x] \in JourneyPost
       /\ posts'[x].moderation \in {posts[x].moderation, "hidden"}
       /\ \/ posts[x].status = "draft"
          \/ \E p \in Handlers : At(p, "edit_write") /\ handlers[p].post = x
          \/ /\ posts'[x].status = posts[x].status /\ posts'[x].body = posts[x].body
             /\ posts'[x].stamped = posts[x].stamped

HikeMove(h) ==
    \/ hikes'[h] = hikes[h]
    \/ hikes[h] = Absent /\ hikes'[h] \in HikeLogEntry
    \/ hikes'[h] = Deleted
    \/ /\ hikes[h] \in HikeLogEntry /\ hikes'[h] \in HikeLogEntry
       /\ hikes'[h].status \in {hikes[h].status, "removed"}

ReportMove(r) ==
    \/ reports'[r] = reports[r]
    \/ reports[r] = Absent /\ reports'[r] \in Report /\ reports'[r].status = "open"
    \/ /\ reports[r] \in Report /\ reports'[r] \in Report
       /\ reports'[r].target = reports[r].target
       /\ \E p \in Handlers : /\ At(p, "resolve_close") /\ handlers[p].report = r
                              /\ reports'[r].status = handlers[p].status

OutcomeMove(r) ==
    \/ r \in outcomes
    \/ \E p \in Handlers : At(p, "resolve_notify") /\ handlers[p].report = r

(* The handler of p comes to hold h.                                       *)
Becomes(p, h) ==
    \/ h.pc \in {"idle", "record_post", "record_link"}
    \/ h.pc = "edit_write" /\ UNCHANGED posts /\ posts[h.post].status = "draft"
    \/ /\ h.pc \in {"resolve_effect", "resolve_close"} /\ UNCHANGED reports
       /\ reports[h.report].status = "open"
       /\ h.pc = "resolve_close" /\ h.status = "resolved" =>
             reports[h.report].target.type = "mountain_field"
    \/ /\ h.pc \in {"resolve_owner", "resolve_notify", "resolve_close"} /\ UNCHANGED reports
       /\ handlers[p].pc \in {"resolve_effect", "resolve_owner", "resolve_notify"}
       /\ handlers[p].report = h.report
       /\ At(p, "resolve_effect") => Down(posts', hikes', reports[h.report].target)

PostsMove ==
    posts' \in [PostIds -> JourneyPost \cup {Absent, Deleted}] /\ \A x \in PostIds : PostMove(x)

HikesMove ==
    hikes' \in [HikeIds -> HikeLogEntry \cup {Absent, Deleted}] /\ \A h \in HikeIds : HikeMove(h)

ReportsMove ==
    /\ reports' \in [ReportIds -> Report \cup {Absent}] /\ \A r \in ReportIds : ReportMove(r)
    /\ outcomes' \subseteq ReportIds /\ \A r \in outcomes' : OutcomeMove(r)

HandlersMove ==
    /\ handlers' \in [Handlers -> HandlerStates]
    /\ \A p \in Handlers : handlers'[p] = handlers[p] \/ Becomes(p, handlers'[p])

Forms == PostsMove /\ HikesMove /\ ReportsMove /\ HandlersMove

-----------------------------------------------------------------------------
(* The records.                                                            *)

(* What a handler holds at each of its statements.                         *)
LEMMA PcTypes ==
    ASSUME TypeOK, NEW p \in Handlers
    PROVE  /\ At(p, "record_post") => handlers[p] \in RecordingPost
           /\ At(p, "record_link") => handlers[p] \in RecordingLink
           /\ At(p, "edit_write") => handlers[p] \in Editing
           /\ handlers[p].pc \in Resolutions => handlers[p] \in Resolving
           /\ handlers[p].pc \notin Resolutions \cup {"record_post", "record_link", "edit_write"}
                 => At(p, "idle")
BY DEF TypeOK, At, Idle, RecordingPost, RecordingLink, Editing, Resolving, Resolutions

(* Rows that are there.                                                    *)
LEMMA RowTypes ==
    ASSUME TypeOK
    PROVE  /\ \A x \in PostIds : Exists(posts[x]) <=> posts[x] \in JourneyPost
           /\ \A h \in HikeIds : Exists(hikes[h]) <=> hikes[h] \in HikeLogEntry
           /\ \A r \in ReportIds : reports[r] # Absent <=> reports[r] \in Report
           /\ \A x \in PostIds : posts[x].status \in {"draft", "published"} => Exists(posts[x])
BY DEF TypeOK, Exists, Absent, Deleted, JourneyPost, HikeLogEntry, Report

(* What an edit of one column makes of a post.                             *)
LEMMA PostStatus ==
    ASSUME NEW x \in JourneyPost, NEW s \in {"draft", "published"}
    PROVE  [x EXCEPT !.status = s] =
             [status |-> s, moderation |-> x.moderation, stamped |-> x.stamped,
              owner |-> x.owner, body |-> x.body]
BY DEF JourneyPost

(* As PostStatus, of the body.                                             *)
LEMMA PostBody ==
    ASSUME NEW x \in JourneyPost, NEW b \in Bodies
    PROVE  [x EXCEPT !.body = b] =
             [status |-> x.status, moderation |-> x.moderation, stamped |-> x.stamped,
              owner |-> x.owner, body |-> b]
BY DEF JourneyPost

(* As PostStatus, of the date.                                             *)
LEMMA PostStamp ==
    ASSUME NEW x \in JourneyPost, NEW v \in BOOLEAN
    PROVE  [x EXCEPT !.stamped = v] =
             [status |-> x.status, moderation |-> x.moderation, stamped |-> v,
              owner |-> x.owner, body |-> x.body]
BY DEF JourneyPost

(* As PostStatus, of the moderator's column.                               *)
LEMMA PostHidden ==
    ASSUME NEW x \in JourneyPost
    PROVE  [x EXCEPT !.moderation = "hidden"] =
             [status |-> x.status, moderation |-> "hidden", stamped |-> x.stamped,
              owner |-> x.owner, body |-> x.body]
BY DEF JourneyPost

(* What the author's two columns make of a post.                           *)
LEMMA WrittenPost ==
    ASSUME NEW x \in JourneyPost, NEW s \in {"draft", "published"}, NEW b \in Bodies
    PROVE  [[x EXCEPT !.status = s] EXCEPT !.body = b] =
             [status |-> s, moderation |-> x.moderation, stamped |-> x.stamped,
              owner |-> x.owner, body |-> b]
<1> DEFINE y == [x EXCEPT !.status = s]
<1>1. y = [status |-> s, moderation |-> x.moderation, stamped |-> x.stamped,
           owner |-> x.owner, body |-> x.body]
  BY PostStatus
<1>2. y \in JourneyPost
  BY <1>1 DEF JourneyPost
<1> HIDE DEF y
<1>3. [y EXCEPT !.body = b] =
         [status |-> y.status, moderation |-> y.moderation, stamped |-> y.stamped,
          owner |-> y.owner, body |-> b]
  BY <1>2, PostBody
<1> QED
  BY <1>1, <1>3 DEF y

(* What the publication makes of a post.                                   *)
LEMMA PublishedPost ==
    ASSUME NEW x \in JourneyPost, NEW s \in {"draft", "published"}, NEW v \in BOOLEAN
    PROVE  [[x EXCEPT !.status = s] EXCEPT !.stamped = v] =
             [status |-> s, moderation |-> x.moderation, stamped |-> v,
              owner |-> x.owner, body |-> x.body]
<1> DEFINE y == [x EXCEPT !.status = s]
<1>1. y = [status |-> s, moderation |-> x.moderation, stamped |-> x.stamped,
           owner |-> x.owner, body |-> x.body]
  BY PostStatus
<1>2. y \in JourneyPost
  BY <1>1 DEF JourneyPost
<1> HIDE DEF y
<1>3. [y EXCEPT !.stamped = v] =
         [status |-> y.status, moderation |-> y.moderation, stamped |-> v,
          owner |-> y.owner, body |-> y.body]
  BY <1>2, PostStamp
<1> QED
  BY <1>1, <1>3 DEF y

(* What a link and a removal make of a hike.                               *)
LEMMA EditedHike ==
    ASSUME NEW h \in HikeLogEntry, NEW x \in PostIds
    PROVE  /\ [h EXCEPT !.post = x] = [status |-> h.status, owner |-> h.owner, post |-> x]
           /\ [h EXCEPT !.status = "removed"] =
                [status |-> "removed", owner |-> h.owner, post |-> h.post]
BY DEF HikeLogEntry

(* What the closing makes of a report.                                     *)
LEMMA ClosedReport ==
    ASSUME NEW r \in Report, NEW s \in {"resolved", "dismissed"}
    PROVE  [r EXCEPT !.status = s] = [status |-> s, target |-> r.target]
BY DEF Report

(* What the next statement makes of a resolution's handler.                *)
LEMMA NextStatement ==
    ASSUME NEW h \in Resolving, NEW pc \in Resolutions
    PROVE  /\ [h EXCEPT !.pc = pc] = [pc |-> pc, report |-> h.report, status |-> h.status]
           /\ [h EXCEPT !.pc = pc] \in Resolving
BY DEF Resolving, Resolutions

(* A step of one handler.                                                  *)
LEMMA Turn ==
    ASSUME TypeOK, NEW p \in Handlers, NEW h \in HandlerStates,
           Continue(p, h), Becomes(p, h)
    PROVE  HandlersMove
<1>1. handlers \in [Handlers -> HandlerStates]
  BY DEF TypeOK, HandlerStates
<1>2. \A q \in Handlers : handlers'[q] = IF q = p THEN h ELSE handlers[q]
  BY <1>1 DEF Continue
<1> QED
  BY <1>1, <1>2 DEF HandlersMove, Continue

(* The end of a handler.                                                   *)
LEMMA TurnEnds ==
    ASSUME TypeOK, NEW p \in Handlers, Answer(p)
    PROVE  HandlersMove
<1>1. Idle \in HandlerStates /\ Becomes(p, Idle)
  BY DEF HandlerStates, Becomes, Idle
<1> QED
  BY <1>1, Turn DEF Answer

(* What is left alone moves trivially.                                     *)
LEMMA LeftAlone ==
    ASSUME TypeOK
    PROVE  /\ UNCHANGED posts => PostsMove
           /\ UNCHANGED hikes => HikesMove
           /\ UNCHANGED <<reports, outcomes>> => ReportsMove
           /\ UNCHANGED handlers => HandlersMove
<1>1. UNCHANGED posts => PostsMove
  BY DEF TypeOK, PostsMove, PostMove
<1>2. UNCHANGED hikes => HikesMove
  BY DEF TypeOK, HikesMove, HikeMove
<1>3. UNCHANGED <<reports, outcomes>> => ReportsMove
  BY DEF TypeOK, ReportsMove, ReportMove, OutcomeMove
<1>4. UNCHANGED handlers => HandlersMove
  BY DEF TypeOK, HandlersMove, HandlerStates
<1> QED
  BY <1>1, <1>2, <1>3, <1>4

-----------------------------------------------------------------------------
(* The actions.                                                            *)

(* Recording a hike, and its deletion.                                     *)
LEMMA HikeForms ==
    ASSUME IndInv
    PROVE  /\ \A p \in Handlers, h \in HikeIds, u \in Users, evidence, withPost \in BOOLEAN :
                 RecordHike(p, h, u, evidence, withPost) => Forms
           /\ \A p \in Handlers, x \in PostIds : RecordPost(p, x) => Forms
           /\ \A p \in Handlers : RecordLink(p) => Forms
           /\ \A h \in HikeIds : DeleteMyHike(h) => Forms
<1> TypeOK
  BY DEF IndInv
<1>1. ASSUME NEW p \in Handlers, NEW h \in HikeIds, NEW u \in Users,
             NEW evidence \in BOOLEAN, NEW withPost \in BOOLEAN,
             RecordHike(p, h, u, evidence, withPost)
      PROVE  Forms
  <2> DEFINE new == [status |-> HikeStatus(evidence), owner |-> u, post |-> None]
  <2>1. new \in HikeLogEntry
    BY DEF HikeLogEntry, HikeStatus
  <2>2. hikes[h] = Absent /\ hikes' = [hikes EXCEPT ![h] = new]
    BY <1>1 DEF RecordHike
  <2>3. HikesMove
    BY <2>1, <2>2 DEF HikesMove, HikeMove, TypeOK
  <2>4. HandlersMove
    <3>1. ASSUME NEW visibility \in {"draft", "published"}, NEW b \in Bodies,
                 Continue(p, [pc |-> "record_post", hike |-> h, owner |-> u,
                              status |-> visibility, body |-> b])
          PROVE  HandlersMove
      <4> DEFINE held == [pc |-> "record_post", hike |-> h, owner |-> u,
                          status |-> visibility, body |-> b]
      <4>1. held \in HandlerStates /\ Becomes(p, held) /\ Continue(p, held)
        BY <3>1 DEF HandlerStates, RecordingPost, Becomes
      <4> HIDE DEF held
      <4> QED
        BY <4>1, Turn
    <3> QED
      BY <1>1, <3>1, LeftAlone DEF RecordHike
  <2> QED
    BY <1>1, <2>3, <2>4, LeftAlone DEF Forms, RecordHike
<1>2. ASSUME NEW p \in Handlers, NEW x \in PostIds, RecordPost(p, x)
      PROVE  Forms
  <2>1. handlers[p] \in RecordingPost
    BY <1>2, PcTypes DEF RecordPost
  <2> DEFINE new == NewPost(handlers[p].owner, handlers[p].status, handlers[p].body)
             held == [pc |-> "record_link", hike |-> handlers[p].hike, post |-> x]
  <2>2. new \in JourneyPost /\ new.moderation = "visible"
    BY <2>1 DEF NewPost, JourneyPost, RecordingPost
  <2>3. posts[x] = Absent /\ posts' = [posts EXCEPT ![x] = new]
    BY <1>2 DEF RecordPost, InsertPost
  <2> HIDE DEF new
  <2>4. PostsMove
    BY <2>2, <2>3 DEF PostsMove, PostMove, TypeOK
  <2>5. held \in HandlerStates /\ Becomes(p, held) /\ Continue(p, held)
    BY <1>2, <2>1 DEF RecordPost, HandlerStates, RecordingLink, RecordingPost, Becomes
  <2> HIDE DEF held
  <2>6. HandlersMove
    BY <2>5, Turn
  <2> QED
    BY <1>2, <2>4, <2>6, LeftAlone DEF Forms, RecordPost
<1>3. ASSUME NEW p \in Handlers, RecordLink(p)
      PROVE  Forms
  <2>1. handlers[p] \in RecordingLink
    BY <1>3, PcTypes DEF RecordLink
  <2>2. handlers[p].hike \in HikeIds /\ handlers[p].post \in PostIds
    BY <2>1 DEF RecordingLink
  <2>3. HikesMove
    <3>1. CASE Exists(hikes[handlers[p].hike])
      <4> DEFINE old == hikes[handlers[p].hike]
                 new == [old EXCEPT !.post = handlers[p].post]
      <4>1. old \in HikeLogEntry
        BY <2>2, <3>1, RowTypes
      <4>2. new = [status |-> old.status, owner |-> old.owner, post |-> handlers[p].post]
        <5> HIDE DEF old
        <5> QED
          BY <2>2, <4>1, EditedHike
      <4>3. new \in HikeLogEntry /\ new.status = old.status
        <5> HIDE DEF old, new
        <5> QED
          BY <2>2, <4>1, <4>2 DEF HikeLogEntry
      <4>4. hikes' = [hikes EXCEPT ![handlers[p].hike] = new]
        BY <1>3, <3>1 DEF RecordLink
      <4> HIDE DEF new
      <4> QED
        BY <2>2, <4>1, <4>3, <4>4 DEF HikesMove, HikeMove, TypeOK
    <3>2. CASE ~ Exists(hikes[handlers[p].hike])
      BY <1>3, <3>2, LeftAlone DEF RecordLink
    <3> QED
      BY <3>1, <3>2
  <2> QED
    BY <1>3, <2>3, LeftAlone, TurnEnds DEF Forms, RecordLink
<1>4. ASSUME NEW h \in HikeIds, DeleteMyHike(h)
      PROVE  Forms
  <2>1. HikesMove
    BY <1>4 DEF DeleteMyHike, HikesMove, HikeMove, TypeOK
  <2> QED
    BY <1>4, <2>1, LeftAlone DEF Forms, DeleteMyHike
<1> QED
  BY <1>1, <1>2, <1>3, <1>4

(* The author and the post.                                                *)
LEMMA PostForms ==
    ASSUME IndInv
    PROVE  /\ \A x \in PostIds, u \in Users, visibility \in {"draft", "published"}, b \in Bodies :
                 CreatePost(x, u, visibility, b) => Forms
           /\ \A p \in Handlers, x \in PostIds, visibility \in {"draft", "published"},
                 b \in Bodies : EditFind(p, x, visibility, b) => Forms
           /\ \A p \in Handlers : EditWrite(p) => Forms
           /\ \A x \in PostIds : PublishPost(x) \/ DeletePost(x) => Forms
<1> TypeOK
  BY DEF IndInv
<1>1. ASSUME NEW x \in PostIds, NEW u \in Users, NEW visibility \in {"draft", "published"},
             NEW b \in Bodies, CreatePost(x, u, visibility, b)
      PROVE  Forms
  <2> DEFINE new == NewPost(u, visibility, b)
  <2>1. new \in JourneyPost /\ new.moderation = "visible"
    BY DEF NewPost, JourneyPost
  <2>2. posts[x] = Absent /\ posts' = [posts EXCEPT ![x] = new]
    BY <1>1 DEF CreatePost, InsertPost
  <2> HIDE DEF new
  <2>3. PostsMove
    BY <2>1, <2>2 DEF PostsMove, PostMove, TypeOK
  <2> QED
    BY <1>1, <2>3, LeftAlone DEF Forms, CreatePost
<1>2. ASSUME NEW p \in Handlers, NEW x \in PostIds,
             NEW visibility \in {"draft", "published"}, NEW b \in Bodies,
             EditFind(p, x, visibility, b)
      PROVE  Forms
  <2> DEFINE old == posts[x]
             row == [[old EXCEPT !.status = visibility] EXCEPT !.body = b]
             held == [pc |-> "edit_write", post |-> x, row |-> row]
  <2>1. old.status = "draft" /\ old \in JourneyPost
    BY <1>2, RowTypes DEF EditFind
  <2>2. row = [status |-> visibility, moderation |-> old.moderation, stamped |-> old.stamped,
               owner |-> old.owner, body |-> b]
    <3> HIDE DEF old
    <3> QED
      BY <2>1, WrittenPost
  <2>3. row \in JourneyPost
    <3> HIDE DEF old, row
    <3> QED
      BY <2>1, <2>2 DEF JourneyPost
  <2>4. Continue(p, held) /\ UNCHANGED posts
    BY <1>2 DEF EditFind
  <2> HIDE DEF row
  <2>5. held \in HandlerStates /\ Becomes(p, held)
    BY <2>1, <2>3, <2>4 DEF HandlerStates, Editing, Becomes
  <2> HIDE DEF held
  <2>6. HandlersMove
    BY <2>4, <2>5, Turn
  <2> QED
    BY <1>2, <2>6, LeftAlone DEF Forms, EditFind
<1>3. ASSUME NEW p \in Handlers, EditWrite(p)
      PROVE  Forms
  <2>1. At(p, "edit_write") /\ handlers[p] \in Editing
    BY <1>3, PcTypes DEF EditWrite
  <2> DEFINE x == handlers[p].post
             s == handlers[p].row.status
             b == handlers[p].row.body
  <2>2. x \in PostIds /\ s \in {"draft", "published"} /\ b \in Bodies
    BY <2>1 DEF Editing, JourneyPost
  <2>3. CASE Exists(posts[x])
    <3> DEFINE old == posts[x]
               row == [[old EXCEPT !.status = s] EXCEPT !.body = b]
    <3>1. old \in JourneyPost
      BY <2>2, <2>3, RowTypes
    <3>2. row = [status |-> s, moderation |-> old.moderation, stamped |-> old.stamped,
                 owner |-> old.owner, body |-> b]
      <4> HIDE DEF old, s, b
      <4> QED
        BY <2>2, <3>1, WrittenPost
    <3>3. row \in JourneyPost /\ row.moderation = old.moderation
      <4> HIDE DEF old, row, s, b
      <4> QED
        BY <2>2, <3>1, <3>2 DEF JourneyPost
    <3>4. posts' = [posts EXCEPT ![x] = row]
      BY <1>3, <2>2, <2>3 DEF EditWrite, TypeOK
    <3>5. PostsMove
      <4> HIDE DEF row
      <4> QED
        BY <2>1, <2>2, <3>1, <3>3, <3>4 DEF PostsMove, PostMove, TypeOK
    <3> QED
      BY <1>3, <3>5, LeftAlone, TurnEnds DEF Forms, EditWrite
  <2>4. CASE ~ Exists(posts[x])
    BY <1>3, <2>4, LeftAlone, TurnEnds DEF Forms, EditWrite
  <2> QED
    BY <2>3, <2>4
<1>4. ASSUME NEW x \in PostIds, PublishPost(x)
      PROVE  Forms
  <2> DEFINE old == posts[x]
             row == [[old EXCEPT !.status = "published"] EXCEPT !.stamped = TRUE]
  <2>1. old.status = "draft" /\ old \in JourneyPost
    BY <1>4, RowTypes DEF PublishPost
  <2>2. "published" \in {"draft", "published"} /\ TRUE \in BOOLEAN
    OBVIOUS
  <2>3. row = [status |-> "published", moderation |-> old.moderation, stamped |-> TRUE,
               owner |-> old.owner, body |-> old.body]
    <3> HIDE DEF old
    <3> QED
      BY <2>1, <2>2, PublishedPost, Zenon
  <2>4. row \in JourneyPost /\ row.moderation = old.moderation
    <3> HIDE DEF old, row
    <3> QED
      BY <2>1, <2>2, <2>3 DEF JourneyPost
  <2>5. posts' = [posts EXCEPT ![x] = row]
    BY <1>4 DEF PublishPost, TypeOK
  <2>6. PostsMove
    <3> HIDE DEF row
    <3> QED
      BY <2>1, <2>4, <2>5 DEF PostsMove, PostMove, TypeOK
  <2> QED
    BY <1>4, <2>6, LeftAlone DEF Forms, PublishPost
<1>5. ASSUME NEW x \in PostIds, DeletePost(x)
      PROVE  Forms
  <2>1. PostsMove
    BY <1>5 DEF DeletePost, PostsMove, PostMove, TypeOK
  <2> QED
    BY <1>5, <2>1, LeftAlone DEF Forms, DeletePost
<1> QED
  BY <1>1, <1>2, <1>3, <1>4, <1>5

(* What a resolution's handler is about.                                   *)
LEMMA TargetTypes ==
    ASSUME IndInv, NEW p \in Handlers, handlers[p].pc \in Resolutions
    PROVE  /\ handlers[p] \in Resolving /\ handlers[p].report \in ReportIds
           /\ reports[handlers[p].report] \in Report
           /\ TargetOf(p) \in Target
<1>1. handlers[p] \in Resolving /\ handlers[p].report \in ReportIds
  BY PcTypes DEF IndInv, Resolving
<1>2. reports[handlers[p].report] \in Report
  BY <1>1, RowTypes DEF IndInv, HandlersKnow
<1> QED
  BY <1>1, <1>2 DEF Report, TargetOf

(* The next statement of a resolution whose report is not closed by it.    *)
LEMMA ResolutionGoesOn ==
    ASSUME IndInv, NEW p \in Handlers,
           NEW pc \in {"resolve_owner", "resolve_notify", "resolve_close"},
           handlers[p].pc \in {"resolve_effect", "resolve_owner", "resolve_notify"},
           At(p, "resolve_effect") => Down(posts', hikes', TargetOf(p)), UNCHANGED reports,
           Continue(p, [handlers[p] EXCEPT !.pc = pc])
    PROVE  HandlersMove
<1> DEFINE held == [handlers[p] EXCEPT !.pc = pc]
<1>1. handlers[p] \in Resolving /\ pc \in Resolutions
  BY TargetTypes DEF Resolutions
<1>2. held = [pc |-> pc, report |-> handlers[p].report, status |-> handlers[p].status]
      /\ held \in Resolving
  BY <1>1, NextStatement
<1>3. Continue(p, held)
  OBVIOUS
<1> HIDE DEF held
<1>4. held.pc = pc /\ held.report = handlers[p].report /\ held \in HandlerStates
  BY <1>2 DEF HandlerStates
<1>5. At(p, "resolve_effect") => Down(posts', hikes', reports[held.report].target)
  BY <1>4 DEF TargetOf
<1>6. Becomes(p, held)
  BY <1>4, <1>5 DEF Becomes
<1> QED
  BY <1>3, <1>4, <1>6, Turn DEF IndInv

(* Reports and their resolution.                                           *)
LEMMA ReportForms ==
    ASSUME IndInv
    PROVE  /\ \A r \in ReportIds, target \in Target : CreateReport(r, target) => Forms
           /\ \A p \in Handlers, r \in ReportIds, status \in {"resolved", "dismissed"} :
                 ResolveFind(p, r, status) => Forms
           /\ \A p \in Handlers : ResolveEffect(p) => Forms
           /\ \A p \in Handlers : ResolveOwner(p) => Forms
           /\ \A p \in Handlers : ResolveNotify(p) => Forms
           /\ \A p \in Handlers : ResolveClose(p) => Forms
<1> TypeOK
  BY DEF IndInv
<1>1. ASSUME NEW r \in ReportIds, NEW target \in Target, CreateReport(r, target)
      PROVE  Forms
  <2> DEFINE new == [status |-> "open", target |-> target]
  <2>1. new \in Report /\ new.status = "open"
    BY DEF Report
  <2>2. /\ reports[r] = Absent /\ reports' = [reports EXCEPT ![r] = new]
        /\ UNCHANGED outcomes
    BY <1>1 DEF CreateReport
  <2> HIDE DEF new
  <2>3. ReportsMove
    BY <2>1, <2>2 DEF ReportsMove, ReportMove, OutcomeMove, TypeOK
  <2> QED
    BY <1>1, <2>3, LeftAlone DEF Forms, CreateReport
<1>2. ASSUME NEW p \in Handlers, NEW r \in ReportIds, NEW status \in {"resolved", "dismissed"},
             ResolveFind(p, r, status)
      PROVE  Forms
  <2> DEFINE pc == FirstStep(reports[r].target, status)
             held == [pc |-> pc, report |-> r, status |-> status]
  <2>1. /\ pc \in {"resolve_effect", "resolve_close"}
        /\ pc = "resolve_close" /\ status = "resolved" => reports[r].target.type = "mountain_field"
    BY DEF FirstStep
  <2>2. /\ Continue(p, held) /\ UNCHANGED reports /\ reports[r].status = "open"
    BY <1>2 DEF ResolveFind
  <2> HIDE DEF pc
  <2>3. held \in HandlerStates /\ Becomes(p, held)
    BY <2>1, <2>2 DEF HandlerStates, Resolving, Becomes
  <2> HIDE DEF held
  <2>4. HandlersMove
    BY <2>2, <2>3, Turn
  <2> QED
    BY <1>2, <2>4, LeftAlone DEF Forms, ResolveFind
<1>3. ASSUME NEW p \in Handlers, ResolveEffect(p)
      PROVE  Forms
  <2> DEFINE target == TargetOf(p)
  <2>1. At(p, "resolve_effect") /\ target \in Target
    BY <1>3, TargetTypes DEF ResolveEffect, At, Resolutions
  <2>2. UNCHANGED <<reports, outcomes>>
    BY <1>3 DEF ResolveEffect
  <2>3. CASE target.type = "journey_post" /\ TargetExists(target)
    <3> DEFINE x == target.id
               row == [posts[x] EXCEPT !.moderation = "hidden"]
    <3>1. x \in PostIds /\ posts[x] \in JourneyPost
      BY <2>1, <2>3, RowTypes DEF Target, TargetExists
    <3>2. row = [status |-> posts[x].status, moderation |-> "hidden",
                 stamped |-> posts[x].stamped, owner |-> posts[x].owner, body |-> posts[x].body]
      BY <3>1, PostHidden
    <3>3. /\ row \in JourneyPost /\ row.moderation = "hidden" /\ row.status = posts[x].status
          /\ row.body = posts[x].body /\ row.stamped = posts[x].stamped
      <4> HIDE DEF row
      <4> QED
        BY <3>1, <3>2 DEF JourneyPost
    <3>4. posts' = [posts EXCEPT ![x] = row] /\ UNCHANGED hikes
      BY <1>3, <2>3 DEF ResolveEffect
    <3> HIDE DEF row
    <3>5. PostsMove /\ posts'[x] = row
      BY <3>1, <3>3, <3>4 DEF PostsMove, PostMove, TypeOK
    <3>6. Down(posts', hikes', target)
      BY <2>3, <3>3, <3>5 DEF Down, Exists, JourneyPost
    <3>7. Continue(p, [handlers[p] EXCEPT !.pc = "resolve_owner"])
      BY <1>3, <2>3 DEF ResolveEffect
    <3>8. HandlersMove
      BY <2>1, <2>2, <3>6, <3>7, ResolutionGoesOn DEF At
    <3> QED
      BY <2>2, <3>4, <3>5, <3>8, LeftAlone DEF Forms
  <2>4. CASE target.type = "hike_evidence" /\ TargetExists(target)
    <3> DEFINE h == target.id
               row == [hikes[h] EXCEPT !.status = "removed"]
    <3>1. h \in HikeIds /\ hikes[h] \in HikeLogEntry
      BY <2>1, <2>4, RowTypes DEF Target, TargetExists
    <3>2. row = [status |-> "removed", owner |-> hikes[h].owner, post |-> hikes[h].post]
      BY <3>1 DEF HikeLogEntry
    <3>3. row \in HikeLogEntry /\ row.status = "removed"
      <4> HIDE DEF row
      <4> QED
        BY <3>1, <3>2 DEF HikeLogEntry
    <3>4. hikes' = [hikes EXCEPT ![h] = row] /\ UNCHANGED posts
      BY <1>3, <2>4 DEF ResolveEffect
    <3> HIDE DEF row
    <3>5. HikesMove /\ hikes'[h] = row
      BY <3>1, <3>3, <3>4 DEF HikesMove, HikeMove, TypeOK
    <3>6. Down(posts', hikes', target)
      BY <2>4, <3>3, <3>5 DEF Down
    <3>7. Continue(p, [handlers[p] EXCEPT !.pc = "resolve_owner"])
      BY <1>3, <2>4 DEF ResolveEffect
    <3>8. HandlersMove
      BY <2>1, <2>2, <3>6, <3>7, ResolutionGoesOn DEF At
    <3> QED
      BY <2>2, <3>4, <3>5, <3>8, LeftAlone DEF Forms
  <2>5. CASE ~ TargetExists(target)
    BY <1>3, <2>5, LeftAlone, TurnEnds DEF Forms, ResolveEffect
  <2> QED
    BY <2>3, <2>4, <2>5 DEF TargetExists
<1>4. ASSUME NEW p \in Handlers, ResolveOwner(p)
      PROVE  Forms
  <2>1. PICK pc \in {"resolve_notify", "resolve_close"} :
           Continue(p, [handlers[p] EXCEPT !.pc = pc])
    BY <1>4 DEF ResolveOwner
  <2>2. handlers[p].pc = "resolve_owner" /\ UNCHANGED <<posts, hikes, reports, outcomes>>
    BY <1>4 DEF ResolveOwner, At
  <2>3. HandlersMove
    BY <2>1, <2>2, ResolutionGoesOn DEF At
  <2> QED
    BY <2>2, <2>3, LeftAlone DEF Forms
<1>5. ASSUME NEW p \in Handlers, ResolveNotify(p)
      PROVE  Forms
  <2>1. handlers[p].pc = "resolve_notify" /\ UNCHANGED <<posts, hikes, reports>>
    BY <1>5 DEF ResolveNotify, At
  <2>2. handlers[p].report \in ReportIds
    BY <2>1, TargetTypes DEF Resolutions
  <2>3. ReportsMove
    BY <1>5, <2>1, <2>2 DEF ResolveNotify, ReportsMove, ReportMove, OutcomeMove, TypeOK, At
  <2>4. HandlersMove
    BY <1>5, <2>1, ResolutionGoesOn DEF At, ResolveNotify
  <2> QED
    BY <2>1, <2>3, <2>4, LeftAlone DEF Forms
<1>6. ASSUME NEW p \in Handlers, ResolveClose(p)
      PROVE  Forms
  <2> DEFINE r == handlers[p].report
             row == [reports[r] EXCEPT !.status = handlers[p].status]
  <2>1. /\ At(p, "resolve_close") /\ r \in ReportIds /\ reports[r] \in Report
        /\ handlers[p].status \in {"resolved", "dismissed"}
    BY <1>6, TargetTypes DEF ResolveClose, At, Resolutions, Resolving
  <2>2. row = [status |-> handlers[p].status, target |-> reports[r].target]
    BY <2>1, ClosedReport
  <2>3. row \in Report /\ row.target = reports[r].target /\ row.status = handlers[p].status
    <3> HIDE DEF row
    <3> QED
      BY <2>1, <2>2 DEF Report
  <2>4. reports' = [reports EXCEPT ![r] = row] /\ UNCHANGED outcomes
    BY <1>6 DEF ResolveClose
  <2>5. ReportsMove
    <3> HIDE DEF row
    <3> QED
      BY <2>1, <2>3, <2>4 DEF ReportsMove, ReportMove, OutcomeMove, TypeOK
  <2> QED
    BY <1>6, <2>5, LeftAlone, TurnEnds DEF Forms, ResolveClose
<1> QED
  BY <1>1, <1>2, <1>3, <1>4, <1>5, <1>6

(* Every step moves rows and handlers in these forms.                      *)
LEMMA StepForms == IndInv /\ [Next]_vars => Forms
<1> SUFFICES ASSUME IndInv, [Next]_vars
             PROVE  Forms
  OBVIOUS
<1> TypeOK
  BY DEF IndInv
<1>1. ASSUME NEW p \in Handlers, StatementFails(p)
      PROVE  Forms
  <2>1. UNCHANGED <<posts, hikes, reports, outcomes>>
    BY <1>1 DEF StatementFails
  <2>2. HandlersMove
    <3>1. CASE At(p, "resolve_owner") \/ At(p, "resolve_notify")
      BY <1>1, <2>1, <3>1, ResolutionGoesOn DEF StatementFails, At
    <3>2. CASE ~ (At(p, "resolve_owner") \/ At(p, "resolve_notify"))
      BY <1>1, <3>2, TurnEnds DEF StatementFails
    <3> QED
      BY <3>1, <3>2
  <2> QED
    BY <2>1, <2>2, LeftAlone DEF Forms
<1>2. ASSUME Restart
      PROVE  Forms
  <2>1. HandlersMove
    BY <1>2 DEF Restart, HandlersMove, HandlerStates, Becomes, Idle
  <2> QED
    BY <1>2, <2>1, LeftAlone DEF Forms, Restart
<1>3. ASSUME NEW p \in Handlers, Proceed(p)
      PROVE  Forms
  BY <1>1, <1>3, HikeForms, PostForms, ReportForms DEF Proceed
<1>4. UNCHANGED vars => Forms
  BY LeftAlone DEF vars, Forms
<1> QED
  BY <1>2, <1>3, <1>4, HikeForms, PostForms, ReportForms DEF Next

-----------------------------------------------------------------------------
(* The invariant holds.                                                    *)

(* The forms keep the types.                                               *)
LEMMA TypeStep == Forms => TypeOK'
BY DEF Forms, PostsMove, HikesMove, ReportsMove, HandlersMove, HandlerStates, TypeOK

(* Content that is taken down stays so.                                    *)
LEMMA DownStays ==
    ASSUME IndInv, Forms, NEW target \in Target, Down(posts, hikes, target)
    PROVE  Down(posts', hikes', target)
<1>1. ASSUME target.type = "journey_post"
      PROVE  \/ posts'[target.id] = Deleted
             \/ Exists(posts'[target.id]) /\ posts'[target.id].moderation = "hidden"
  <2> DEFINE x == target.id
  <2>1. x \in PostIds
    BY <1>1 DEF Target
  <2>2. PostMove(x) /\ posts[x] # Absent
    BY <1>1, <2>1 DEF Forms, PostsMove, Down, Exists, Absent, Deleted
  <2>3. CASE posts'[x] = posts[x]
    BY <1>1, <2>3 DEF Down
  <2>4. CASE /\ posts[x] \in JourneyPost /\ posts'[x] \in JourneyPost
             /\ posts'[x].moderation \in {posts[x].moderation, "hidden"}
    BY <1>1, <2>4 DEF Down, Exists, JourneyPost, Deleted
  <2> QED
    BY <2>2, <2>3, <2>4 DEF PostMove
<1>2. ASSUME target.type = "hike_evidence"
      PROVE  hikes'[target.id].status \in {"deleted", "removed"}
  <2> DEFINE h == target.id
  <2>1. h \in HikeIds
    BY <1>2 DEF Target
  <2>2. HikeMove(h) /\ hikes[h].status \in {"deleted", "removed"}
    BY <1>2, <2>1 DEF Forms, HikesMove, Down
  <2>3. hikes[h] # Absent /\ (hikes[h] \in HikeLogEntry => hikes[h].status = "removed")
    BY <2>2 DEF Absent, HikeLogEntry
  <2> QED
    BY <2>2, <2>3 DEF HikeMove, Deleted
<1> QED
  BY <1>1, <1>2 DEF Down

(* A report stays about what it is about.                                  *)
LEMMA TargetStays ==
    ASSUME IndInv, Forms, NEW r \in ReportIds, reports[r] # Absent
    PROVE  reports[r].target \in Target /\ reports'[r] # Absent
           /\ reports'[r].target = reports[r].target
<1>1. reports[r] \in Report
  BY RowTypes DEF IndInv
<1>2. \A row \in Report : row # Absent /\ row.target \in Target
  BY DEF Report, Absent
<1>3. ReportMove(r)
  BY DEF Forms, ReportsMove
<1> QED
  BY <1>1, <1>2, <1>3 DEF ReportMove

(* What handlers know they go on knowing, and a handler that passes the    *)
(* effect of its resolution comes to know it.                              *)
LEMMA KnowStep == IndInv /\ Forms => HandlersKnow'
<1> SUFFICES ASSUME IndInv, Forms, NEW p \in Handlers, handlers'[p].pc \in Resolutions
             PROVE  /\ reports'[handlers'[p].report] # Absent
                    /\ \/ handlers'[p].pc \in {"resolve_owner", "resolve_notify"}
                       \/ handlers'[p].pc = "resolve_close" /\ handlers'[p].status = "resolved"
                       => Down(posts', hikes', reports'[handlers'[p].report].target)
  BY DEF HandlersKnow, TargetOf, At, Resolutions
<1> DEFINE h == handlers'[p]
           r == h.report
<1>1. h \in Resolving /\ r \in ReportIds
  BY DEF Forms, HandlersMove, HandlerStates, Idle, RecordingPost, RecordingLink, Editing,
     Resolving, Resolutions
<1>2. CASE h = handlers[p]
  <2>1. reports[r] # Absent
    BY <1>2 DEF IndInv, HandlersKnow
  <2>2. \/ h.pc \in {"resolve_owner", "resolve_notify"}
        \/ h.pc = "resolve_close" /\ h.status = "resolved"
        => Down(posts, hikes, reports[r].target)
    BY <1>2 DEF IndInv, HandlersKnow, At, TargetOf
  <2> QED
    BY <1>1, <2>1, <2>2, TargetStays, DownStays
<1>3. CASE /\ h.pc \in {"resolve_effect", "resolve_close"} /\ UNCHANGED reports
           /\ reports[r].status = "open"
           /\ h.pc = "resolve_close" /\ h.status = "resolved" =>
                 reports[r].target.type = "mountain_field"
  <2>1. reports'[r] # Absent
    BY <1>3 DEF Absent
  <2> HIDE DEF h
  <2> QED
    BY <1>3, <2>1 DEF Down, h
<1>4. CASE /\ h.pc \in {"resolve_owner", "resolve_notify", "resolve_close"} /\ UNCHANGED reports
           /\ handlers[p].pc \in {"resolve_effect", "resolve_owner", "resolve_notify"}
           /\ handlers[p].report = r
           /\ At(p, "resolve_effect") => Down(posts', hikes', reports[r].target)
  <2>1. reports[r] # Absent
    BY <1>4 DEF IndInv, HandlersKnow, Resolutions
  <2>2. CASE handlers[p].pc \in {"resolve_owner", "resolve_notify"}
    <3>1. Down(posts, hikes, reports[r].target)
      BY <1>4, <2>2 DEF IndInv, HandlersKnow, TargetOf
    <3> QED
      BY <1>1, <1>4, <2>1, <3>1, TargetStays, DownStays
  <2>3. CASE At(p, "resolve_effect")
    BY <1>4, <2>1, <2>3
  <2> QED
    BY <1>4, <2>2, <2>3 DEF At
<1>5. h = handlers[p] \/ Becomes(p, h)
  BY DEF Forms, HandlersMove
<1> QED
  BY <1>1, <1>2, <1>3, <1>4, <1>5 DEF Becomes, Resolutions

(* A report comes to be resolved, and its owner told, by handlers that know*)
(* the content taken down.                                                 *)
LEMMA HoldStep == IndInv /\ Forms => ResolutionsHold' /\ OutcomesKnown'
<1> SUFFICES ASSUME IndInv, Forms
             PROVE  ResolutionsHold' /\ OutcomesKnown'
  OBVIOUS
<1>1. ASSUME NEW r \in ReportIds, reports[r] # Absent, Down(posts, hikes, reports[r].target)
      PROVE  reports'[r] # Absent /\ Down(posts', hikes', reports'[r].target)
  BY <1>1, TargetStays, DownStays
<1>2. ASSUME NEW r \in ReportIds, r \in outcomes
      PROVE  reports[r] # Absent /\ Down(posts, hikes, reports[r].target)
  BY <1>2 DEF IndInv, OutcomesKnown, ResolutionsHold, TakenDown, Down
<1>3. ASSUME NEW r \in ReportIds, reports[r].status = "resolved"
      PROVE  reports[r] # Absent /\ Down(posts, hikes, reports[r].target)
  BY <1>3 DEF IndInv, Absent, ResolutionsHold, TakenDown, Down
<1>4. ASSUME NEW r \in outcomes'
      PROVE  reports'[r] # Absent /\ Down(posts', hikes', reports'[r].target)
  <2>1. r \in ReportIds /\ OutcomeMove(r)
    BY <1>4 DEF Forms, ReportsMove
  <2>2. ASSUME NEW p \in Handlers, At(p, "resolve_notify"), handlers[p].report = r
        PROVE  reports[r] # Absent /\ Down(posts, hikes, reports[r].target)
    BY <2>2 DEF IndInv, HandlersKnow, At, Resolutions, TargetOf
  <2> QED
    BY <1>1, <1>2, <2>1, <2>2 DEF OutcomeMove
<1>5. ASSUME NEW r \in ReportIds, reports'[r].status = "resolved"
      PROVE  Down(posts', hikes', reports'[r].target)
  <2>1. ReportMove(r)
    BY DEF Forms, ReportsMove
  <2>2. CASE reports'[r] = reports[r]
    BY <1>1, <1>3, <1>5, <2>2
  <2>3. ASSUME NEW p \in Handlers, At(p, "resolve_close"), handlers[p].report = r,
               handlers[p].status = "resolved"
        PROVE  Down(posts', hikes', reports'[r].target)
    <3>1. reports[r] # Absent /\ Down(posts, hikes, reports[r].target)
      BY <2>3 DEF IndInv, HandlersKnow, At, Resolutions, TargetOf
    <3> QED
      BY <1>1, <3>1
  <2> QED
    BY <1>5, <2>1, <2>2, <2>3 DEF ReportMove
<1>6. \A r \in outcomes' : r \in ReportIds
  BY DEF Forms, ReportsMove
<1> QED
  BY <1>4, <1>5, <1>6 DEF ResolutionsHold, OutcomesKnown, TakenDown, Down

(* The invariant is inductive.                                             *)
LEMMA Inductive == Spec => []IndInv
<1>1. Init => IndInv
  BY DEF Init, IndInv, TypeOK, ResolutionsHold, HandlersKnow, OutcomesKnown, Absent, Idle,
     At, Resolutions
<1>2. IndInv /\ [Next]_vars => IndInv'
  BY StepForms, TypeStep, KnowStep, HoldStep DEF IndInv
<1> QED
  BY <1>1, <1>2, PTL DEF Spec

(* Rows, handlers and outcomes keep their types.                           *)
THEOREM TypeCorrect == Spec => []TypeOK
BY Inductive, PTL DEF IndInv

(* The content of a resolved report, or of one whose outcome was told, is  *)
(* and stays taken down.                                                   *)
THEOREM ResolutionsStay == Spec => []ResolutionsHold
BY Inductive, PTL DEF IndInv

-----------------------------------------------------------------------------
(* The step properties.                                                    *)

(* Nothing but deletion undoes a moderation.                               *)
THEOREM ModerationStays == Spec => ModerationIsFinal
<1> DEFINE Claim ==
       /\ \A x \in PostIds :
             Exists(posts[x]) /\ posts[x].moderation = "hidden" =>
                 posts'[x] = Deleted \/ posts'[x].moderation = "hidden"
       /\ \A h \in HikeIds :
             hikes[h].status = "removed" => hikes'[h].status \in {"removed", "deleted"}
<1>1. ASSUME IndInv, [Next]_vars
      PROVE  Claim
  <2>1. Forms
    BY <1>1, StepForms
  <2>2. ASSUME NEW x \in PostIds, Exists(posts[x]), posts[x].moderation = "hidden"
        PROVE  posts'[x] = Deleted \/ posts'[x].moderation = "hidden"
    BY <2>1, <2>2 DEF Forms, PostsMove, PostMove, Exists, Absent
  <2>3. ASSUME NEW h \in HikeIds, hikes[h].status = "removed"
        PROVE  hikes'[h].status \in {"removed", "deleted"}
    BY <2>1, <2>3 DEF Forms, HikesMove, HikeMove, Absent, Deleted
  <2> QED
    BY <2>2, <2>3
<1>2. IndInv /\ [Next]_vars => Claim
  BY <1>1
<1>3. Claim => [Claim]_vars
  OBVIOUS
<1> QED
  BY <1>2, Inductive, PTL DEF Spec, ModerationIsFinal

(* A published post that no edit in flight has read as a draft stays as it *)
(* is until it is deleted.                                                 *)
THEOREM PublicationsSettle == Spec => PublishedSettles
<1> DEFINE Claim == \A x \in PostIds :
              Published(x) =>
                  \/ posts'[x] = Deleted
                  \/ /\ Published(x)'
                     /\ posts'[x].body = posts[x].body
                     /\ posts'[x].stamped = posts[x].stamped
<1>1. ASSUME IndInv, [Next]_vars, NEW x \in PostIds, Published(x), posts'[x] # Deleted
      PROVE  /\ Published(x)'
             /\ posts'[x].body = posts[x].body /\ posts'[x].stamped = posts[x].stamped
  <2>1. Forms
    BY <1>1, StepForms
  <2>2. /\ posts'[x].status = "published"
        /\ posts'[x].body = posts[x].body /\ posts'[x].stamped = posts[x].stamped
    BY <1>1, <2>1 DEF Forms, PostsMove, PostMove, Published, Absent
  <2>3. ASSUME NEW p \in Handlers, handlers'[p].pc = "edit_write"
        PROVE  handlers'[p].post # x
    BY <1>1, <2>1, <2>3 DEF Forms, HandlersMove, Becomes, Published, At
  <2> QED
    BY <2>2, <2>3 DEF Published, At
<1>2. IndInv /\ [Next]_vars => Claim
  BY <1>1
<1>3. Claim => [Claim]_vars
  OBVIOUS
<1> QED
  BY <1>2, Inductive, PTL DEF Spec, PublishedSettles

(* A closed report that no resolution in flight has read as open stays     *)
(* closed as it is.                                                        *)
THEOREM ClosingsSettle == Spec => ClosedSettles
<1> DEFINE Claim == \A r \in ReportIds :
              Closed(r) => Closed(r)' /\ reports'[r] = reports[r]
<1>1. ASSUME IndInv, [Next]_vars, NEW r \in ReportIds, Closed(r)
      PROVE  Closed(r)' /\ reports'[r] = reports[r]
  <2>1. Forms
    BY <1>1, StepForms
  <2>2. reports'[r] = reports[r]
    BY <1>1, <2>1 DEF Forms, ReportsMove, ReportMove, Closed, Absent, At
  <2>3. ASSUME NEW p \in Handlers, handlers'[p].pc \in Resolutions
        PROVE  handlers'[p].report # r
    BY <1>1, <2>1, <2>3 DEF Forms, HandlersMove, Becomes, Closed, Resolutions, At
  <2> QED
    BY <1>1, <2>2, <2>3 DEF Closed, Resolutions
<1>2. IndInv /\ [Next]_vars => Claim
  BY <1>1
<1>3. Claim => [Claim]_vars
  OBVIOUS
<1> QED
  BY <1>2, Inductive, PTL DEF Spec, ClosedSettles

-----------------------------------------------------------------------------
(* The abstract specification.                                             *)

OnlyPost(x) ==
    UNCHANGED <<hikes, outcomes>> /\ \A y \in PostIds \ {x} : posts'[y] = posts[y]
OnlyHike(h) ==
    UNCHANGED <<posts, outcomes>> /\ \A k \in HikeIds \ {h} : hikes'[k] = hikes[k]

(* A step moves the row of one post or one hike at most, unless it tells.  *)
LEMMA OneMoves ==
    ASSUME IndInv, [Next]_vars
    PROVE  \/ \E x \in PostIds : OnlyPost(x)
           \/ \E h \in HikeIds : OnlyHike(h)
           \/ UNCHANGED <<posts, hikes, outcomes>>
           \/ \E p \in Handlers : ResolveNotify(p)
<1> DEFINE Goal == \/ \E x \in PostIds : OnlyPost(x)
                   \/ \E h \in HikeIds : OnlyHike(h)
                   \/ UNCHANGED <<posts, hikes, outcomes>>
<1> TypeOK
  BY DEF IndInv
<1>1. ASSUME NEW x \in PostIds, NEW row, UNCHANGED <<hikes, outcomes>>,
             posts' = [posts EXCEPT ![x] = row]
      PROVE  Goal
  <2>1. OnlyPost(x)
    BY <1>1 DEF OnlyPost, TypeOK
  <2> QED
    BY <2>1
<1>2. ASSUME NEW h \in HikeIds, NEW row, UNCHANGED <<posts, outcomes>>,
             hikes' = [hikes EXCEPT ![h] = row]
      PROVE  Goal
  <2>1. OnlyHike(h)
    BY <1>2 DEF OnlyHike, TypeOK
  <2> QED
    BY <2>1
<1>3. UNCHANGED <<posts, hikes, outcomes>> => Goal
  OBVIOUS
<1> HIDE DEF Goal
<1>4. ASSUME NEW x \in PostIds, NEW u, NEW visibility, NEW b, InsertPost(x, u, visibility, b),
             UNCHANGED <<hikes, outcomes>>
      PROVE  Goal
  BY <1>1, <1>4 DEF InsertPost
<1>5. ASSUME NEW p \in Handlers, RecordLink(p)
      PROVE  Goal
  <2> DEFINE h == handlers[p].hike
             row == [hikes[h] EXCEPT !.post = handlers[p].post]
  <2>1. h \in HikeIds
    BY <1>5, PcTypes DEF RecordLink, RecordingLink
  <2>2. /\ UNCHANGED <<posts, outcomes>>
        /\ hikes' = [hikes EXCEPT ![h] = row] \/ UNCHANGED hikes
    BY <1>5 DEF RecordLink
  <2> HIDE DEF h, row
  <2> QED
    BY <1>2, <1>3, <2>1, <2>2
<1>6. ASSUME NEW p \in Handlers, EditWrite(p)
      PROVE  Goal
  <2> DEFINE x == handlers[p].post
             s == handlers[p].row.status
             b == handlers[p].row.body
             row == [[posts[x] EXCEPT !.status = s] EXCEPT !.body = b]
  <2>1. x \in PostIds
    BY <1>6, PcTypes DEF EditWrite, Editing
  <2>2. UNCHANGED <<hikes, outcomes>>
    BY <1>6 DEF EditWrite
  <2>3. CASE Exists(posts[x])
    <3>1. posts' = [posts EXCEPT ![x] = row]
      BY <1>6, <2>1, <2>3 DEF EditWrite, TypeOK
    <3> HIDE DEF x, row
    <3> QED
      BY <1>1, <2>1, <2>2, <3>1
  <2>4. CASE ~ Exists(posts[x])
    BY <1>3, <1>6, <2>4 DEF EditWrite
  <2> QED
    BY <2>3, <2>4
<1>7. ASSUME NEW p \in Handlers, ResolveEffect(p)
      PROVE  Goal
  <2> DEFINE t == TargetOf(p)
             hidden == [posts[t.id] EXCEPT !.moderation = "hidden"]
             removed == [hikes[t.id] EXCEPT !.status = "removed"]
  <2>1. t \in Target
    BY <1>7, TargetTypes DEF ResolveEffect, At, Resolutions
  <2>2. /\ t.type = "journey_post" => t.id \in PostIds
        /\ t.type = "hike_evidence" => t.id \in HikeIds
    BY <2>1 DEF Target
  <2>3. /\ posts' = IF t.type = "journey_post" /\ TargetExists(t)
                    THEN [posts EXCEPT ![t.id] = hidden] ELSE posts
        /\ hikes' = IF t.type = "hike_evidence" /\ TargetExists(t)
                    THEN [hikes EXCEPT ![t.id] = removed] ELSE hikes
        /\ UNCHANGED outcomes
    BY <1>7 DEF ResolveEffect
  <2> HIDE DEF t, hidden, removed
  <2>4. CASE t.type = "journey_post"
    BY <1>1, <1>3, <2>2, <2>3, <2>4
  <2>5. CASE t.type # "journey_post"
    BY <1>2, <1>3, <2>2, <2>3, <2>5
  <2> QED
    BY <2>4, <2>5
<1>8. ASSUME NEW p \in Handlers, Proceed(p), ~ ResolveNotify(p)
      PROVE  Goal
  <2>1. ASSUME NEW x \in PostIds, RecordPost(p, x)
        PROVE  Goal
    BY <1>4, <2>1 DEF RecordPost
  <2>2. ResolveOwner(p) \/ ResolveClose(p) \/ StatementFails(p) => Goal
    BY <1>3 DEF ResolveOwner, ResolveClose, StatementFails
  <2> QED
    BY <1>5, <1>6, <1>7, <1>8, <2>1, <2>2 DEF Proceed
<1>9. ASSUME NEW h \in HikeIds,
             \/ DeleteMyHike(h)
             \/ \E p \in Handlers, u \in Users, evidence, withPost \in BOOLEAN :
                   RecordHike(p, h, u, evidence, withPost)
      PROVE  Goal
  BY <1>2, <1>9 DEF DeleteMyHike, RecordHike
<1>10. ASSUME NEW x \in PostIds, PublishPost(x)
       PROVE  Goal
  <2> DEFINE row == [[posts[x] EXCEPT !.status = "published"] EXCEPT !.stamped = TRUE]
  <2>1. posts' = [posts EXCEPT ![x] = row] /\ UNCHANGED <<hikes, outcomes>>
    BY <1>10 DEF PublishPost, TypeOK
  <2> HIDE DEF row
  <2> QED
    BY <1>1, <2>1
<1>11. ASSUME NEW x \in PostIds,
              \/ DeletePost(x)
              \/ \E u \in Users, visibility \in {"draft", "published"}, b \in Bodies :
                    CreatePost(x, u, visibility, b)
       PROVE  Goal
  BY <1>1, <1>4, <1>11 DEF DeletePost, CreatePost
<1>12. UNCHANGED vars \/ Restart => Goal
  BY <1>3 DEF vars, Restart
<1>13. ASSUME NEW p \in Handlers,
              \/ \E x \in PostIds, visibility \in {"draft", "published"}, b \in Bodies :
                    EditFind(p, x, visibility, b)
              \/ \E r \in ReportIds, status \in {"resolved", "dismissed"} :
                    ResolveFind(p, r, status)
       PROVE  Goal
  BY <1>3, <1>13 DEF EditFind, ResolveFind
<1>14. ASSUME NEW r \in ReportIds, NEW target \in Target, CreateReport(r, target)
       PROVE  Goal
  BY <1>3, <1>14 DEF CreateReport
<1>15. Goal \/ \E p \in Handlers : ResolveNotify(p)
  BY <1>8, <1>9, <1>10, <1>11, <1>12, <1>13, <1>14 DEF Next
<1> QED
  BY <1>15 DEF Goal

(* The row of c is not touched.                                            *)
SameRow(c) ==
    /\ c.type = "journey_post" => posts'[c.id] = posts[c.id]
    /\ c.type = "hike_evidence" => hikes'[c.id] = hikes[c.id]

(* A kept row is as visible as before; barred content is not listed.       *)
LEMMA Visibility ==
    ASSUME NEW c \in Content
    PROVE  /\ c.type \in {"journey_post", "hike_evidence"} /\ c \in Target
           /\ SameRow(c) => /\ Listed(c)' = Listed(c) /\ ServedById(c)' = ServedById(c)
                            /\ TakenDown(c)' = TakenDown(c)
           /\ ~ (Listed(c) /\ TakenDown(c))
           /\ ~ (Listed(c) /\ TakenDown(c))'
<1>1. c.type \in {"journey_post", "hike_evidence"} /\ c \in Target
  BY DEF Content, Target
<1>2. SameRow(c) => /\ Listed(c)' = Listed(c) /\ ServedById(c)' = ServedById(c)
                    /\ TakenDown(c)' = TakenDown(c)
  BY <1>1 DEF SameRow, Listed, ServedById, TakenDown
<1>3. ~ (Listed(c) /\ TakenDown(c)) /\ ~ (Listed(c) /\ TakenDown(c))'
  BY <1>1 DEF Listed, TakenDown, Deleted
<1> QED
  BY <1>1, <1>2, <1>3

(* A post is served by its id from its creation, when it is visible, until *)
(* its deletion.                                                           *)
LEMMA Service ==
    ASSUME IndInv, Forms, NEW c \in Content
    PROVE  /\ ServedById(c) /\ ~ TakenDown(c)' => ServedById(c)'
           /\ ServedById(c)' /\ TakenDown(c)' => ServedById(c)
           /\ c.type = "journey_post" /\ ~ ServedById(c) => ~ Listed(c)
<1>1. ASSUME c.type = "journey_post"
      PROVE  /\ ServedById(c) /\ ~ TakenDown(c)' => ServedById(c)'
             /\ ServedById(c)' /\ TakenDown(c)' => ServedById(c)
             /\ ~ ServedById(c) => ~ Listed(c)
  <2> DEFINE x == c.id
  <2>1. x \in PostIds
    BY <1>1 DEF Content
  <2>2. PostMove(x)
    BY <2>1 DEF Forms, PostsMove
  <2>3. \A row \in JourneyPost : Exists(row) /\ row # Absent /\ row # Deleted
    BY DEF JourneyPost, Exists, Absent, Deleted
  <2>4. ~ Exists(Absent) /\ ~ Exists(Deleted) /\ \A row : Exists(row) => row # Deleted
    BY DEF Exists, Absent, Deleted
  <2>5. Exists(posts[x]) /\ posts'[x] # Deleted => Exists(posts'[x])
    BY <2>2, <2>3, <2>4 DEF PostMove
  <2>6. Exists(posts'[x]) /\ ~ Exists(posts[x]) => posts'[x].moderation = "visible"
    BY <2>2, <2>3, <2>4 DEF PostMove
  <2>7. TakenDown(c)' <=> \/ posts'[x] = Deleted
                          \/ Exists(posts'[x]) /\ posts'[x].moderation = "hidden"
    BY <1>1 DEF TakenDown
  <2>8. ~ Exists(posts[x]) => ~ Listed(c)
    BY <1>1 DEF Listed, Exists
  <2> QED
    BY <1>1, <2>4, <2>5, <2>6, <2>7, <2>8 DEF ServedById
<1> QED
  BY <1>1 DEF ServedById

ToldOf(c) == \E r \in outcomes : reports[r].target = c

(* A step that moves the row of c alone is c's being written, listed,      *)
(* withdrawn, hidden or deleted.                                           *)
LEMMA OneContent ==
    ASSUME IndInv, Forms, UNCHANGED outcomes, NEW c \in Content,
           \A d \in Content \ {c} : SameRow(d)
    PROVE  [Promise!Next]_(Promise!vars)
<1> DEFINE S == {d \in Content : Listed(d)}
           V == {d \in Content : ServedById(d)}
           B == {d \in Content : TakenDown(d)}
           T == {d \in Content : ToldOf(d)}
<1>1. \A d \in Content \ {c} : /\ Listed(d)' = Listed(d) /\ ServedById(d)' = ServedById(d)
                               /\ TakenDown(d)' = TakenDown(d)
  BY Visibility
<1>2. T' = T
  <2>1. \A r \in outcomes : reports'[r].target = reports[r].target
    BY TargetStays DEF IndInv, OutcomesKnown, TypeOK
  <2> QED
    BY <2>1 DEF ToldOf
<1>3. TakenDown(c) => TakenDown(c)'
  BY Visibility, DownStays DEF TakenDown, Down
<1>4. S' \in {S \cup {c}, S \ {c}} /\ (TakenDown(c)' => S' = S \ {c})
  BY <1>1, Visibility
<1>5. B' \in {B, B \cup {c}} /\ (~ TakenDown(c)' => B' = B /\ c \notin B)
  BY <1>1, <1>3
<1>6. TakenDown(c)' => B' = B \cup {c}
  BY <1>1
<1>7. /\ ServedById(c)' = ServedById(c) => V' = V
      /\ ServedById(c)' => V' = V \cup {c}
      /\ ~ ServedById(c)' => V' = V \ {c}
  BY <1>1
<1>8. T = {d \in Content : \E r \in outcomes : reports[r].target = d}
  BY DEF ToldOf
<1>9. T' = {d \in Content : \E r \in outcomes : reports[r].target = d}'
  BY DEF ToldOf
<1>10. CASE TakenDown(c)'
  <2>1. CASE ServedById(c)'
    <3>1. ServedById(c)
      BY <1>10, <2>1, Service
    <3>2. V' = V
      BY <1>7, <2>1, <3>1
    <3>3. Promise!Hide(c)
      BY <1>2, <1>4, <1>6, <1>8, <1>9, <1>10, <3>2 DEF Promise!Hide
    <3> QED
      BY <3>3 DEF Promise!Next
  <2>2. CASE ~ ServedById(c)'
    <3>1. Promise!Delete(c)
      BY <1>2, <1>4, <1>6, <1>7, <1>8, <1>9, <1>10, <2>2 DEF Promise!Delete
    <3> QED
      BY <3>1 DEF Promise!Next
  <2> QED
    BY <2>1, <2>2
<1>11. CASE ~ TakenDown(c)'
  <2>1. CASE ServedById(c)' /\ ~ ServedById(c)
    <3>1. c.type = "journey_post" /\ ~ Listed(c)
      BY <2>1, Service DEF ServedById
    <3>2. S' \in {S, S \cup {c}}
      BY <1>4, <3>1
    <3>3. Promise!Write(c)
      BY <1>2, <1>5, <1>7, <1>8, <1>9, <1>11, <2>1, <3>2 DEF Promise!Write
    <3> QED
      BY <3>3 DEF Promise!Next
  <2>2. CASE ~ (ServedById(c)' /\ ~ ServedById(c))
    <3>1. V' = V
      BY <1>7, <1>11, <2>2, Service
    <3>2. CASE S' = S \cup {c}
      <4>1. Promise!List(c)
        BY <1>2, <1>5, <1>8, <1>9, <1>11, <3>1, <3>2 DEF Promise!List
      <4> QED
        BY <4>1 DEF Promise!Next
    <3>3. CASE S' = S \ {c}
      <4>1. Promise!Withdraw(c)
        BY <1>2, <1>5, <1>8, <1>9, <1>11, <3>1, <3>3 DEF Promise!Withdraw
      <4> QED
        BY <4>1 DEF Promise!Next
    <3> QED
      BY <1>4, <3>2, <3>3
  <2> QED
    BY <2>1, <2>2
<1> QED
  BY <1>10, <1>11

(* A notification is a telling of what is barred.                          *)
LEMMA NotifyTells ==
    ASSUME IndInv, NEW p \in Handlers, ResolveNotify(p)
    PROVE  [Promise!Next]_(Promise!vars)
<1> DEFINE S == {d \in Content : Listed(d)}
           V == {d \in Content : ServedById(d)}
           B == {d \in Content : TakenDown(d)}
           T == {d \in Content : \E r \in outcomes : reports[r].target = d}
           t == TargetOf(p)
<1>1. /\ UNCHANGED <<posts, hikes, reports>>
      /\ outcomes' = outcomes \cup {handlers[p].report}
  BY DEF ResolveNotify
<1>2. TakenDown(t)
  BY DEF ResolveNotify, At, IndInv, HandlersKnow, TakenDown, Down
<1>3. S' = S /\ V' = V /\ B' = B
  BY <1>1 DEF Listed, ServedById, TakenDown
<1>4. T' = T \cup {d \in Content : d = t}
  BY <1>1 DEF TargetOf
<1>5. ASSUME NEW c \in Content, c = t
      PROVE  [Promise!Next]_(Promise!vars)
  <2>1. c \in B /\ T' = T \cup {c}
    BY <1>2, <1>4, <1>5
  <2>2. Promise!Tell(c)
    BY <1>3, <2>1 DEF Promise!Tell
  <2> QED
    BY <2>2 DEF Promise!Next
<1>6. CASE t \notin Content
  <2>1. T' = T
    BY <1>4, <1>6
  <2> QED
    BY <1>3, <2>1 DEF Promise!vars
<1> QED
  BY <1>5, <1>6

(* Whatever edits, resolutions and failures overlap, content that was      *)
(* barred is never listed again, deleted content is never served again by  *)
(* its id, and owners are told of no other content than what is barred.    *)
THEOREM ImplementsPublicContent == Spec => KeepsPromise
<1>1. Init => Promise!Init
  BY DEF Init, Promise!Init, Content, Listed, ServedById, TakenDown, Exists, Absent, Deleted
<1>2. IndInv /\ [Next]_vars => [Promise!Next]_(Promise!vars)
  <2> SUFFICES ASSUME IndInv, [Next]_vars
               PROVE  [Promise!Next]_(Promise!vars)
    OBVIOUS
  <2>1. Forms
    BY StepForms
  <2>2. ASSUME NEW x \in PostIds, OnlyPost(x)
        PROVE  [Promise!Next]_(Promise!vars)
    <3> DEFINE c == [type |-> "journey_post", id |-> x]
    <3>1. c \in Content
      BY DEF Content
    <3>2. \A d \in Content \ {c} : SameRow(d)
      BY <2>2 DEF Content, SameRow, OnlyPost
    <3> HIDE DEF c
    <3> QED
      BY <2>1, <2>2, <3>1, <3>2, OneContent DEF OnlyPost
  <2>3. ASSUME NEW h \in HikeIds, OnlyHike(h)
        PROVE  [Promise!Next]_(Promise!vars)
    <3> DEFINE c == [type |-> "hike_evidence", id |-> h]
    <3>1. c \in Content
      BY DEF Content
    <3>2. \A d \in Content \ {c} : SameRow(d)
      BY <2>3 DEF Content, SameRow, OnlyHike
    <3> HIDE DEF c
    <3> QED
      BY <2>1, <2>3, <3>1, <3>2, OneContent DEF OnlyHike
  <2>4. CASE UNCHANGED <<posts, hikes, outcomes>>
    <3>1. CASE Content = {}
      BY <3>1 DEF Promise!vars
    <3>2. ASSUME NEW c \in Content
          PROVE  [Promise!Next]_(Promise!vars)
      <4>1. \A d \in Content \ {c} : SameRow(d)
        BY <2>4 DEF SameRow
      <4> QED
        BY <2>1, <2>4, <4>1, OneContent
    <3> QED
      BY <3>1, <3>2
  <2> QED
    BY <2>2, <2>3, <2>4, NotifyTells, OneMoves
<1> QED
  BY <1>1, <1>2, Inductive, PTL DEF Spec, KeepsPromise, Promise!Spec

=============================================================================
