--------------------------- MODULE PartnerRequests ---------------------------
(***************************************************************************)
(* The partner context: trip notices, partner requests between two users,  *)
(* the recipient's decision, the sender's withdrawal, and the reveal of a  *)
(* matched counterpart's private contacts.                                 *)
(*                                                                         *)
(* Every repository call is one autocommit SQL statement, and every HTTP   *)
(* request runs in a goroutine of its own.  An operation that is a single  *)
(* statement is one action here.  The others (send, accept, decline,       *)
(* reveal) hold a handler slot, whose record says what the goroutine has   *)
(* read and which statement comes next; any other action may come between  *)
(* two of its steps.  A statement may fail (the request context is         *)
(* cancelled when the client leaves), and the process may die.             *)
(*                                                                         *)
(* Abstracted: trip dates (all requests of the model are for one trip, so  *)
(* the date equality of the reverse loop holds), messages, timestamps, the *)
(* page limit of the listings, search and the other read-only endpoints.   *)
(***************************************************************************)
EXTENDS Naturals

CONSTANTS
    Users,          \* accounts that can call the API
    Mountains,
    RequestIds,     \* ids SendRequest may draw: bounds the requests ever sent
    NoticeIds,      \* ids PublishNotice may draw: bounds the notices
    Handlers,       \* slots for in-flight handlers: bounds their concurrency
    NoNotice        \* a request's notice_id when it is NULL

ASSUME NoNoticeIsNoId == NoNotice \notin NoticeIds

VARIABLES
    notices,        \* table partner_notices
    requests,       \* table partner_requests
    handlers,       \* what each in-flight handler holds and does next
    inbox,          \* notifications recorded by the post-write hooks
    consented,      \* history: requests whose recipient has called accept
    revealed        \* history: <<u, o, m>> when u was served o's contacts

vars == <<notices, requests, handlers, inbox, consented, revealed>>

-----------------------------------------------------------------------------
(* Rows.  An id that is not in its table has the row Absent.               *)

Absent == [status |-> "absent"]

NoticeStatus == {"open", "matched", "expired", "withdrawn"}
RequestStatus == {"pending", "accepted", "declined", "expired", "withdrawn"}

PartnerNotice == [status: NoticeStatus, owner: Users, mountain: Mountains]

PartnerRequest ==
    [status: RequestStatus, from: Users, to: Users, mountain: Mountains,
     notice: NoticeIds \cup {NoNotice}]

Exists(row) == row.status # "absent"

(* What a handler holds between two statements.  A copy of a request row   *)
(* is kept as the row's id: only its status ever changes, and every step   *)
(* after the pending check uses the other fields alone.                    *)

Idle == [pc |-> "idle"]

Sending ==
    [pc: {"send_insert"}, from: Users, to: Users, mountain: Mountains,
     notice: NoticeIds \cup {NoNotice}]

OnRequest ==
    [pc: {"send_notify", "accept_write", "accept_reverse", "accept_notice",
          "accept_notify", "decline_write"},
     request: RequestIds]

Revealing ==
    [pc: {"reveal_check", "reveal_contacts"}, requester: Users, owner: Users,
     mountain: Mountains]

Notification ==
    [to: Users, type: {"partner_request_received", "partner_request_accepted"},
     request: RequestIds]

TypeOK ==
    /\ notices \in [NoticeIds -> PartnerNotice \cup {Absent}]
    /\ requests \in [RequestIds -> PartnerRequest \cup {Absent}]
    /\ handlers \in [Handlers -> Sending \cup OnRequest \cup Revealing \cup {Idle}]
    /\ inbox \subseteq Notification
    /\ consented \subseteq RequestIds
    /\ revealed \subseteq Users \X Users \X Mountains

Init ==
    /\ notices = [n \in NoticeIds |-> Absent]
    /\ requests = [r \in RequestIds |-> Absent]
    /\ handlers = [p \in Handlers |-> Idle]
    /\ inbox = {}
    /\ consented = {}
    /\ revealed = {}

-----------------------------------------------------------------------------
(* Statements.                                                             *)

Joins(row, u, v) ==
    \/ row.from = u /\ row.to = v
    \/ row.from = v /\ row.to = u

(* Mutant of HasAcceptedMatch: any request joins the two users.            *)
HasAnyRequest(u, v, m) ==
    \E r \in RequestIds :
        /\ Exists(requests[r])
        /\ requests[r].mountain = m
        /\ Joins(requests[r], u, v)

(* Mutant of HasAcceptedMatch: only the requests of the first user count.  *)
HasAcceptedMatchOneWay(u, v, m) ==
    \E r \in RequestIds :
        /\ requests[r].status = "accepted"
        /\ requests[r].mountain = m
        /\ requests[r].from = u /\ requests[r].to = v

(* An accepted request joins the two users on the mountain, in either      *)
(* direction and whatever its dates.                                       *)
HasAcceptedMatch(u, v, m) ==
    \E r \in RequestIds :
        /\ requests[r].status = "accepted"
        /\ requests[r].mountain = m
        /\ Joins(requests[r], u, v)

(* Mutant of ReverseOf: the loop lists what the recipient has pending.     *)
ReverseOfRecipient(r) ==
    {s \in RequestIds :
        /\ requests[s].status = "pending"
        /\ requests[s].from = requests[r].to
        /\ requests[s].to = requests[r].from
        /\ requests[s].mountain = requests[r].mountain}

(* The rows the loop of AcceptRequest accepts besides request r: the list  *)
(* holds what r's sender has pending, and the loop keeps the rows that are *)
(* addressed to that same sender.                                          *)
ReverseOf(r) ==
    {s \in RequestIds :
        /\ requests[s].status = "pending"
        /\ requests[s].from = requests[r].from
        /\ requests[s].to = requests[r].from
        /\ requests[s].mountain = requests[r].mountain}

SetStatus(S, status) ==
    [r \in RequestIds |->
        IF r \in S THEN [requests[r] EXCEPT !.status = status] ELSE requests[r]]

(* The trigger on partner_notices runs the function written for the users  *)
(* table.  A column the row does not have makes it raise, and the UPDATE   *)
(* that fired it is undone.  It fires for matched rows only.               *)
SetUpdatedAtReads ==
    {"password_hash", "google_sub", "email_verified_at", "display_name",
     "avatar_key", "bio", "home_region", "role", "status"}

NoticeColumns ==
    {"id", "user_id", "mountain_id", "trip_start", "trip_end", "note",
     "status", "expires_at", "created_at", "updated_at"}

TriggerRaises == ~ (SetUpdatedAtReads \subseteq NoticeColumns)

UpdateNotices(S, status) ==
    notices' = IF TriggerRaises THEN notices
               ELSE [n \in NoticeIds |->
                        IF n \in S THEN [notices[n] EXCEPT !.status = status]
                        ELSE notices[n]]

Continue(p, held) == handlers' = [handlers EXCEPT ![p] = held]
Answer(p) == Continue(p, Idle)
At(p, pc) == handlers[p].pc = pc
Holding(p, pc) == [handlers[p] EXCEPT !.pc = pc]

-----------------------------------------------------------------------------
(* Notices: one statement each.                                            *)

PublishNotice(u, m, n) ==
    /\ ~ Exists(notices[n])
    /\ notices' = [notices EXCEPT
          ![n] = [status |-> "open", owner |-> u, mountain |-> m]]
    /\ UNCHANGED <<requests, handlers, inbox, consented, revealed>>

WithdrawNotice(u, n) ==
    /\ notices[n].status = "open"
    /\ notices[n].owner = u
    /\ UpdateNotices({n}, "withdrawn")
    /\ UNCHANGED <<requests, handlers, inbox, consented, revealed>>

-----------------------------------------------------------------------------
(* SendRequest: check for a match, insert, notify.  A conflict answers at  *)
(* the check.  The recipient, mountain and notice need only exist.         *)

SendCheck(p, u, v, m, n) ==
    /\ At(p, "idle")
    /\ u # v
    /\ n # NoNotice => Exists(notices[n])
    /\ ~ HasAcceptedMatch(u, v, m)
    /\ Continue(p, [pc |-> "send_insert", from |-> u, to |-> v,
                    mountain |-> m, notice |-> n])
    /\ UNCHANGED <<notices, requests, inbox, consented, revealed>>

SendInsert(p) ==
    /\ At(p, "send_insert")
    /\ \E r \in RequestIds :
          /\ ~ Exists(requests[r])
          /\ requests' = [requests EXCEPT
                ![r] = [status |-> "pending", from |-> handlers[p].from,
                        to |-> handlers[p].to, mountain |-> handlers[p].mountain,
                        notice |-> handlers[p].notice]]
          /\ Continue(p, [pc |-> "send_notify", request |-> r])
    /\ UNCHANGED <<notices, inbox, consented, revealed>>

SendNotify(p) ==
    /\ At(p, "send_notify")
    /\ LET r == handlers[p].request IN
       inbox' = inbox \cup
          {[to |-> requests[r].to, type |-> "partner_request_received", request |-> r]}
    /\ Answer(p)
    /\ UNCHANGED <<notices, requests, consented, revealed>>

-----------------------------------------------------------------------------
(* AcceptRequest.  FindByID and the two checks come first; the write that  *)
(* follows is by id alone, whatever the status has become.                 *)

MayDecide(u, r) == requests[r].status = "pending" /\ requests[r].to = u

(* Mutant of AcceptFind: the status is not looked at.                      *)
AcceptFindAnyStatus(p, u, r) ==
    /\ At(p, "idle")
    /\ Exists(requests[r])
    /\ consented' = IF requests[r].to = u THEN consented \cup {r} ELSE consented
    /\ IF requests[r].to = u
       THEN Continue(p, [pc |-> "accept_write", request |-> r])
       ELSE UNCHANGED handlers
    /\ UNCHANGED <<notices, requests, inbox, revealed>>

AcceptFind(p, u, r) ==
    /\ At(p, "idle")
    /\ Exists(requests[r])
    /\ consented' = IF requests[r].to = u THEN consented \cup {r} ELSE consented
    /\ IF MayDecide(u, r)
       THEN Continue(p, [pc |-> "accept_write", request |-> r])
       ELSE UNCHANGED handlers
    /\ UNCHANGED <<notices, requests, inbox, revealed>>

AcceptWrite(p) ==
    /\ At(p, "accept_write")
    /\ requests' = SetStatus({handlers[p].request}, "accepted")
    /\ Continue(p, Holding(p, "accept_reverse"))
    /\ UNCHANGED <<notices, inbox, consented, revealed>>

AfterReverse(p) ==
    IF requests[handlers[p].request].notice = NoNotice
    THEN "accept_notify" ELSE "accept_notice"

(* The list and the updates of the loop, as one step: the loop selects no  *)
(* row, since no request goes from a user to the same user.                *)
AcceptReverse(p) ==
    /\ At(p, "accept_reverse")
    /\ requests' = SetStatus(ReverseOf(handlers[p].request), "accepted")
    /\ Continue(p, Holding(p, AfterReverse(p)))
    /\ UNCHANGED <<notices, inbox, consented, revealed>>

(* The error of this update is dropped.                                    *)
AcceptNotice(p) ==
    /\ At(p, "accept_notice")
    /\ UpdateNotices({requests[handlers[p].request].notice}, "matched")
    /\ Continue(p, Holding(p, "accept_notify"))
    /\ UNCHANGED <<requests, inbox, consented, revealed>>

AcceptNotify(p) ==
    /\ At(p, "accept_notify")
    /\ LET r == handlers[p].request IN
       inbox' = inbox \cup
          {[to |-> requests[r].from, type |-> "partner_request_accepted", request |-> r]}
    /\ Answer(p)
    /\ UNCHANGED <<notices, requests, consented, revealed>>

-----------------------------------------------------------------------------
(* DeclineRequest has the same checks and the same write by id.            *)

DeclineFind(p, u, r) ==
    /\ At(p, "idle")
    /\ MayDecide(u, r)
    /\ Continue(p, [pc |-> "decline_write", request |-> r])
    /\ UNCHANGED <<notices, requests, inbox, consented, revealed>>

(* Mutant of DeclineWrite: a status the column's type does not have.       *)
DeclineWriteRejected(p) ==
    /\ At(p, "decline_write")
    /\ requests' = SetStatus({handlers[p].request}, "rejected")
    /\ Answer(p)
    /\ UNCHANGED <<notices, inbox, consented, revealed>>

DeclineWrite(p) ==
    /\ At(p, "decline_write")
    /\ requests' = SetStatus({handlers[p].request}, "declined")
    /\ Answer(p)
    /\ UNCHANGED <<notices, inbox, consented, revealed>>

(* Mutant of WithdrawRequest: the statement does not look at the status.   *)
WithdrawRequestAnyStatus(u, r) ==
    /\ Exists(requests[r])
    /\ requests[r].from = u
    /\ requests' = SetStatus({r}, "withdrawn")
    /\ UNCHANGED <<notices, handlers, inbox, consented, revealed>>

(* WithdrawRequest is one conditional statement.                           *)
WithdrawRequest(u, r) ==
    /\ requests[r].status = "pending"
    /\ requests[r].from = u
    /\ requests' = SetStatus({r}, "withdrawn")
    /\ UNCHANGED <<notices, handlers, inbox, consented, revealed>>

-----------------------------------------------------------------------------
(* RevealRequest: load the request, check the match, then read contacts.   *)

RevealFind(p, u, r) ==
    /\ At(p, "idle")
    /\ Exists(requests[r])
    /\ u \in {requests[r].from, requests[r].to}
    /\ Continue(p,
          [pc |-> "reveal_check", requester |-> u, mountain |-> requests[r].mountain,
           owner |-> IF requests[r].from = u THEN requests[r].to ELSE requests[r].from])
    /\ UNCHANGED <<notices, requests, inbox, consented, revealed>>

RevealCheck(p) ==
    /\ At(p, "reveal_check")
    /\ LET h == handlers[p] IN
       IF HasAcceptedMatch(h.requester, h.owner, h.mountain)
       THEN Continue(p, Holding(p, "reveal_contacts"))
       ELSE Answer(p)
    /\ UNCHANGED <<notices, requests, inbox, consented, revealed>>

RevealContacts(p) ==
    /\ At(p, "reveal_contacts")
    /\ LET h == handlers[p] IN
       revealed' = revealed \cup {<<h.requester, h.owner, h.mountain>>}
    /\ Answer(p)
    /\ UNCHANGED <<notices, requests, inbox, consented>>

-----------------------------------------------------------------------------
(* Failures.  A failed statement ends the handler with an error, except    *)
(* after AcceptWrite: the reverse list, the notice and the notification    *)
(* are best effort, and the handler goes on.  A statement that commits and *)
(* still answers with an error (a lost connection) leaves what the         *)
(* statement and then Restart leave.                                       *)

StatementFails(p) ==
    /\ ~ At(p, "idle")
    /\ CASE At(p, "accept_reverse") -> Continue(p, Holding(p, AfterReverse(p)))
         [] At(p, "accept_notice") -> Continue(p, Holding(p, "accept_notify"))
         [] OTHER -> Answer(p)
    /\ UNCHANGED <<notices, requests, inbox, consented, revealed>>

(* The process dies and comes back: the tables survive, the handlers do    *)
(* not.                                                                    *)
Restart ==
    /\ handlers' = [p \in Handlers |-> Idle]
    /\ UNCHANGED <<notices, requests, inbox, consented, revealed>>

-----------------------------------------------------------------------------

(* What a handler that has begun does next.                                *)
Work(p) ==
    \/ SendInsert(p) \/ SendNotify(p)
    \/ AcceptWrite(p) \/ AcceptReverse(p) \/ AcceptNotice(p) \/ AcceptNotify(p)
    \/ DeclineWrite(p)
    \/ RevealCheck(p) \/ RevealContacts(p)

Proceed(p) == Work(p) \/ StatementFails(p)

Calls ==
    \/ \E u \in Users, m \in Mountains, n \in NoticeIds : PublishNotice(u, m, n)
    \/ \E u \in Users, n \in NoticeIds : WithdrawNotice(u, n)
    \/ \E p \in Handlers, u, v \in Users, m \in Mountains,
          n \in NoticeIds \cup {NoNotice} : SendCheck(p, u, v, m, n)
    \/ \E p \in Handlers, u \in Users, r \in RequestIds :
          AcceptFind(p, u, r) \/ DeclineFind(p, u, r) \/ RevealFind(p, u, r)
    \/ \E u \in Users, r \in RequestIds : WithdrawRequest(u, r)

Next ==
    \/ Calls
    \/ \E p \in Handlers : Proceed(p)
    \/ Restart

Spec == Init /\ [][Next]_vars

(* A goroutine that holds work keeps running, and every call it makes on   *)
(* the pool returns, with a result or with an error.                       *)
Runs(p) == WF_vars(Proceed(p))

FairSpec == Spec /\ \A p \in Handlers : Runs(p)

-----------------------------------------------------------------------------
(* Properties.                                                             *)

(* A match is the recipient's own act: no request is accepted, and no      *)
(* sender is told that it is, unless the user it was addressed to called   *)
(* accept on that very request (AcceptRequest's recipient check, and the   *)
(* reverse loop, which must not decide for a user who did not).            *)
AcceptedByRecipient ==
    \A r \in RequestIds :
        \/ requests[r].status = "accepted"
        \/ \E note \in inbox :
              note.request = r /\ note.type = "partner_request_accepted"
        => r \in consented

(* A request joins the two users on the mountain, and its recipient has    *)
(* called accept on it.                                                    *)
ConsentJoins(u, o, m) ==
    \E r \in consented :
        /\ Exists(requests[r])
        /\ requests[r].mountain = m
        /\ Joins(requests[r], u, o)

(* Private contacts are served only between two users one of whom accepted *)
(* a request of the other on that mountain, whatever withdrawals, declines *)
(* and other reveals run between RevealRequest's three reads.              *)
RevealNeedsConsent ==
    \A u, o \in Users, m \in Mountains :
        <<u, o, m>> \in revealed => ConsentJoins(u, o, m)

(* The writes of accept and decline are not conditional on the status they *)
(* read, so a decision can be overwritten, but only by a handler that read *)
(* the request while it was pending and has not written yet.               *)
Settled(r) ==
    /\ Exists(requests[r])
    /\ requests[r].status # "pending"
    /\ \A p \in Handlers :
          At(p, "accept_write") \/ At(p, "decline_write") => handlers[p].request # r

(* Once no such handler is left, the decision on a request is final.       *)
DecisionIsFinal ==
    [][\A r \in RequestIds : Settled(r) => requests'[r] = requests[r]]_vars

(* A pair is closed on a mountain by a settled match that no send which    *)
(* was already past its check can follow.                                  *)
ClosedPair(u, v, m) ==
    /\ \E r \in RequestIds :
          /\ Settled(r)
          /\ requests[r].status = "accepted"
          /\ requests[r].mountain = m
          /\ Joins(requests[r], u, v)
    /\ \A p \in Handlers :
          At(p, "send_insert") =>
              ~ (handlers[p].mountain = m /\ Joins(handlers[p], u, v))

(* "Already matched with this user on this mountain": a closed pair gets   *)
(* no further request in either direction, and never reopens, although the *)
(* check and the insert of SendRequest are two statements.                 *)
MatchClosesPair ==
    [][\A u, v \in Users, m \in Mountains :
          ClosedPair(u, v, m) =>
              /\ ClosedPair(u, v, m)'
              /\ \A r \in RequestIds :
                    ~ Exists(requests[r]) /\ Exists(requests'[r]) =>
                        ~ (requests'[r].mountain = m /\ Joins(requests'[r], u, v))]_vars

Decided(r) == Exists(requests[r]) /\ requests[r].status # "pending"

Settles(r) == Decided(r) ~> Settled(r)

(* Every request that has left pending reaches a final decision, whatever  *)
(* calls, failures and restarts go on: a decided request admits no new     *)
(* decision handlers, and those that hold it answer.                       *)
EveryDecisionSettles == \A r \in RequestIds : Settles(r)

-----------------------------------------------------------------------------
(* Implementation.                                                         *)

Sent(r) == <<requests[r].from, requests[r].to, requests[r].mountain>>

SentRequests == {r \in RequestIds : Exists(requests[r])}

Promise == INSTANCE ContactConsent WITH
    proposed <- {Sent(r) : r \in SentRequests},
    agreed <- {Sent(r) : r \in consented},
    shared <- revealed

(* Every behaviour of the handlers is one of ContactConsent: contacts pass *)
(* only along a consent that answers a proposal between two users.         *)
KeepsPromise == Promise!Spec

-----------------------------------------------------------------------------
(* What a comment of the code says and its steps do not keep.              *)

(* No statement fails and no process dies.                                 *)
QuietSpec == Init /\ [][Calls \/ \E p \in Handlers : Work(p)]_vars

(* "Also marks the reverse direction request if it exists, and updates the *)
(* notice": an AcceptRequest that has come to its notification, called     *)
(* alone and with no failure, has done at least one of the two where both  *)
(* were to be done.                                                        *)
AcceptFollowsThrough ==
    \A p \in Handlers, s \in RequestIds :
        LET r == handlers[p].request IN
        /\ At(p, "accept_notify")
        /\ requests[r].notice # NoNotice
        /\ requests[s].status = "pending"
        /\ requests[s].mountain = requests[r].mountain
        /\ requests[s].from = requests[r].to
        /\ requests[s].to = requests[r].from
        => notices[requests[r].notice].status # "open"

=============================================================================
