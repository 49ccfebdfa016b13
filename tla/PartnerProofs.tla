---------------------------- MODULE PartnerProofs ----------------------------
(***************************************************************************)
(* Theorems about PartnerRequests, for any sets of users, mountains, ids   *)
(* and handlers: the types, the two consent properties, the finality of a  *)
(* settled decision, that the handlers implement ContactConsent, and, under*)
(* fairness, that calls end and decisions settle.                          *)
(***************************************************************************)
EXTENDS PartnerRequests, TLAPS

(* What each handler's position says of the row it holds.                  *)
AcceptPcs == {"accept_write", "accept_reverse", "accept_notice", "accept_notify"}

Holds(p) ==
    /\ At(p, "send_insert") => handlers[p].from # handlers[p].to
    /\ handlers[p].pc \in {"send_notify", "decline_write"} =>
          Exists(requests[handlers[p].request])
    /\ handlers[p].pc \in AcceptPcs => handlers[p].request \in consented
    /\ At(p, "reveal_contacts") =>
          ConsentJoins(handlers[p].requester, handlers[p].owner, handlers[p].mountain)

HandlersHold == \A p \in Handlers : Holds(p)

(* Consent is given to requests that exist, and every request has two      *)
(* parties.                                                                *)
RowsSound ==
    /\ \A r \in consented : Exists(requests[r])
    /\ \A r \in RequestIds : Exists(requests[r]) => requests[r].from # requests[r].to

IndInv ==
    /\ TypeOK
    /\ RowsSound
    /\ HandlersHold
    /\ AcceptedByRecipient
    /\ RevealNeedsConsent

-----------------------------------------------------------------------------
(* The handler's record has the fields its pc calls for.                   *)
LEMMA PcKind ==
    ASSUME TypeOK, NEW p \in Handlers
    PROVE  /\ At(p, "send_insert") => handlers[p] \in Sending
           /\ handlers[p].pc \in AcceptPcs \cup {"send_notify", "decline_write"}
                => handlers[p] \in OnRequest
           /\ handlers[p].pc \in {"reveal_check", "reveal_contacts"}
                => handlers[p] \in Revealing
BY DEF TypeOK, At, AcceptPcs, Sending, OnRequest, Revealing, Idle

(* A row that exists is a full partner_requests row.                       *)
LEMMA RowKind ==
    ASSUME TypeOK, NEW r \in RequestIds, Exists(requests[r])
    PROVE  requests[r] \in PartnerRequest
BY DEF TypeOK, Exists, Absent

(* An UPDATE of the status keeps the table well typed and the other        *)
(* columns as they were.                                                   *)
LEMMA SetStatusKeeps ==
    ASSUME TypeOK, NEW S \in SUBSET RequestIds, NEW st \in RequestStatus,
           \A r \in S : Exists(requests[r])
    PROVE  /\ SetStatus(S, st) \in [RequestIds -> PartnerRequest \cup {Absent}]
           /\ \A r \in RequestIds :
                 /\ Exists(SetStatus(S, st)[r]) <=> Exists(requests[r])
                 /\ Exists(requests[r]) =>
                       /\ SetStatus(S, st)[r].from = requests[r].from
                       /\ SetStatus(S, st)[r].to = requests[r].to
                       /\ SetStatus(S, st)[r].mountain = requests[r].mountain
                       /\ SetStatus(S, st)[r].notice = requests[r].notice
                 /\ SetStatus(S, st)[r].status =
                       IF r \in S THEN st ELSE requests[r].status
                 /\ r \notin S => SetStatus(S, st)[r] = requests[r]
<1>1. ASSUME NEW r \in S
      PROVE  [requests[r] EXCEPT !.status = st] \in PartnerRequest
  BY <1>1, RowKind DEF PartnerRequest
<1>2. \A r \in S : requests[r] \in PartnerRequest
  BY RowKind
<1>3. QED
  BY <1>1, <1>2 DEF SetStatus, TypeOK, PartnerRequest, Absent, Exists, RequestStatus

-----------------------------------------------------------------------------
(* The initial states satisfy the invariant.                               *)
LEMMA InitInv == Init => IndInv
BY DEF Init, IndInv, TypeOK, RowsSound, HandlersHold, Holds, AcceptedByRecipient,
       RevealNeedsConsent, Exists, At, Idle, Absent, AcceptPcs

(* The reverse loop selects no request.                                    *)
LEMMA ReverseIsEmpty ==
    ASSUME TypeOK, RowsSound, NEW r \in RequestIds
    PROVE  ReverseOf(r) = {}
BY DEF RowsSound, ReverseOf, Exists

(* Every step keeps the types.                                             *)
LEMMA TypeStep == TypeOK /\ RowsSound /\ HandlersHold /\ [Next]_vars => TypeOK'
<1> SUFFICES ASSUME TypeOK, RowsSound, HandlersHold, [Next]_vars
             PROVE  TypeOK'
  OBVIOUS
<1> USE DEF Answer, Continue
<1>1. ASSUME NEW u \in Users, NEW m \in Mountains, NEW n \in NoticeIds,
             PublishNotice(u, m, n)
      PROVE  TypeOK'
  BY <1>1 DEF TypeOK, PublishNotice, PartnerNotice, NoticeStatus
<1>2. ASSUME NEW u \in Users, NEW n \in NoticeIds, WithdrawNotice(u, n)
      PROVE  TypeOK'
  BY <1>2 DEF TypeOK, WithdrawNotice, UpdateNotices, TriggerRaises,
              SetUpdatedAtReads, NoticeColumns
<1>3. ASSUME NEW p \in Handlers, NEW u \in Users, NEW v \in Users,
             NEW m \in Mountains, NEW n \in NoticeIds \cup {NoNotice},
             SendCheck(p, u, v, m, n)
      PROVE  TypeOK'
  BY <1>3 DEF TypeOK, SendCheck, Sending
<1>4. ASSUME NEW p \in Handlers, NEW u \in Users, NEW r \in RequestIds,
             AcceptFind(p, u, r)
      PROVE  TypeOK'
  BY <1>4 DEF TypeOK, AcceptFind, OnRequest
<1>5. ASSUME NEW p \in Handlers, NEW u \in Users, NEW r \in RequestIds,
             DeclineFind(p, u, r)
      PROVE  TypeOK'
  BY <1>5 DEF TypeOK, DeclineFind, OnRequest
<1>6. ASSUME NEW p \in Handlers, NEW u \in Users, NEW r \in RequestIds,
             RevealFind(p, u, r)
      PROVE  TypeOK'
  <2>1. requests[r] \in PartnerRequest
    BY <1>6, RowKind DEF RevealFind
  <2>2. QED
    BY <1>6, <2>1 DEF TypeOK, RevealFind, Revealing, PartnerRequest
<1>7. ASSUME NEW u \in Users, NEW r \in RequestIds, WithdrawRequest(u, r)
      PROVE  TypeOK'
  <2>1. SetStatus({r}, "withdrawn") \in [RequestIds -> PartnerRequest \cup {Absent}]
    BY <1>7, SetStatusKeeps DEF WithdrawRequest, RequestStatus, Exists
  <2>2. QED
    BY <1>7, <2>1 DEF TypeOK, WithdrawRequest
<1>8. ASSUME NEW p \in Handlers, SendInsert(p)
      PROVE  TypeOK'
  <2>1. handlers[p] \in Sending
    BY <1>8, PcKind DEF SendInsert
  <2>2. QED
    BY <1>8, <2>1 DEF TypeOK, SendInsert, Sending, PartnerRequest, RequestStatus,
                      OnRequest
<1>9. ASSUME NEW p \in Handlers, SendNotify(p)
      PROVE  TypeOK'
  <2>1. /\ handlers[p] \in OnRequest
        /\ Exists(requests[handlers[p].request])
    BY <1>9, PcKind DEF SendNotify, At, HandlersHold, Holds
  <2>2. requests[handlers[p].request] \in PartnerRequest
    BY <2>1, RowKind DEF OnRequest
  <2>3. QED
    BY <1>9, <2>1, <2>2 DEF TypeOK, SendNotify, OnRequest, PartnerRequest, Notification
<1>10. ASSUME NEW p \in Handlers, AcceptWrite(p)
       PROVE  TypeOK'
  <2>1. /\ handlers[p] \in OnRequest
        /\ Exists(requests[handlers[p].request])
    BY <1>10, PcKind DEF AcceptWrite, At, AcceptPcs, HandlersHold, Holds, RowsSound
  <2>2. SetStatus({handlers[p].request}, "accepted")
           \in [RequestIds -> PartnerRequest \cup {Absent}]
    BY <2>1, SetStatusKeeps DEF OnRequest, RequestStatus
  <2>3. QED
    BY <1>10, <2>1, <2>2 DEF TypeOK, AcceptWrite, Holding, OnRequest
<1>11. ASSUME NEW p \in Handlers, AcceptReverse(p)
       PROVE  TypeOK'
  <2>1. handlers[p] \in OnRequest
    BY <1>11, PcKind DEF AcceptReverse, At, AcceptPcs
  <2>2. ReverseOf(handlers[p].request) = {}
    BY <2>1, ReverseIsEmpty DEF OnRequest
  <2>3. SetStatus({}, "accepted") \in [RequestIds -> PartnerRequest \cup {Absent}]
    BY SetStatusKeeps DEF RequestStatus
  <2>4. QED
    BY <1>11, <2>1, <2>2, <2>3
    DEF TypeOK, AcceptReverse, Holding, AfterReverse, OnRequest
<1>12. ASSUME NEW p \in Handlers, AcceptNotice(p)
       PROVE  TypeOK'
  <2>1. handlers[p] \in OnRequest
    BY <1>12, PcKind DEF AcceptNotice, At, AcceptPcs
  <2>2. QED
    BY <1>12, <2>1 DEF TypeOK, AcceptNotice, Holding, OnRequest, UpdateNotices,
                       TriggerRaises, SetUpdatedAtReads, NoticeColumns
<1>13. ASSUME NEW p \in Handlers, AcceptNotify(p)
       PROVE  TypeOK'
  <2>1. /\ handlers[p] \in OnRequest
        /\ Exists(requests[handlers[p].request])
    BY <1>13, PcKind DEF AcceptNotify, At, AcceptPcs, HandlersHold, Holds, RowsSound
  <2>2. requests[handlers[p].request] \in PartnerRequest
    BY <2>1, RowKind DEF OnRequest
  <2>3. QED
    BY <1>13, <2>1, <2>2 DEF TypeOK, AcceptNotify, OnRequest, PartnerRequest, Notification
<1>14. ASSUME NEW p \in Handlers, DeclineWrite(p)
       PROVE  TypeOK'
  <2>1. /\ handlers[p] \in OnRequest
        /\ Exists(requests[handlers[p].request])
    BY <1>14, PcKind DEF DeclineWrite, At, HandlersHold, Holds
  <2>2. SetStatus({handlers[p].request}, "declined")
           \in [RequestIds -> PartnerRequest \cup {Absent}]
    BY <2>1, SetStatusKeeps DEF OnRequest, RequestStatus
  <2>3. QED
    BY <1>14, <2>2 DEF TypeOK, DeclineWrite
<1>15. ASSUME NEW p \in Handlers, RevealCheck(p)
       PROVE  TypeOK'
  <2>1. handlers[p] \in Revealing
    BY <1>15, PcKind DEF RevealCheck, At
  <2>2. QED
    BY <1>15, <2>1 DEF TypeOK, RevealCheck, Holding, Revealing
<1>16. ASSUME NEW p \in Handlers, RevealContacts(p)
       PROVE  TypeOK'
  <2>1. handlers[p] \in Revealing
    BY <1>16, PcKind DEF RevealContacts, At
  <2>2. QED
    BY <1>16, <2>1 DEF TypeOK, RevealContacts, Revealing
<1>17. ASSUME NEW p \in Handlers, StatementFails(p)
       PROVE  TypeOK'
  <2>1. At(p, "accept_reverse") \/ At(p, "accept_notice") => handlers[p] \in OnRequest
    BY PcKind DEF At, AcceptPcs
  <2>2. QED
    BY <1>17, <2>1 DEF TypeOK, StatementFails, At, Holding, AfterReverse, OnRequest
<1>18. CASE Restart
  BY <1>18 DEF TypeOK, Restart
<1>19. CASE UNCHANGED vars
  BY <1>19 DEF TypeOK, vars
<1>20. QED
  BY <1>1, <1>2, <1>3, <1>4, <1>5, <1>6, <1>7, <1>8, <1>9, <1>10, <1>11, <1>12,
     <1>13, <1>14, <1>15, <1>16, <1>17, <1>18, <1>19 DEF Next, Calls, Proceed, Work

-----------------------------------------------------------------------------
(* No step deletes a request, changes its parties, mountain or notice, or  *)
(* takes back a consent.                                                   *)
Grows ==
    /\ consented \subseteq consented'
    /\ \A r \in RequestIds : Exists(requests[r]) =>
          /\ Exists(requests'[r])
          /\ requests'[r].from = requests[r].from
          /\ requests'[r].to = requests[r].to
          /\ requests'[r].mountain = requests[r].mountain
          /\ requests'[r].notice = requests[r].notice

(* The statements that write a request's status, with what they set.       *)
Writes(S, st) ==
    /\ S \in SUBSET RequestIds
    /\ st \in RequestStatus
    /\ \A r \in S : Exists(requests[r])
    /\ requests' = SetStatus(S, st)

(* What the accepting UPDATE leaves.                                       *)
LEMMA AcceptWrites ==
    ASSUME TypeOK, RowsSound, HandlersHold, NEW p \in Handlers, AcceptWrite(p)
    PROVE  /\ handlers[p] \in OnRequest
           /\ handlers[p].request \in consented
           /\ Writes({handlers[p].request}, "accepted")
<1>1. handlers[p] \in OnRequest /\ handlers[p].request \in consented
  BY PcKind DEF AcceptWrite, At, AcceptPcs, HandlersHold, Holds
<1>2. QED
  BY <1>1 DEF AcceptWrite, Writes, RowsSound, OnRequest, RequestStatus

(* What the declining UPDATE leaves.                                       *)
LEMMA DeclineWrites ==
    ASSUME TypeOK, HandlersHold, NEW p \in Handlers, DeclineWrite(p)
    PROVE  /\ handlers[p] \in OnRequest
           /\ Writes({handlers[p].request}, "declined")
<1>1. handlers[p] \in OnRequest
  BY PcKind DEF DeclineWrite, At
<1>2. QED
  BY <1>1 DEF DeclineWrite, At, HandlersHold, Holds, Writes, OnRequest, RequestStatus

(* What the withdrawing UPDATE leaves.                                     *)
LEMMA WithdrawWrites ==
    ASSUME NEW u \in Users, NEW r \in RequestIds, WithdrawRequest(u, r)
    PROVE  Writes({r}, "withdrawn")
BY DEF WithdrawRequest, Writes, Exists, RequestStatus

(* The reverse loop leaves every request as it is.                         *)
LEMMA ReverseKeeps ==
    ASSUME TypeOK, RowsSound, NEW p \in Handlers, AcceptReverse(p)
    PROVE  handlers[p] \in OnRequest /\ requests' = requests
<1>1. handlers[p] \in OnRequest
  BY PcKind DEF AcceptReverse, At, AcceptPcs
<1>2. ReverseOf(handlers[p].request) = {}
  BY <1>1, ReverseIsEmpty DEF OnRequest
<1>3. SetStatus({}, "accepted") = requests
  BY DEF SetStatus, TypeOK
<1>4. QED
  BY <1>1, <1>2, <1>3 DEF AcceptReverse

(* Each step leaves the requests as they are, inserts one, or sets the     *)
(* status of one; only accept sets it to accepted.                         *)
LEMMA RequestSteps ==
    ASSUME TypeOK, RowsSound, HandlersHold, [Next]_vars
    PROVE  \/ requests' = requests
           \/ \E p \in Handlers : SendInsert(p)
           \/ \E u \in Users, r \in RequestIds : WithdrawRequest(u, r)
           \/ \E p \in Handlers : AcceptWrite(p)
           \/ \E p \in Handlers : DeclineWrite(p)
<1>1. (\E p \in Handlers : AcceptReverse(p)) => requests' = requests
  BY ReverseKeeps
<1>2. QED
  BY <1>1 DEF Next, Calls, Proceed, Work, vars, PublishNotice, WithdrawNotice, SendCheck,
              AcceptFind, DeclineFind, RevealFind, SendNotify, AcceptNotice,
              AcceptNotify, RevealCheck, RevealContacts, StatementFails, Restart

(* No consent is ever taken back.                                          *)
LEMMA ConsentGrows == [Next]_vars => consented \subseteq consented'
BY DEF Next, Calls, Proceed, Work, vars, PublishNotice, WithdrawNotice, SendCheck, SendInsert,
       AcceptFind, DeclineFind, RevealFind, SendNotify, AcceptWrite, AcceptReverse,
       AcceptNotice, AcceptNotify, DeclineWrite, WithdrawRequest, RevealCheck,
       RevealContacts, StatementFails, Restart

(* No step takes back what a handler may rely on.                          *)
LEMMA StepsGrow ==
    ASSUME TypeOK, RowsSound, HandlersHold, [Next]_vars
    PROVE  Grows
<1>1. ASSUME NEW S, NEW st, Writes(S, st)
      PROVE  Grows
  BY <1>1, SetStatusKeeps, ConsentGrows DEF Writes, Grows
<1>2. ASSUME NEW p \in Handlers, SendInsert(p)
      PROVE  Grows
  BY <1>2, ConsentGrows DEF SendInsert, Grows, TypeOK, Exists
<1>3. CASE requests' = requests
  BY <1>3, ConsentGrows DEF Grows
<1>4. QED
  BY <1>1, <1>2, <1>3, RequestSteps, WithdrawWrites, AcceptWrites, DeclineWrites

(* Two users once joined by a consent stay joined.                         *)
LEMMA ConsentJoinsStable ==
    ASSUME TypeOK, Grows, NEW u, NEW o, NEW m, ConsentJoins(u, o, m)
    PROVE  ConsentJoins(u, o, m)'
BY DEF ConsentJoins, Grows, Joins, TypeOK

-----------------------------------------------------------------------------
(* The inductive step, one conjunct at a time.                             *)

LEMMA RowsStep ==
    ASSUME TypeOK, RowsSound, HandlersHold, [Next]_vars
    PROVE  RowsSound'
<1>1. Grows
  BY StepsGrow
<1>2. ASSUME NEW r \in consented', r \notin consented
      PROVE  r \in RequestIds /\ Exists(requests[r]) /\ requests' = requests
  BY <1>2 DEF Next, Calls, Proceed, Work, vars, PublishNotice, WithdrawNotice, SendCheck,
              SendInsert, AcceptFind, DeclineFind, RevealFind, SendNotify,
              AcceptWrite, AcceptReverse, AcceptNotice, AcceptNotify, DeclineWrite,
              WithdrawRequest, RevealCheck, RevealContacts, StatementFails, Restart
<1>3. \A r \in consented' : Exists(requests'[r])
  BY <1>1, <1>2 DEF Grows, RowsSound, TypeOK
<1>4. ASSUME NEW S, NEW st, Writes(S, st), NEW r \in RequestIds, Exists(requests'[r])
      PROVE  requests'[r].from # requests'[r].to
  BY <1>4, SetStatusKeeps DEF Writes, RowsSound
<1>5. ASSUME NEW p \in Handlers, SendInsert(p), NEW r \in RequestIds,
             Exists(requests'[r])
      PROVE  requests'[r].from # requests'[r].to
  BY <1>5 DEF SendInsert, TypeOK, HandlersHold, Holds, RowsSound
<1>6. \A r \in RequestIds : Exists(requests'[r]) => requests'[r].from # requests'[r].to
  BY <1>4, <1>5, RequestSteps, WithdrawWrites, AcceptWrites, DeclineWrites DEF RowsSound
<1>7. QED
  BY <1>3, <1>6 DEF RowsSound, Exists

(* Every step keeps acceptance a matter of consent.                        *)
LEMMA AcceptedStep ==
    ASSUME TypeOK, RowsSound, HandlersHold, AcceptedByRecipient, [Next]_vars
    PROVE  AcceptedByRecipient'
<1>1. Grows
  BY StepsGrow
<1>2. ASSUME NEW r \in RequestIds, requests'[r].status = "accepted"
      PROVE  r \in consented'
  <2>1. CASE requests' = requests
    BY <1>1, <1>2, <2>1 DEF AcceptedByRecipient, Grows
  <2>2. ASSUME NEW p \in Handlers, SendInsert(p)
        PROVE  r \in consented'
    BY <1>1, <1>2, <2>2 DEF SendInsert, TypeOK, AcceptedByRecipient, Grows
  <2>3. ASSUME NEW S, NEW st, Writes(S, st),
               st = "accepted" => S \subseteq consented
        PROVE  r \in consented'
    BY <1>1, <1>2, <2>3, SetStatusKeeps DEF Writes, AcceptedByRecipient, Grows
  <2>4. QED
    BY <2>1, <2>2, <2>3, RequestSteps, WithdrawWrites, AcceptWrites, DeclineWrites
<1>3. ASSUME NEW note \in inbox', note.type = "partner_request_accepted",
             note \notin inbox
      PROVE  note.request \in consented'
  <2>1. ASSUME NEW p \in Handlers, SendNotify(p)
        PROVE  FALSE
    BY <1>3, <2>1 DEF SendNotify
  <2>2. ASSUME NEW p \in Handlers, AcceptNotify(p)
        PROVE  note.request \in consented'
    BY <1>1, <1>3, <2>2 DEF AcceptNotify, At, AcceptPcs, HandlersHold, Holds, Grows
  <2>3. QED
    BY <1>3, <2>1, <2>2
    DEF Next, Calls, Proceed, Work, vars, PublishNotice, WithdrawNotice, SendCheck, SendInsert,
        AcceptFind, DeclineFind, RevealFind, AcceptWrite, AcceptReverse, AcceptNotice,
        DeclineWrite, WithdrawRequest, RevealCheck, RevealContacts, StatementFails,
        Restart
<1>4. QED
  BY <1>1, <1>2, <1>3 DEF AcceptedByRecipient, Grows

(* Every step keeps reveals a matter of consent.                           *)
LEMMA RevealStep ==
    ASSUME TypeOK, RowsSound, HandlersHold, RevealNeedsConsent, [Next]_vars
    PROVE  RevealNeedsConsent'
<1>1. Grows
  BY StepsGrow
<1>2. SUFFICES ASSUME NEW u \in Users, NEW o \in Users, NEW m \in Mountains,
                      <<u, o, m>> \in revealed'
               PROVE  ConsentJoins(u, o, m)'
  BY DEF RevealNeedsConsent
<1>3. CASE <<u, o, m>> \in revealed
  BY <1>1, <1>3, ConsentJoinsStable DEF RevealNeedsConsent
<1>4. CASE <<u, o, m>> \notin revealed
  <2>1. PICK p \in Handlers : RevealContacts(p)
    BY <1>2, <1>4
    DEF Next, Calls, Proceed, Work, vars, PublishNotice, WithdrawNotice, SendCheck, SendInsert,
        SendNotify, AcceptFind, DeclineFind, RevealFind, AcceptWrite, AcceptReverse,
        AcceptNotice, AcceptNotify, DeclineWrite, WithdrawRequest, RevealCheck,
        StatementFails, Restart
  <2>2. ConsentJoins(u, o, m)
    BY <1>2, <1>4, <2>1 DEF RevealContacts, At, HandlersHold, Holds
  <2>3. QED
    BY <1>1, <2>2, ConsentJoinsStable
<1>5. QED
  BY <1>3, <1>4

(* A handler that does not move keeps what it relies on.                   *)
LEMMA OthersHold ==
    ASSUME TypeOK, RowsSound, HandlersHold, Grows, NEW q \in Handlers,
           handlers'[q] = handlers[q]
    PROVE  Holds(q)'
<1>1. /\ handlers[q].pc \in {"send_notify", "decline_write"} =>
            handlers[q].request \in RequestIds
      /\ handlers[q].pc \in AcceptPcs => handlers[q].request \in RequestIds
  BY PcKind DEF OnRequest
<1>2. At(q, "reveal_contacts") =>
        ConsentJoins(handlers[q].requester, handlers[q].owner, handlers[q].mountain)'
  <2>1. SUFFICES ASSUME At(q, "reveal_contacts")
                 PROVE  ConsentJoins(handlers[q].requester, handlers[q].owner,
                                     handlers[q].mountain)'
    OBVIOUS
  <2>2. ConsentJoins(handlers[q].requester, handlers[q].owner, handlers[q].mountain)
    BY <2>1 DEF HandlersHold, Holds
  <2>3. PICK r \in consented :
          /\ Exists(requests[r])
          /\ requests[r].mountain = handlers[q].mountain
          /\ Joins(requests[r], handlers[q].requester, handlers[q].owner)
    BY <2>2 DEF ConsentJoins
  <2>4. QED
    BY <2>3 DEF ConsentJoins, Grows, Joins, TypeOK
<1>3. QED
  BY <1>1, <1>2 DEF HandlersHold, Holds, Grows, At, Exists

(* Every step leaves each handler what it relies on.                       *)
LEMMA HandlersStep ==
    ASSUME IndInv, [Next]_vars
    PROVE  HandlersHold'
<1> USE DEF IndInv
<1>1. Grows
  BY StepsGrow
<1>2. ASSUME NEW p \in Handlers, Holds(p)',
             \A q \in Handlers : q # p => handlers'[q] = handlers[q]
      PROVE  HandlersHold'
  BY <1>1, <1>2, OthersHold DEF HandlersHold
<1>3. CASE UNCHANGED handlers
  BY <1>1, <1>3, OthersHold DEF HandlersHold
<1>4. ASSUME NEW p \in Handlers, Answer(p)
      PROVE  HandlersHold'
  BY <1>2, <1>4 DEF Answer, Continue, Idle, Holds, At, AcceptPcs, TypeOK
<1>5. ASSUME NEW p \in Handlers, NEW u \in Users, NEW v \in Users,
             NEW m \in Mountains, NEW n \in NoticeIds \cup {NoNotice},
             SendCheck(p, u, v, m, n)
      PROVE  HandlersHold'
  BY <1>2, <1>5 DEF SendCheck, Continue, Holds, At, AcceptPcs, TypeOK
<1>6. ASSUME NEW p \in Handlers, SendInsert(p)
      PROVE  HandlersHold'
  BY <1>2, <1>6 DEF SendInsert, Continue, Holds, At, AcceptPcs, TypeOK, Exists
<1>7. ASSUME NEW p \in Handlers, NEW u \in Users, NEW r \in RequestIds,
             AcceptFind(p, u, r)
      PROVE  HandlersHold'
  BY <1>2, <1>3, <1>7
  DEF AcceptFind, MayDecide, Continue, Holds, At, AcceptPcs, TypeOK
<1>8. ASSUME NEW p \in Handlers, NEW u \in Users, NEW r \in RequestIds,
             DeclineFind(p, u, r)
      PROVE  HandlersHold'
  BY <1>2, <1>8 DEF DeclineFind, MayDecide, Continue, Holds, At, AcceptPcs, TypeOK, Exists
<1>9. ASSUME NEW p \in Handlers, NEW u \in Users, NEW r \in RequestIds,
             RevealFind(p, u, r)
      PROVE  HandlersHold'
  BY <1>2, <1>9 DEF RevealFind, Continue, Holds, At, AcceptPcs, TypeOK
<1>10. ASSUME NEW p \in Handlers, NEW pc \in AcceptPcs,
              handlers[p].pc \in AcceptPcs, Continue(p, Holding(p, pc))
       PROVE  HandlersHold'
  <2>1. handlers[p] \in OnRequest /\ handlers[p].request \in consented
    BY <1>10, PcKind DEF HandlersHold, Holds
  <2>2. handlers'[p] = [handlers[p] EXCEPT !.pc = pc]
    BY <1>10 DEF Continue, Holding, TypeOK
  <2>3. handlers'[p].pc = pc /\ handlers'[p].request = handlers[p].request
    BY <2>1, <2>2 DEF OnRequest
  <2>4. Holds(p)'
    BY <1>1, <2>1, <2>3 DEF Holds, At, AcceptPcs, Grows
  <2>5. QED
    BY <1>2, <1>10, <2>4 DEF Continue, TypeOK
<1>11. ASSUME NEW p \in Handlers,
              AcceptWrite(p) \/ AcceptReverse(p) \/ AcceptNotice(p)
       PROVE  HandlersHold'
  BY <1>10, <1>11
  DEF AcceptWrite, AcceptReverse, AfterReverse, AcceptNotice, At, AcceptPcs
<1>12. ASSUME NEW p \in Handlers, RevealCheck(p)
       PROVE  HandlersHold'
  <2> DEFINE h == handlers[p]
  <2>1. h \in Revealing
    BY <1>12, PcKind DEF RevealCheck, At
  <2>2. CASE Answer(p)
    BY <1>4, <2>2
  <2>3. CASE /\ HasAcceptedMatch(h.requester, h.owner, h.mountain)
             /\ Continue(p, Holding(p, "reveal_contacts"))
    <3>1. ConsentJoins(h.requester, h.owner, h.mountain)
      BY <2>3 DEF HasAcceptedMatch, ConsentJoins, AcceptedByRecipient, Exists
    <3>2. handlers'[p] = [h EXCEPT !.pc = "reveal_contacts"]
      BY <2>3 DEF Continue, Holding, TypeOK
    <3>3. /\ handlers'[p].pc = "reveal_contacts"
          /\ handlers'[p].requester = h.requester
          /\ handlers'[p].owner = h.owner
          /\ handlers'[p].mountain = h.mountain
      BY <2>1, <3>2 DEF Revealing
    <3>4. Holds(p)'
      BY <1>12, <3>1, <3>3 DEF RevealCheck, Holds, At, AcceptPcs, ConsentJoins, Joins
    <3>5. QED
      BY <1>2, <2>3, <3>4 DEF Continue, TypeOK
  <2>4. QED
    BY <1>12, <2>2, <2>3 DEF RevealCheck
<1>13. ASSUME NEW p \in Handlers, StatementFails(p)
       PROVE  HandlersHold'
  BY <1>4, <1>10, <1>13 DEF StatementFails, AfterReverse, At, AcceptPcs
<1>14. CASE Restart
  BY <1>14 DEF Restart, HandlersHold, Holds, Idle, At, AcceptPcs
<1>15. QED
  BY <1>3, <1>4, <1>5, <1>6, <1>7, <1>8, <1>9, <1>11, <1>12, <1>13, <1>14
  DEF Next, Calls, Proceed, Work, vars, PublishNotice, WithdrawNotice, SendNotify, AcceptNotify,
      DeclineWrite, WithdrawRequest, RevealContacts

-----------------------------------------------------------------------------
(* IndInv is inductive, and its parts are the properties.                  *)
LEMMA Inductive == Spec => []IndInv
<1>1. IndInv /\ [Next]_vars => IndInv'
  <2> SUFFICES ASSUME IndInv, [Next]_vars
               PROVE  IndInv'
    OBVIOUS
  <2>1. TypeOK' /\ RowsSound'
    BY TypeStep, RowsStep DEF IndInv
  <2>2. HandlersHold'
    BY HandlersStep
  <2>3. AcceptedByRecipient' /\ RevealNeedsConsent'
    BY AcceptedStep, RevealStep DEF IndInv
  <2>4. QED
    BY <2>1, <2>2, <2>3 DEF IndInv
<1>2. QED
  BY <1>1, InitInv, PTL DEF Spec

(* Every state of every behaviour is well typed: the statuses stay in      *)
(* their enum types, and each handler holds what its next statement needs. *)
THEOREM TypeCorrect == Spec => []TypeOK
BY Inductive, PTL DEF IndInv

(* AcceptRequest: no request is accepted, and no sender told so, without a *)
(* call of accept by the user the request was addressed to.                *)
THEOREM AcceptanceIsConsent == Spec => []AcceptedByRecipient
BY Inductive, PTL DEF IndInv

(* RevealRequest: contacts are served only to a user that a consented      *)
(* request joins to their owner on that mountain.                          *)
THEOREM RevealIsConsented == Spec => []RevealNeedsConsent
BY Inductive, PTL DEF IndInv

-----------------------------------------------------------------------------
(* A step that writes a settled request would come from a handler that     *)
(* still holds it, or from a statement that wants it pending.              *)
LEMMA SettledStep ==
    ASSUME IndInv, [Next]_vars, NEW r \in RequestIds, Settled(r)
    PROVE  requests'[r] = requests[r]
<1> USE DEF IndInv
<1>1. ASSUME NEW S, NEW st, Writes(S, st), r \notin S
      PROVE  requests'[r] = requests[r]
  BY <1>1, SetStatusKeeps DEF Writes
<1>2. ASSUME NEW p \in Handlers, AcceptWrite(p)
      PROVE  requests'[r] = requests[r]
  BY <1>1, <1>2, AcceptWrites DEF AcceptWrite, Settled
<1>3. ASSUME NEW p \in Handlers, DeclineWrite(p)
      PROVE  requests'[r] = requests[r]
  BY <1>1, <1>3, DeclineWrites DEF DeclineWrite, Settled
<1>4. ASSUME NEW u \in Users, NEW s \in RequestIds, WithdrawRequest(u, s)
      PROVE  requests'[r] = requests[r]
  BY <1>1, <1>4, WithdrawWrites DEF WithdrawRequest, Settled
<1>5. ASSUME NEW p \in Handlers, SendInsert(p)
      PROVE  requests'[r] = requests[r]
  BY <1>5 DEF SendInsert, Settled, TypeOK
<1>6. QED
  BY <1>2, <1>3, <1>4, <1>5, RequestSteps

(* Accept and decline write without a condition on the status, yet once no *)
(* handler holds a request as pending, its decision never changes.         *)
THEOREM DecisionsAreFinal == Spec => DecisionIsFinal
<1>1. IndInv /\ [Next]_vars =>
        [\A r \in RequestIds : Settled(r) => requests'[r] = requests[r]]_vars
  BY SettledStep
<1>2. QED
  BY <1>1, Inductive, PTL DEF Spec, DecisionIsFinal

-----------------------------------------------------------------------------
(* A handler comes to hold a request for a decision only by reading it as  *)
(* pending, and to hold an insert only by finding no match.                *)
LEMMA NewHolders ==
    ASSUME IndInv, [Next]_vars, NEW p \in Handlers
    PROVE  /\ At(p, "accept_write")' \/ At(p, "decline_write")' =>
                \/ handlers'[p] = handlers[p]
                \/ requests[handlers'[p].request].status = "pending"
           /\ At(p, "send_insert")' =>
                \/ handlers'[p] = handlers[p]
                \/ ~ HasAcceptedMatch(handlers'[p].from, handlers'[p].to,
                                      handlers'[p].mountain)
<1> USE DEF IndInv
<1>1. ASSUME NEW q \in Handlers, Proceed(q)
      PROVE  \/ handlers'[p] = handlers[p]
             \/ handlers'[p].pc \in {"idle", "send_notify", "accept_reverse",
                                     "accept_notice", "accept_notify",
                                     "reveal_contacts"}
  <2>1. CASE p # q
    BY <1>1, <2>1
    DEF Proceed, Work, Continue, Answer, TypeOK, SendInsert, SendNotify, AcceptWrite,
        AcceptReverse, AcceptNotice, AcceptNotify, DeclineWrite, RevealCheck,
        RevealContacts, StatementFails
  <2>2. CASE p = q /\ handlers'[p].pc = "idle"
    BY <2>2
  <2>3. CASE p = q /\ SendInsert(p)
    BY <2>3 DEF SendInsert, Continue, TypeOK
  <2>4. ASSUME NEW pc \in {"accept_reverse", "accept_notice", "accept_notify",
                           "reveal_contacts"},
               p = q, Continue(p, Holding(p, pc)),
               handlers[p] \in OnRequest \cup Revealing
        PROVE  handlers'[p].pc = pc
    BY <2>4 DEF Continue, Holding, TypeOK, OnRequest, Revealing
  <2>5. QED
    BY <1>1, <2>1, <2>2, <2>3, <2>4, PcKind
    DEF Proceed, Work, Continue, Answer, Idle, TypeOK, At, AcceptPcs, SendNotify,
        AcceptWrite, AcceptReverse, AfterReverse, AcceptNotice, AcceptNotify,
        DeclineWrite, RevealCheck, RevealContacts, StatementFails
<1>2. ASSUME NEW q \in Handlers, NEW u \in Users, NEW r \in RequestIds,
             AcceptFind(q, u, r) \/ DeclineFind(q, u, r) \/ RevealFind(q, u, r)
      PROVE  /\ At(p, "accept_write")' \/ At(p, "decline_write")' =>
                  \/ handlers'[p] = handlers[p]
                  \/ requests[handlers'[p].request].status = "pending"
             /\ At(p, "send_insert")' => handlers'[p] = handlers[p]
  BY <1>2 DEF AcceptFind, DeclineFind, RevealFind, Continue, MayDecide, At, TypeOK
<1>3. ASSUME NEW q \in Handlers, NEW u \in Users, NEW v \in Users,
             NEW m \in Mountains, NEW n \in NoticeIds \cup {NoNotice},
             SendCheck(q, u, v, m, n)
      PROVE  \/ handlers'[p] = handlers[p]
             \/ /\ handlers'[p].pc = "send_insert"
                /\ ~ HasAcceptedMatch(handlers'[p].from, handlers'[p].to,
                                      handlers'[p].mountain)
  BY <1>3 DEF SendCheck, Continue, TypeOK
<1>4. CASE Restart
  BY <1>4 DEF Restart, Idle, At
<1>5. CASE UNCHANGED handlers
  BY <1>5
<1>6. QED
  BY <1>1, <1>2, <1>3, <1>4, <1>5
  DEF At, Next, Calls, vars, PublishNotice, WithdrawNotice, WithdrawRequest

(* A settled request stays settled.                                        *)
LEMMA SettledStays ==
    ASSUME IndInv, [Next]_vars, NEW r \in RequestIds, Settled(r)
    PROVE  Settled(r)'
<1>1. requests'[r] = requests[r]
  BY SettledStep
<1>2. ASSUME NEW p \in Handlers, At(p, "accept_write")' \/ At(p, "decline_write")'
      PROVE  handlers'[p].request # r
  BY <1>2, NewHolders DEF Settled, At
<1>3. QED
  BY <1>1, <1>2 DEF Settled, Exists, At

(* A closed pair stays closed and gets no new request.                     *)
LEMMA ClosedStep ==
    ASSUME IndInv, [Next]_vars, NEW u \in Users, NEW v \in Users,
           NEW m \in Mountains, ClosedPair(u, v, m)
    PROVE  /\ ClosedPair(u, v, m)'
           /\ \A r \in RequestIds :
                 ~ Exists(requests[r]) /\ Exists(requests'[r]) =>
                     ~ (requests'[r].mountain = m /\ Joins(requests'[r], u, v))
<1> USE DEF IndInv
<1>1. PICK s \in RequestIds :
        /\ Settled(s)
        /\ requests[s].status = "accepted"
        /\ requests[s].mountain = m
        /\ Joins(requests[s], u, v)
  BY DEF ClosedPair
<1>2. Settled(s)' /\ requests'[s] = requests[s]
  BY <1>1, SettledStep, SettledStays
<1>3. HasAcceptedMatch(u, v, m) /\ HasAcceptedMatch(v, u, m)
  BY <1>1 DEF HasAcceptedMatch, Joins
<1>4. ASSUME NEW p \in Handlers, At(p, "send_insert")',
             handlers'[p].mountain = m, Joins(handlers'[p], u, v)
      PROVE  FALSE
  BY <1>3, <1>4, NewHolders DEF ClosedPair, At, Joins
<1>5. ClosedPair(u, v, m)'
  BY <1>1, <1>2, <1>4 DEF ClosedPair, At, Joins
<1>6. ASSUME NEW r \in RequestIds, ~ Exists(requests[r]), Exists(requests'[r])
      PROVE  ~ (requests'[r].mountain = m /\ Joins(requests'[r], u, v))
  <2>1. ASSUME NEW S, NEW st, Writes(S, st)
        PROVE  FALSE
    BY <1>6, <2>1, SetStatusKeeps DEF Writes
  <2>2. PICK p \in Handlers : SendInsert(p)
    BY <1>6, <2>1, RequestSteps, WithdrawWrites, AcceptWrites, DeclineWrites
  <2>3. /\ requests'[r].from = handlers[p].from
        /\ requests'[r].to = handlers[p].to
        /\ requests'[r].mountain = handlers[p].mountain
    BY <1>6, <2>2 DEF SendInsert, TypeOK
  <2>4. QED
    BY <2>2, <2>3 DEF SendInsert, ClosedPair, Joins
<1>7. QED
  BY <1>5, <1>6

(* SendRequest's "already matched": once a match is settled and no send    *)
(* that passed its check before is left, the pair gets no further request. *)
THEOREM MatchesClosePairs == Spec => MatchClosesPair
<1>1. IndInv /\ [Next]_vars =>
        [\A u, v \in Users, m \in Mountains :
            ClosedPair(u, v, m) =>
                /\ ClosedPair(u, v, m)'
                /\ \A r \in RequestIds :
                      ~ Exists(requests[r]) /\ Exists(requests'[r]) =>
                        ~ (requests'[r].mountain = m /\ Joins(requests'[r], u, v))]_vars
  BY ClosedStep
<1>2. QED
  BY <1>1, Inductive, PTL DEF Spec, MatchClosesPair

-----------------------------------------------------------------------------
(* The refinement: an insert is a proposal, a recipient's accept call is   *)
(* an agreement, a contacts read is a share, all else is a stutter.        *)

LEMMA InsertProposes ==
    ASSUME IndInv, NEW p \in Handlers, SendInsert(p)
    PROVE  Promise!Propose(handlers[p].from, handlers[p].to, handlers[p].mountain)
<1> USE DEF IndInv
<1> DEFINE h == handlers[p]
<1>1. h \in Sending /\ h.from # h.to
  BY PcKind DEF SendInsert, At, HandlersHold, Holds
<1>2. PICK r \in RequestIds :
        /\ ~ Exists(requests[r])
        /\ requests' = [requests EXCEPT
              ![r] = [status |-> "pending", from |-> h.from, to |-> h.to,
                      mountain |-> h.mountain, notice |-> h.notice]]
  BY DEF SendInsert
<1>3. /\ \A s \in RequestIds : s # r => requests'[s] = requests[s]
      /\ Exists(requests[r])'
      /\ Sent(r)' = <<h.from, h.to, h.mountain>>
  BY <1>2 DEF TypeOK, Exists, Sent
<1>4. {Sent(s) : s \in SentRequests}' =
        {Sent(s) : s \in SentRequests} \cup {<<h.from, h.to, h.mountain>>}
  BY <1>2, <1>3 DEF SentRequests, Sent, Exists
<1>5. {Sent(s) : s \in consented}' = {Sent(s) : s \in consented} /\ revealed' = revealed
  <2>1. r \notin consented /\ consented' = consented
    BY <1>2 DEF RowsSound, SendInsert
  <2>2. QED
    BY <1>3, <2>1 DEF SendInsert, Sent, TypeOK
<1>6. QED
  BY <1>1, <1>4, <1>5 DEF Promise!Propose

(* No step but an insert proposes anything.                                *)
LEMMA OthersStutter ==
    ASSUME IndInv, [Next]_vars, ~ \E p \in Handlers : SendInsert(p)
    PROVE  /\ {Sent(s) : s \in SentRequests}' = {Sent(s) : s \in SentRequests}
           /\ consented' = consented =>
                 {Sent(s) : s \in consented}' = {Sent(s) : s \in consented}
<1> USE DEF IndInv
<1>1. ASSUME NEW S, NEW st, Writes(S, st)
      PROVE  \A r \in RequestIds : Exists(requests'[r]) <=> Exists(requests[r])
  BY <1>1, SetStatusKeeps DEF Writes
<1>2. \A r \in RequestIds : Exists(requests'[r]) <=> Exists(requests[r])
  BY <1>1, RequestSteps, WithdrawWrites, AcceptWrites, DeclineWrites
<1>3. \A r \in RequestIds : Exists(requests[r]) =>
        Sent(r)' = Sent(r)
  BY StepsGrow DEF Grows, Sent
<1>4. SentRequests' = SentRequests
  BY <1>2 DEF SentRequests, Exists
<1>5. QED
  BY <1>3, <1>4 DEF SentRequests, RowsSound, TypeOK

(* The call of accept is an agreement.                                     *)
LEMMA AcceptAgrees ==
    ASSUME IndInv, NEW p \in Handlers, NEW u \in Users, NEW r \in RequestIds,
           AcceptFind(p, u, r)
    PROVE  [Promise!Next]_(Promise!vars)
<1> USE DEF IndInv
<1>1. /\ UNCHANGED <<requests, revealed>>
      /\ requests[r] \in PartnerRequest
  BY RowKind DEF AcceptFind
<1>2. CASE consented' = consented
  BY <1>1, <1>2 DEF Promise!vars, Sent, SentRequests, Exists
<1>3. CASE consented' = consented \cup {r}
  <2>1. {Sent(s) : s \in consented}' = {Sent(s) : s \in consented} \cup {Sent(r)}
    BY <1>1, <1>3 DEF Sent
  <2>2. {Sent(s) : s \in SentRequests}' = {Sent(s) : s \in SentRequests}
    BY <1>1 DEF Sent, SentRequests, Exists
  <2>3. Sent(r) \in {Sent(s) : s \in SentRequests}
    BY DEF SentRequests, AcceptFind
  <2>4. Promise!Agree(requests[r].from, requests[r].to, requests[r].mountain)
    BY <1>1, <2>1, <2>2, <2>3 DEF Promise!Agree, Sent
  <2>5. QED
    BY <1>1, <2>4 DEF Promise!Next, PartnerRequest
<1>4. QED
  BY <1>2, <1>3 DEF AcceptFind

(* The serving of contacts is a sharing.                                   *)
LEMMA RevealShares ==
    ASSUME IndInv, [Next]_vars, NEW p \in Handlers, RevealContacts(p)
    PROVE  [Promise!Next]_(Promise!vars)
<1> USE DEF IndInv
<1> DEFINE h == handlers[p]
<1>1. h \in Revealing /\ ConsentJoins(h.requester, h.owner, h.mountain)
  BY PcKind DEF RevealContacts, At, HandlersHold, Holds
<1>2. PICK r \in consented :
        /\ Exists(requests[r])
        /\ requests[r].mountain = h.mountain
        /\ Joins(requests[r], h.requester, h.owner)
  BY <1>1 DEF ConsentJoins
<1>3. Sent(r) \in {Sent(s) : s \in consented}
  OBVIOUS
<1>4. \/ <<h.requester, h.owner, h.mountain>> \in {Sent(s) : s \in consented}
      \/ <<h.owner, h.requester, h.mountain>> \in {Sent(s) : s \in consented}
  BY <1>2, <1>3 DEF Sent, Joins
<1>5. /\ UNCHANGED <<requests, consented>>
      /\ revealed' = revealed \cup {<<h.requester, h.owner, h.mountain>>}
  BY DEF RevealContacts
<1>6. Promise!Share(h.requester, h.owner, h.mountain)
  BY <1>4, <1>5 DEF Promise!Share, Sent, SentRequests, Exists
<1>7. QED
  BY <1>1, <1>6 DEF Promise!Next, Revealing

(* The handlers implement ContactConsent: whatever races, failures and     *)
(* restarts happen, contacts flow only along a consent that answers a      *)
(* proposal between two different users.                                   *)
THEOREM ImplementsContactConsent == Spec => KeepsPromise
<1>1. Init => Promise!Init
  BY DEF Init, Promise!Init, SentRequests, Exists, Absent
<1>2. IndInv /\ [Next]_vars => [Promise!Next]_(Promise!vars)
  <2> SUFFICES ASSUME IndInv, [Next]_vars
               PROVE  [Promise!Next]_(Promise!vars)
    OBVIOUS
  <2>1. ASSUME NEW p \in Handlers, SendInsert(p)
        PROVE  [Promise!Next]_(Promise!vars)
    <3>1. handlers[p] \in Sending
      BY <2>1, PcKind DEF SendInsert, IndInv
    <3>2. QED
      BY <2>1, <3>1, InsertProposes DEF Promise!Next, Sending
  <2>2. CASE \E p \in Handlers : RevealContacts(p)
    BY <2>2, RevealShares
  <2>3. CASE \E p \in Handlers, u \in Users, r \in RequestIds : AcceptFind(p, u, r)
    BY <2>3, AcceptAgrees
  <2>4. CASE /\ ~ \E p \in Handlers : SendInsert(p)
             /\ UNCHANGED <<consented, revealed>>
    BY <2>4, OthersStutter DEF Promise!vars
  <2>5. QED
    BY <2>1, <2>2, <2>3, <2>4
    DEF Next, Calls, Proceed, Work, vars, PublishNotice, WithdrawNotice, SendCheck, SendNotify,
        DeclineFind, RevealFind, AcceptWrite, AcceptReverse, AcceptNotice,
        AcceptNotify, DeclineWrite, WithdrawRequest, RevealCheck, StatementFails,
        Restart
<1>3. QED
  BY <1>1, <1>2, Inductive, PTL DEF Spec, KeepsPromise, Promise!Spec

-----------------------------------------------------------------------------
(* No notice is anything but open.                                         *)
NoticesOpen == \A n \in NoticeIds : Exists(notices[n]) => notices[n].status = "open"

(* What AcceptFollowsThrough shows on one trace holds of every accept: the *)
(* reverse loop never has a row to accept (service.go:182), and no update  *)
(* of a notice, not even its owner's withdrawal, ever takes effect         *)
(* (0005_partner.sql:40).                                                  *)
THEOREM FollowUpsNeverHappen ==
    Spec => [](NoticesOpen /\ \A r \in RequestIds : ReverseOf(r) = {})
<1>1. Init => NoticesOpen
  BY DEF Init, NoticesOpen, Exists, Absent
<1>2. IndInv /\ NoticesOpen /\ [Next]_vars => NoticesOpen'
  <2> SUFFICES ASSUME IndInv, NoticesOpen, [Next]_vars
               PROVE  NoticesOpen'
    OBVIOUS
  <2>1. CASE UNCHANGED notices
    BY <2>1 DEF NoticesOpen, Exists
  <2>2. ASSUME NEW u \in Users, NEW m \in Mountains, NEW n \in NoticeIds,
               PublishNotice(u, m, n)
        PROVE  NoticesOpen'
    BY <2>2 DEF NoticesOpen, Exists, PublishNotice, IndInv, TypeOK
  <2>3. ASSUME NEW S, NEW st, UpdateNotices(S, st)
        PROVE  UNCHANGED notices
    BY <2>3 DEF UpdateNotices, TriggerRaises, SetUpdatedAtReads, NoticeColumns
  <2>4. QED
    BY <2>1, <2>2, <2>3
    DEF Next, Calls, Proceed, Work, vars, WithdrawNotice, SendCheck, SendInsert,
        SendNotify, AcceptFind, DeclineFind, RevealFind, AcceptWrite,
        AcceptReverse, AcceptNotice, AcceptNotify, DeclineWrite,
        WithdrawRequest, RevealCheck, RevealContacts, StatementFails, Restart
<1>3. IndInv => \A r \in RequestIds : ReverseOf(r) = {}
  BY ReverseIsEmpty DEF IndInv
<1>4. QED
  BY <1>1, <1>2, <1>3, Inductive, PTL DEF Spec

-----------------------------------------------------------------------------
(* Progress.                                                               *)

(* What the provers cannot say of the actions: a handler that has begun can*)
(* always go on, if only to fail.                                          *)
CanProceed(p) == ENABLED <<Proceed(p)>>_vars

NobodyIsBlocked == \A p \in Handlers : ~ At(p, "idle") => CanProceed(p)

(* How many statements a handler has still ahead of it, at most.           *)
OneLeft(p) ==
    handlers[p].pc \in {"send_notify", "accept_notify", "decline_write", "reveal_contacts"}
TwoLeft(p) == handlers[p].pc \in {"send_insert", "accept_notice", "reveal_check"}
ThreeLeft(p) == At(p, "accept_reverse")
FourLeft(p) == At(p, "accept_write")

Answers(p) == ~ At(p, "idle") ~> At(p, "idle")

(* A handler that has begun stays at its statement until its own next step *)
(* or a crash.                                                             *)
LEMMA OthersLeaveAlone ==
    ASSUME TypeOK, [Next]_vars, NEW p \in Handlers, ~ At(p, "idle"), ~ Proceed(p)
    PROVE  handlers'[p] = handlers[p] \/ At(p, "idle")'
<1>1. ASSUME NEW q \in Handlers, q # p, NEW h, Continue(q, h)
      PROVE  handlers'[p] = handlers[p]
  BY <1>1 DEF Continue, TypeOK
<1>2. ASSUME NEW q \in Handlers, Proceed(q)
      PROVE  handlers'[p] = handlers[p]
  <2>1. q # p
    BY <1>2
  <2>2. QED
    BY <1>2, <2>1
    DEF Proceed, Work, Continue, Answer, TypeOK, SendInsert, SendNotify, AcceptWrite,
        AcceptReverse, AcceptNotice, AcceptNotify, DeclineWrite, RevealCheck,
        RevealContacts, StatementFails
<1>3. ASSUME NEW q \in Handlers, At(q, "idle"), NEW h, Continue(q, h)
      PROVE  handlers'[p] = handlers[p]
  BY <1>1, <1>3 DEF At
<1>4. ASSUME NEW q \in Handlers, NEW u \in Users, NEW r \in RequestIds,
             AcceptFind(q, u, r) \/ DeclineFind(q, u, r) \/ RevealFind(q, u, r)
      PROVE  handlers'[p] = handlers[p]
  BY <1>3, <1>4 DEF AcceptFind, DeclineFind, RevealFind
<1>5. ASSUME NEW q \in Handlers, NEW u \in Users, NEW v \in Users,
             NEW m \in Mountains, NEW n \in NoticeIds \cup {NoNotice},
             SendCheck(q, u, v, m, n)
      PROVE  handlers'[p] = handlers[p]
  BY <1>3, <1>5 DEF SendCheck
<1>6. CASE Restart
  BY <1>6 DEF Restart, Idle, At
<1>7. CASE UNCHANGED handlers
  BY <1>7
<1>8. QED
  BY <1>2, <1>4, <1>5, <1>6, <1>7
  DEF Next, Calls, vars, PublishNotice, WithdrawNotice, WithdrawRequest

(* Its own step brings it nearer to its answer.                            *)
LEMMA ProceedAdvances ==
    ASSUME TypeOK, NEW p \in Handlers, Proceed(p)
    PROVE  /\ FourLeft(p) => ThreeLeft(p)' \/ At(p, "idle")'
           /\ ThreeLeft(p) => TwoLeft(p)' \/ OneLeft(p)'
           /\ TwoLeft(p) => OneLeft(p)' \/ At(p, "idle")'
           /\ OneLeft(p) => At(p, "idle")'
<1> USE DEF At, OneLeft, TwoLeft, ThreeLeft, FourLeft
<1>1. ASSUME Answer(p)
      PROVE  At(p, "idle")'
  BY <1>1 DEF Answer, Continue, TypeOK, At, Idle
<1>2. ASSUME NEW pc, handlers[p] \in OnRequest \cup Revealing, Continue(p, Holding(p, pc))
      PROVE  handlers'[p].pc = pc
  BY <1>2 DEF Continue, Holding, TypeOK, OnRequest, Revealing
<1>3. AfterReverse(p) \in {"accept_notify", "accept_notice"}
  BY DEF AfterReverse
<1>4. ASSUME SendInsert(p)
      PROVE  At(p, "send_notify")'
  BY <1>4 DEF SendInsert, Continue, TypeOK, At
<1>5. CASE StatementFails(p)
  BY <1>1, <1>2, <1>3, <1>5, PcKind DEF StatementFails, AcceptPcs
<1>6. CASE SendInsert(p)
  BY <1>4, <1>6 DEF SendInsert
<1>7. CASE SendNotify(p) \/ AcceptNotify(p) \/ DeclineWrite(p) \/ RevealContacts(p)
  BY <1>1, <1>7 DEF SendNotify, AcceptNotify, DeclineWrite, RevealContacts
<1>8. CASE AcceptWrite(p) \/ AcceptReverse(p) \/ AcceptNotice(p)
  BY <1>2, <1>3, <1>8, PcKind DEF AcceptWrite, AcceptReverse, AcceptNotice, AcceptPcs
<1>9. CASE RevealCheck(p)
  BY <1>1, <1>2, <1>9, PcKind DEF RevealCheck
<1>10. QED
  BY <1>5, <1>6, <1>7, <1>8, <1>9 DEF Proceed, Work

(* One handler.                                                            *)
LEMMA OneAnswers ==
    ASSUME NEW p \in Handlers
    PROVE  Spec /\ []NobodyIsBlocked /\ Runs(p) => Answers(p)
<1> DEFINE i == At(p, "idle")
           a == OneLeft(p)
           b == TwoLeft(p)
           c == ThreeLeft(p)
           d == FourLeft(p)
           stays == handlers'[p] = handlers[p]
<1>1. IndInv => i \/ a \/ b \/ c \/ d
  BY DEF IndInv, TypeOK, At, OneLeft, TwoLeft, ThreeLeft, FourLeft, Idle, Sending,
         OnRequest, Revealing
<1>2. a \/ b \/ c \/ d => ~ i
  BY DEF At, OneLeft, TwoLeft, ThreeLeft, FourLeft
<1>3. IndInv /\ [Next]_vars /\ ~ i /\ ~ Proceed(p) => stays \/ i'
  BY OthersLeaveAlone DEF IndInv
<1>4. stays => (a => a') /\ (b => b') /\ (c => c') /\ (d => d') /\ (i => i')
  BY DEF At, OneLeft, TwoLeft, ThreeLeft, FourLeft
<1>5. IndInv /\ Proceed(p) =>
        (d => c' \/ i') /\ (c => b' \/ a') /\ (b => a' \/ i') /\ (a => i')
  BY ProceedAdvances DEF IndInv
<1>6. NobodyIsBlocked => (~ i => CanProceed(p))
  BY DEF NobodyIsBlocked
<1> HIDE DEF i, a, b, c, d, stays
<1>7. IndInv /\ [Next]_vars =>
        (d => (d \/ c \/ i)') /\ (c => (c \/ b \/ a \/ i)') /\ (b => (b \/ a \/ i)')
           /\ (a => (a \/ i)')
  BY <1>2, <1>3, <1>4, <1>5
<1>8. IndInv /\ <<Proceed(p)>>_vars =>
        (d => (c \/ i)') /\ (c => (b \/ a)') /\ (b => (a \/ i)') /\ (a => i')
  BY <1>5
<1>9. Spec /\ []NobodyIsBlocked /\ Runs(p) => (~ i ~> i)
  BY <1>1, <1>6, <1>7, <1>8, Inductive, PTL DEF Spec, Runs, CanProceed
<1>10. QED
  BY <1>9 DEF Answers, i

(* Every send, accept, decline and reveal that has begun comes to its      *)
(* answer: no handler waits for another, at no point between its statements*)
THEOREM EveryCallAnswers ==
    FairSpec /\ []NobodyIsBlocked => \A p \in Handlers : Answers(p)
BY OneAnswers DEF FairSpec

(* The handler read the request while it was pending and has yet to write. *)
HoldsDecision(p, r) ==
    (At(p, "accept_write") \/ At(p, "decline_write")) /\ handlers[p].request = r

(* From the first decision on, the handler comes to hold none of it, and   *)
(* never does again.                                                       *)
Quits(p, r) == Decided(r) ~> [](Decided(r) /\ ~ HoldsDecision(p, r))

(* No request returns to pending.                                          *)
LEMMA DecidedStays ==
    ASSUME IndInv, [Next]_vars, NEW r \in RequestIds, Decided(r)
    PROVE  Decided(r)'
<1> USE DEF IndInv
<1>1. ASSUME NEW S, NEW st, Writes(S, st), st # "pending"
      PROVE  Decided(r)'
  <2>1. requests'[r] = IF r \in S THEN [requests[r] EXCEPT !.status = st] ELSE requests[r]
    BY <1>1 DEF Writes, SetStatus
  <2>2. requests[r] \in PartnerRequest
    BY RowKind DEF Decided
  <2>3. requests'[r].status \in {st, requests[r].status}
    BY <2>1, <2>2 DEF PartnerRequest
  <2>4. QED
    BY <1>1, <2>3 DEF Decided, Exists, Writes, RequestStatus
<1>2. ASSUME NEW p \in Handlers, AcceptWrite(p) \/ DeclineWrite(p)
      PROVE  Decided(r)'
  BY <1>1, <1>2, AcceptWrites, DeclineWrites
<1>3. ASSUME NEW u \in Users, NEW s \in RequestIds, WithdrawRequest(u, s)
      PROVE  Decided(r)'
  BY <1>1, <1>3, WithdrawWrites
<1>4. ASSUME NEW p \in Handlers, SendInsert(p)
      PROVE  Decided(r)'
  BY <1>4 DEF SendInsert, Decided, TypeOK, Exists
<1>5. CASE requests' = requests
  BY <1>5 DEF Decided, Exists
<1>6. QED
  BY <1>2, <1>3, <1>4, <1>5, RequestSteps

(* A decided request is not read as pending, so nobody comes to hold it.   *)
LEMMA NobodyTakesUp ==
    ASSUME IndInv, [Next]_vars, NEW r \in RequestIds, Decided(r), NEW p \in Handlers,
           HoldsDecision(p, r)'
    PROVE  HoldsDecision(p, r)
BY NewHolders DEF HoldsDecision, Decided, At

(* One handler and one request.                                            *)
LEMMA OneQuits ==
    ASSUME NEW r \in RequestIds, NEW p \in Handlers
    PROVE  Spec /\ []NobodyIsBlocked /\ Runs(p) => Quits(p, r)
<1> DEFINE d == Decided(r)
           h == HoldsDecision(p, r)
           i == At(p, "idle")
<1>1. IndInv /\ d /\ [Next]_vars => d'
  BY DecidedStays
<1>2. IndInv /\ d /\ ~ h /\ [Next]_vars => ~ h'
  BY NobodyTakesUp
<1>3. IndInv /\ h /\ Proceed(p) => ~ h'
  <2> SUFFICES ASSUME IndInv, h, Proceed(p)
               PROVE  ~ h'
    OBVIOUS
  <2>1. FourLeft(p) \/ OneLeft(p)
    BY DEF HoldsDecision, FourLeft, OneLeft, At
  <2>2. ThreeLeft(p)' \/ i'
    BY <2>1, ProceedAdvances DEF IndInv
  <2>3. QED
    BY <2>2 DEF ThreeLeft, HoldsDecision, At
<1>4. NobodyIsBlocked => (h => CanProceed(p))
  BY DEF NobodyIsBlocked, HoldsDecision, At
<1> HIDE DEF d, h, i
<1>5. IndInv /\ h /\ <<Proceed(p)>>_vars => ~ h'
  BY <1>3
<1>6. Spec /\ []NobodyIsBlocked /\ Runs(p) => (d ~> [](d /\ ~ h))
  BY <1>1, <1>2, <1>4, <1>5, Inductive, PTL DEF Spec, Runs, CanProceed
<1>7. QED
  BY <1>6 DEF Quits, d, h

(* The decision on a request outlives every handler that could still       *)
(* overwrite it: each of them is through at some moment, and none takes it *)
(* up again, whatever calls, failures and restarts go on.                  *)
THEOREM EveryHolderQuits ==
    FairSpec /\ []NobodyIsBlocked => \A r \in RequestIds, p \in Handlers : Quits(p, r)
BY OneQuits DEF FairSpec

(* So with up to three handlers at a time every decision becomes final.    *)
(* For any finite number it takes an induction over the set of handlers.   *)
THEOREM DecisionsSettle ==
    ASSUME NEW a, NEW b, NEW c, Handlers = {a, b, c}
    PROVE  FairSpec /\ []NobodyIsBlocked => EveryDecisionSettles
<1>1. ASSUME NEW r \in RequestIds
      PROVE  Quits(a, r) /\ Quits(b, r) /\ Quits(c, r) => Settles(r)
  <2>1. /\ Decided(r)
        /\ ~ HoldsDecision(a, r) /\ ~ HoldsDecision(b, r) /\ ~ HoldsDecision(c, r)
        => Settled(r)
    BY DEF Decided, Settled, HoldsDecision
  <2>2. QED
    BY <2>1, PTL DEF Quits, Settles
<1>2. QED
  BY <1>1, EveryHolderQuits DEF EveryDecisionSettles

=============================================================================
