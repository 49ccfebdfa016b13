--------------------------- MODULE CatalogueProofs ---------------------------
(***************************************************************************)
(* Proofs about MountainCatalogue, for any mountains, routes, photos, keys *)
(* and handlers, and logs and revisions of any length.  As in              *)
(* IdentityProofs, the actions are reduced to what they can make of a row, *)
(* of the log and of a handler; the rest is about those forms.             *)
(***************************************************************************)
EXTENDS MountainCatalogue, TLAPS

-----------------------------------------------------------------------------
(* The invariant.                                                          *)

HandlerStates ==
    {Idle} \cup RowRequest
    \cup [pc: {"write"}, op: {"edit", "rollback", "photo"}, mountain: Mountains,
          to: Mountain, prior: Keys \cup {NoKey}, began: 0..MaxLog, snap: Mountain]
    \cup [pc: {"prior"}, mountain: Mountains, key: Keys \cup {NoKey}, began: 0..MaxLog]
    \cup [pc: {"delete"}, mountain: Mountains, key: Keys \cup {NoKey}]
    \cup [pc: {"blob"}, key: Keys \cup {NoKey}]
    \cup [pc: {"object"}, op: {"update", "delete"}, object: Objects, mountain: Mountains,
          began: 0..MaxLog]
    \cup [pc: {"addPhoto"}, mountain: Mountains, key: Keys]
    \cup [pc: {"deletePhoto"}, photo: Photos, mountain: Mountains, key: Keys \cup {NoKey}]
    \cup [pc: {"logPhoto"}, photo: Photos, mountain: Mountains,
          action: {"photo_set", "photo_remove"}, key: Keys \cup {NoKey}]

(* The log names the key as a cover of the mountain.                       *)
Known(log, m, k) ==
    k \in Keys =>
        \E i \in DOMAIN log : log[i].mountain = m /\ log[i].entity = m /\ log[i].key = k

(* Discarded, of any log and rows.                                         *)
Dropped(log, ms, k) ==
    k \in Keys =>
        \E i \in DOMAIN log :
            \/ log[i].prior = k
            \/ /\ log[i].key = k /\ log[i].entity = log[i].mountain
               /\ ms[log[i].mountain] = Deleted

(* The object's creation was committed before the log was `began' long.    *)
CreatedBy(log, o, began) ==
    \A i \in DOMAIN log : log[i].entity = o /\ log[i].action = "create" => i <= began

(* What a request may rely on: it began before now; the covers it carries, *)
(* but for a new one, are logged; the image it deletes is discarded; the   *)
(* mountain it will log for an object is the object's, while that is       *)
(* there, and the object was created before the request began.             *)
Knows(h, ms, os, log) ==
    /\ h.pc \in {"prior", "snapshot", "write", "object"} => h.began <= Len(log)
    /\ h.pc \in {"snapshot", "write"} =>
          /\ h.op # "photo" => Known(log, h.mountain, h.to.photo)
          /\ Known(log, h.mountain, h.prior)
    /\ h.pc = "write" => Known(log, h.mountain, h.snap.photo)
    /\ h.pc = "delete" => Known(log, h.mountain, h.key)
    /\ h.pc = "blob" => Dropped(log, ms, h.key)
    /\ h.pc = "object" =>
          /\ os[h.object] # Absent
          /\ Exists(os[h.object]) => os[h.object].mountain = h.mountain
          /\ CreatedBy(log, h.object, h.began)

HandlersKnow ==
    \A p \in Handlers : Knows(handlers[p], mountains, objects, editLog)

CoversKnown ==
    \A m \in Mountains :
        /\ Exists(mountains[m]) => Known(editLog, m, mountains[m].photo)
        /\ \A i \in DOMAIN revisions[m] : Known(editLog, m, revisions[m][i].snapshot.photo)

(* Nothing is logged of a mountain that was never created, and no entry    *)
(* began after it was committed.                                           *)
LogSound ==
    /\ \A m \in Mountains : mountains[m] = Absent => Entries(m) = {}
    /\ \A i \in DOMAIN editLog : editLog[i].began < i

ObjectsSound ==
    \A o \in Objects :
        /\ objects[o] = Absent => Entries(o) = {}
        /\ Exists(objects[o]) =>
              /\ Exists(mountains[objects[o].mountain])
              /\ \A i \in Entries(o) : editLog[i].mountain = objects[o].mountain
        /\ \A i, j \in Entries(o) : i < j =>
              /\ editLog[i].action # "delete" /\ editLog[j].action # "create"
              /\ editLog[i].action = "create" => i <= editLog[j].began

IndInv ==
    /\ TypeOK
    /\ HandlersKnow /\ CoversKnown /\ LostImageIsLogged
    /\ LogSound /\ CoverFollowsLog
    /\ ObjectsSound /\ TrailMatchesObjects

-----------------------------------------------------------------------------
(* What a step can make of each of them.                                   *)

Newest == Len(editLog) + 1

(* The step logs something of x, or nothing.                               *)
Logged(x) == Newest \in DOMAIN editLog' /\ editLog'[Newest].entity = x

(* At most one entry is appended.                                          *)
LogMove ==
    /\ editLog' \in Seq(EditLogEntry) /\ Len(editLog') <= MaxLog
    /\ Len(editLog) <= Len(editLog')
    /\ DOMAIN editLog' \in {DOMAIN editLog, DOMAIN editLog \cup {Newest}}
    /\ \A i \in DOMAIN editLog : editLog'[i] = editLog[i]
    /\ Newest \in DOMAIN editLog' => editLog'[Newest].began < Newest

MountainMove(m) ==
    \/ mountains'[m] = mountains[m] /\ revisions'[m] = revisions[m] /\ ~ Logged(m)
    \/ /\ mountains[m] = Absent /\ mountains'[m] \in Mountain /\ mountains'[m].photo = NoKey
       /\ revisions'[m] = revisions[m] /\ ~ Logged(m)
    \/ mountains'[m] = Deleted /\ revisions'[m] = <<>> /\ mountains[m] # Absent /\ ~ Logged(m)
    \/ /\ mountains[m] \in Mountain /\ mountains'[m] \in Mountain
       /\ \E rev \in Revision :
             /\ revisions'[m] = Append(revisions[m], rev)
             /\ Known(editLog, m, rev.snapshot.photo)
             /\ \/ mountains'[m].photo = mountains[m].photo /\ ~ Logged(m)
                \/ rev.rollback /\ Known(editLog, m, mountains'[m].photo) /\ ~ Logged(m)
                \/ /\ Logged(m) /\ editLog'[Newest].mountain = m
                   /\ editLog'[Newest].key = mountains'[m].photo

(* The step's entry about o is of a transaction that began after o was     *)
(* created.                                                                *)
LogsAfterCreation(o) == Logged(o) /\ CreatedBy(editLog, o, editLog'[Newest].began)

ObjectMove(o) ==
    \/ /\ objects'[o] = objects[o] /\ ~ Logged(o)
       /\ Exists(objects[o]) => mountains'[objects[o].mountain] # Deleted
    \/ /\ objects[o] = Absent /\ objects'[o] \in SubObject /\ Logged(o)
       /\ Exists(mountains'[objects'[o].mountain])
       /\ editLog'[Newest].action = "create"
       /\ editLog'[Newest].mountain = objects'[o].mountain
    \/ /\ Exists(objects[o]) /\ objects'[o] = objects[o] /\ LogsAfterCreation(o)
       /\ mountains'[objects[o].mountain] = mountains[objects[o].mountain]
       /\ editLog'[Newest].action = "update"
       /\ editLog'[Newest].mountain = objects[o].mountain
    \/ /\ Exists(objects[o]) /\ objects'[o] = Deleted /\ LogsAfterCreation(o)
       /\ editLog'[Newest].action = "delete"
    \/ /\ Exists(objects[o]) /\ objects'[o] = Deleted /\ ~ Logged(o)
       /\ mountains'[objects[o].mountain] = Deleted

BlobMove(k) ==
    \/ blobs'[k] = blobs[k]
    \/ blobs'[k] = "stored"
    \/ blobs'[k] = "gone" /\ \E p \in Handlers : At(p, "blob") /\ handlers[p].key = k

(* The handler of p comes to hold h: it knows what it needs of the rows as *)
(* they were, or its step discards the key it goes on to delete.           *)
Becomes(h) ==
    \/ Knows(h, mountains, objects, editLog)
    \/ h.pc = "blob" /\ Newest \in DOMAIN editLog' /\ editLog'[Newest].prior = h.key
    \/ /\ h.pc = "blob"
       /\ \E m \in Mountains : Known(editLog, m, h.key) /\ mountains'[m] = Deleted

MountainsMove ==
    /\ mountains' \in [Mountains -> Mountain \cup {Absent, Deleted}]
    /\ revisions' \in [Mountains -> Seq(Revision)]
    /\ \A m \in Mountains : MountainMove(m) /\ Len(revisions'[m]) <= MaxRevisions

ObjectsMove ==
    objects' \in [Objects -> SubObject \cup {Absent, Deleted}] /\ \A o \in Objects : ObjectMove(o)

GalleryMoves == gallery' \in [Photos -> MountainPhoto \cup {Absent, Deleted}]

BlobsMove ==
    blobs' \in [Keys -> {"none", "stored", "gone"}] /\ \A k \in Keys : BlobMove(k)

HandlersMove ==
    /\ handlers' \in [Handlers -> HandlerStates]
    /\ \A p \in Handlers : handlers'[p] = handlers[p] \/ Becomes(handlers'[p])

Forms ==
    /\ LogMove /\ MountainsMove /\ ObjectsMove /\ GalleryMoves /\ BlobsMove /\ HandlersMove

-----------------------------------------------------------------------------
(* From the forms to the invariant.                                        *)

(* Rows that are there.                                                    *)
LEMMA RowTypes ==
    /\ \A row \in Mountain : Exists(row) /\ row.photo \in Keys \cup {NoKey}
    /\ \A row \in SubObject : Exists(row) /\ row.mountain \in Mountains
    /\ \A row \in MountainPhoto : Exists(row) /\ row.key \in Keys
    /\ ~ Exists(Deleted) /\ ~ Exists(Absent) /\ Absent # Deleted
<1>1. \A row \in Mountain : Exists(row) /\ row.photo \in Keys \cup {NoKey}
  BY DEF Mountain, Exists, Absent, Deleted
<1>2. \A row \in SubObject : Exists(row) /\ row.mountain \in Mountains
  BY DEF SubObject, Exists, Absent, Deleted
<1>3. \A row \in MountainPhoto : Exists(row) /\ row.key \in Keys
  BY DEF MountainPhoto, Exists, Absent, Deleted
<1> QED
  BY <1>1, <1>2, <1>3 DEF Exists, Absent, Deleted

(* What is in a sequence that grew by one.                                 *)
LEMMA Appended ==
    ASSUME NEW S, NEW s \in Seq(S), NEW x \in S
    PROVE  /\ Append(s, x) \in Seq(S) /\ Len(Append(s, x)) = Len(s) + 1
           /\ DOMAIN Append(s, x) = DOMAIN s \cup {Len(s) + 1}
           /\ \A i \in DOMAIN s : Append(s, x)[i] = s[i]
           /\ Append(s, x)[Len(s) + 1] = x
OBVIOUS

(* The forms keep the types.                                               *)
LEMMA TypeStep == Forms => TypeOK'
BY DEF Forms, LogMove, MountainsMove, ObjectsMove, GalleryMoves, BlobsMove, HandlersMove,
   HandlerStates, TypeOK

(* What is in the log stays there, and where it may grow.                  *)
LEMMA LogGrows ==
    ASSUME TypeOK, LogMove
    PROVE  /\ Newest \in Nat /\ Newest \notin DOMAIN editLog
           /\ DOMAIN editLog \subseteq Nat /\ \A i \in DOMAIN editLog : i < Newest
           /\ DOMAIN editLog \subseteq DOMAIN editLog'
           /\ \A i \in DOMAIN editLog' : i \in DOMAIN editLog \/ i = Newest
           /\ \A i \in DOMAIN editLog : editLog'[i] = editLog[i]
<1>1. editLog \in Seq(EditLogEntry) /\ Len(editLog) \in Nat /\ DOMAIN editLog = 1..Len(editLog)
  BY DEF TypeOK
<1> QED
  BY <1>1 DEF LogMove, Newest

(* The entries about x after a step.                                       *)
LEMMA EntriesStep ==
    ASSUME TypeOK, LogMove, NEW x
    PROVE  /\ ~ Logged(x) => Entries(x)' = Entries(x)
           /\ Logged(x) => Entries(x)' = Entries(x) \cup {Newest}
           /\ Entries(x) \subseteq Nat /\ \A i \in Entries(x) : i < Newest
           /\ \A i \in Entries(x) : editLog'[i] = editLog[i]
BY LogGrows DEF Entries, Logged

(* A deleted mountain stays deleted, and an object keeps its mountain.     *)
LEMMA RowsStay ==
    ASSUME TypeOK, Forms
    PROVE  /\ \A m \in Mountains : mountains[m] = Deleted => mountains'[m] = Deleted
           /\ \A o \in Objects : objects[o] # Absent =>
                 /\ objects'[o] # Absent
                 /\ Exists(objects'[o]) => Exists(objects[o]) /\ objects'[o] = objects[o]
<1>1. ASSUME NEW m \in Mountains, mountains[m] = Deleted
      PROVE  mountains'[m] = Deleted
  BY <1>1 DEF Forms, MountainsMove, MountainMove, Mountain, Absent, Deleted
<1>2. ASSUME NEW o \in Objects, objects[o] # Absent
      PROVE  /\ objects'[o] # Absent
             /\ Exists(objects'[o]) => Exists(objects[o]) /\ objects'[o] = objects[o]
  BY <1>2 DEF Forms, ObjectsMove, ObjectMove, LogsAfterCreation, Exists, Absent, Deleted
<1> QED
  BY <1>1, <1>2

(* The creation of an object is logged once.                               *)
LEMMA CreationStays ==
    ASSUME TypeOK, Forms, NEW o \in Objects, objects[o] # Absent,
           NEW began, CreatedBy(editLog, o, began)
    PROVE  CreatedBy(editLog', o, began)
<1>1. ObjectMove(o)
  BY DEF Forms, ObjectsMove
<1>2. Logged(o) => editLog'[Newest].action # "create"
  BY <1>1 DEF ObjectMove, LogsAfterCreation
<1> QED
  BY <1>2, LogGrows DEF CreatedBy, Logged, Forms

(* What was so of a key stays so.                                          *)
LEMMA KeysStay ==
    ASSUME TypeOK, Forms, NEW k
    PROVE  /\ \A m \in Mountains : Known(editLog, m, k) => Known(editLog', m, k)
           /\ Dropped(editLog, mountains, k) => Dropped(editLog', mountains', k)
<1>1. \A m \in Mountains : Known(editLog, m, k) => Known(editLog', m, k)
  BY LogGrows DEF Known, Forms
<1>2. ASSUME NEW i \in DOMAIN editLog
      PROVE  editLog[i].mountain \in Mountains
  <2>1. editLog[i] \in EditLogEntry
    BY DEF TypeOK
  <2> QED
    BY <2>1 DEF EditLogEntry
<1>3. Dropped(editLog, mountains, k) => Dropped(editLog', mountains', k)
  BY <1>2, LogGrows, RowsStay DEF Dropped, Forms
<1> QED
  BY <1>1, <1>3

(* What a request knows it goes on knowing.                                *)
LEMMA KnowledgeStays ==
    ASSUME TypeOK, Forms, NEW h \in HandlerStates,
           Knows(h, mountains, objects, editLog)
    PROVE  Knows(h, mountains', objects', editLog')
<1>1. /\ h.pc \in {"snapshot", "write", "delete"} => h.mountain \in Mountains
      /\ h.pc = "object" => h.object \in Objects
  BY DEF HandlerStates, Idle, RowRequest
<1>2. h.pc \in {"prior", "snapshot", "write", "object"} => h.began <= Len(editLog')
  <2>1. h.pc \in {"prior", "snapshot", "write", "object"} => h.began \in Nat
    BY DEF HandlerStates, Idle, RowRequest
  <2>2. Len(editLog) \in Nat /\ Len(editLog') \in Nat /\ Len(editLog) <= Len(editLog')
    BY DEF Forms, LogMove, TypeOK
  <2> QED
    BY <2>1, <2>2 DEF Knows
<1>3. \A k : \A m \in Mountains : Known(editLog, m, k) => Known(editLog', m, k)
  BY KeysStay
<1>4. \A k : Dropped(editLog, mountains, k) => Dropped(editLog', mountains', k)
  BY KeysStay
<1>5. h.pc = "object" => CreatedBy(editLog', h.object, h.began)
  BY <1>1, CreationStays DEF Knows
<1> QED
  BY <1>1, <1>2, <1>3, <1>4, <1>5, RowsStay DEF Knows

(* Every handler knows what it must.                                       *)
LEMMA KnowStep == IndInv /\ Forms => HandlersKnow'
<1> SUFFICES ASSUME IndInv, Forms, NEW p \in Handlers
             PROVE  Knows(handlers'[p], mountains', objects', editLog')
  BY DEF HandlersKnow
<1> DEFINE h == handlers'[p]
<1>1. h \in HandlerStates /\ (h = handlers[p] \/ Becomes(h)) /\ TypeOK
  BY DEF Forms, HandlersMove, IndInv
<1>2. Knows(handlers[p], mountains, objects, editLog)
  BY DEF IndInv, HandlersKnow
<1>3. CASE Knows(h, mountains, objects, editLog)
  <2>1. \A x \in HandlerStates :
           Knows(x, mountains, objects, editLog)
           => Knows(x, mountains', objects', editLog')
    BY <1>1, KnowledgeStays
  <2> QED
    BY <1>1, <1>3, <2>1
<1>4. CASE h.pc = "blob" /\ Newest \in DOMAIN editLog' /\ editLog'[Newest].prior = h.key
  BY <1>4 DEF Knows, Dropped
<1>5. CASE /\ h.pc = "blob"
           /\ \E m \in Mountains : Known(editLog, m, h.key) /\ mountains'[m] = Deleted
  <2> PICK m \in Mountains : Known(editLog, m, h.key) /\ mountains'[m] = Deleted
    BY <1>5
  <2>1. Known(editLog', m, h.key)
    <3> HIDE DEF h
    <3> QED
      BY <1>1, KeysStay
  <2> QED
    BY <1>5, <2>1 DEF Knows, Dropped, Known
<1> QED
  BY <1>1, <1>2, <1>3, <1>4, <1>5 DEF Becomes

(* Covers, present and former, are in the log.                             *)
LEMMA CoverStep == IndInv /\ Forms => CoversKnown'
<1> SUFFICES ASSUME IndInv, Forms, NEW m \in Mountains
             PROVE  /\ Exists(mountains'[m]) => Known(editLog', m, mountains'[m].photo)
                    /\ \A i \in DOMAIN revisions'[m] :
                          Known(editLog', m, revisions'[m][i].snapshot.photo)
  BY DEF CoversKnown
<1>1. TypeOK /\ MountainMove(m) /\ revisions[m] \in Seq(Revision)
  BY DEF IndInv, Forms, MountainsMove, TypeOK
<1>2. \A k : Known(editLog, m, k) => Known(editLog', m, k)
  BY <1>1, KeysStay
<1>3. /\ Exists(mountains[m]) => Known(editLog', m, mountains[m].photo)
      /\ \A i \in DOMAIN revisions[m] : Known(editLog', m, revisions[m][i].snapshot.photo)
  BY <1>2 DEF IndInv, CoversKnown
<1>4. CASE mountains'[m] = mountains[m] /\ revisions'[m] = revisions[m]
  BY <1>3, <1>4
<1>5. CASE mountains'[m].photo = NoKey /\ revisions'[m] = revisions[m]
  BY <1>3, <1>5, CatalogueConstants DEF Known
<1>6. CASE mountains'[m] = Deleted /\ revisions'[m] = <<>>
  BY <1>6 DEF Exists
<1>7. ASSUME mountains[m] \in Mountain, mountains'[m] \in Mountain, NEW rev \in Revision,
             revisions'[m] = Append(revisions[m], rev),
             Known(editLog, m, rev.snapshot.photo),
             \/ mountains'[m].photo = mountains[m].photo
             \/ Known(editLog, m, mountains'[m].photo)
             \/ /\ Logged(m) /\ editLog'[Newest].mountain = m
                /\ editLog'[Newest].key = mountains'[m].photo
      PROVE  /\ Known(editLog', m, mountains'[m].photo)
             /\ \A i \in DOMAIN revisions'[m] :
                   Known(editLog', m, revisions'[m][i].snapshot.photo)
  <2>1. Exists(mountains[m])
    BY <1>7, RowTypes
  <2>2. Known(editLog', m, mountains'[m].photo)
    <3>1. CASE Logged(m) /\ editLog'[Newest].mountain = m
               /\ editLog'[Newest].key = mountains'[m].photo
      BY <3>1 DEF Known, Logged
    <3> QED
      BY <1>2, <1>3, <1>7, <2>1, <3>1
  <2>3. \A i \in DOMAIN revisions'[m] :
           \/ revisions'[m][i] = rev
           \/ i \in DOMAIN revisions[m] /\ revisions'[m][i] = revisions[m][i]
    BY <1>1, <1>7, Appended
  <2> QED
    BY <1>2, <1>3, <1>7, <2>2, <2>3
<1> QED
  BY <1>1, <1>4, <1>5, <1>6, <1>7 DEF MountainMove

(* An image leaves the store only when its key is discarded.               *)
LEMMA ImageStep == IndInv /\ Forms => LostImageIsLogged'
<1> SUFFICES ASSUME IndInv, Forms, NEW k \in Keys, blobs'[k] = "gone"
             PROVE  Discarded(k)'
  BY DEF LostImageIsLogged
<1> TypeOK
  BY DEF IndInv
<1>1. blobs[k] = "gone" \/ \E p \in Handlers : At(p, "blob") /\ handlers[p].key = k
  BY DEF Forms, BlobsMove, BlobMove
<1>2. Dropped(editLog, mountains, k)
  BY <1>1 DEF IndInv, LostImageIsLogged, Discarded, Dropped, HandlersKnow, Knows, At
<1>3. Dropped(editLog', mountains', k)
  BY <1>2, KeysStay
<1> QED
  BY <1>3 DEF Dropped, Discarded

(* The entry whose key a mountain shows, and that nothing has followed.    *)
Shown(log, entries, key) ==
    \/ entries = {} /\ key = NoKey
    \/ \E i \in entries : log[i].key = key /\ \A j \in entries : ~ log[j].began >= i

(* A mountain shows a cover that is logged of it, and that nothing begun   *)
(* since has replaced.                                                     *)
LEMMA NewestStep == IndInv /\ Forms => LogSound' /\ CoverFollowsLog'
<1> SUFFICES ASSUME IndInv, Forms
             PROVE  LogSound' /\ CoverFollowsLog'
  OBVIOUS
<1> TypeOK /\ LogMove
  BY DEF IndInv, Forms
<1>1. \A i \in DOMAIN editLog' : editLog'[i].began < i
  BY LogGrows DEF LogMove, IndInv, LogSound
<1> SUFFICES ASSUME NEW m \in Mountains
             PROVE  /\ mountains'[m] = Absent => Entries(m)' = {}
                    /\ (Exists(mountains'[m])
                        /\ \A i \in DOMAIN revisions'[m] : ~ revisions'[m][i].rollback)
                       => Shown(editLog', Entries(m)', mountains'[m].photo)
  BY <1>1 DEF LogSound, CoverFollowsLog, Shown, Follows
<1> MountainMove(m)
  BY DEF Forms, MountainsMove
<1>2. /\ mountains[m] = Absent => Entries(m) = {}
      /\ (Exists(mountains[m]) /\ \A i \in DOMAIN revisions[m] : ~ revisions[m][i].rollback)
         => Shown(editLog, Entries(m), mountains[m].photo)
  BY DEF IndInv, LogSound, CoverFollowsLog, Shown, Follows
<1>3. ASSUME ~ Logged(m)
      PROVE  /\ Entries(m)' = Entries(m)
             /\ \A k : Shown(editLog, Entries(m), k) => Shown(editLog', Entries(m)', k)
  <2>1. Entries(m)' = Entries(m) /\ \A i \in Entries(m) : editLog'[i] = editLog[i]
    BY <1>3, EntriesStep
  <2> QED
    BY <2>1 DEF Shown
<1>4. ASSUME Logged(m)
      PROVE  Shown(editLog', Entries(m)', editLog'[Newest].key)
  <2>1. Entries(m)' = Entries(m) \cup {Newest} /\ Newest \in Nat
        /\ Entries(m) \subseteq Nat /\ \A i \in Entries(m) : i < Newest
    BY <1>4, EntriesStep, LogGrows
  <2>2. ASSUME NEW j \in Entries(m)'
        PROVE  ~ editLog'[j].began >= Newest
    <3>1. j \in DOMAIN editLog' /\ j \in Nat /\ j <= Newest
      BY <2>1, <2>2 DEF Entries
    <3>2. editLog'[j].began < j /\ editLog'[j].began \in Nat
      <4>1. editLog'[j] \in EditLogEntry
        BY <3>1 DEF LogMove
      <4> QED
        BY <1>1, <3>1, <4>1 DEF EditLogEntry
    <3> QED
      BY <2>1, <3>1, <3>2
  <2> QED
    BY <2>1, <2>2 DEF Shown
<1>5. CASE mountains'[m] = mountains[m] /\ revisions'[m] = revisions[m] /\ ~ Logged(m)
  BY <1>2, <1>3, <1>5
<1>6. CASE /\ mountains[m] = Absent /\ mountains'[m] \in Mountain /\ mountains'[m].photo = NoKey
           /\ revisions'[m] = revisions[m] /\ ~ Logged(m)
  <2>1. Entries(m)' = {} /\ mountains'[m] # Absent
    BY <1>2, <1>3, <1>6 DEF Mountain, Absent
  <2> QED
    BY <1>6, <2>1 DEF Shown
<1>7. CASE mountains'[m] = Deleted /\ ~ Logged(m)
  BY <1>7 DEF Exists, Absent, Deleted
<1>8. ASSUME mountains[m] \in Mountain, mountains'[m] \in Mountain, NEW rev \in Revision,
             revisions'[m] = Append(revisions[m], rev),
             \/ mountains'[m].photo = mountains[m].photo /\ ~ Logged(m)
             \/ rev.rollback /\ ~ Logged(m)
             \/ Logged(m) /\ editLog'[Newest].key = mountains'[m].photo
      PROVE  (\A i \in DOMAIN revisions'[m] : ~ revisions'[m][i].rollback)
             => Shown(editLog', Entries(m)', mountains'[m].photo)
  <2>1. revisions[m] \in Seq(Revision) /\ Exists(mountains[m])
    BY <1>8, RowTypes DEF TypeOK
  <2>2. /\ \A i \in DOMAIN revisions[m] :
              i \in DOMAIN revisions'[m] /\ revisions'[m][i] = revisions[m][i]
        /\ \E i \in DOMAIN revisions'[m] : revisions'[m][i] = rev
    BY <1>8, <2>1, Appended
  <2> QED
    BY <1>2, <1>3, <1>4, <1>8, <2>1, <2>2
<1> QED
  BY <1>5, <1>6, <1>7, <1>8 DEF MountainMove, Mountain, Absent, Deleted, Exists

(* The entries about an object, in the order of their commits.             *)
Ordered(log, entries) ==
    \A i, j \in entries : i < j =>
        /\ log[i].action # "delete" /\ log[j].action # "create"
        /\ log[i].action = "create" => i <= log[j].began

(* The log tells the life of each route and basecamp.                      *)
LEMMA TrailStep == IndInv /\ Forms => ObjectsSound' /\ TrailMatchesObjects'
<1> SUFFICES ASSUME IndInv, Forms, NEW o \in Objects
             PROVE  /\ objects'[o] = Absent => Entries(o)' = {}
                    /\ Exists(objects'[o]) =>
                          /\ Exists(mountains'[objects'[o].mountain])
                          /\ \A i \in Entries(o)' :
                                editLog'[i].mountain = objects'[o].mountain
                    /\ Ordered(editLog', Entries(o)')
                    /\ Exists(objects'[o]) <=>
                          /\ Entries(o)' # {}
                          /\ \A i \in Entries(o)' : /\ editLog'[i].action # "delete"
                                                    /\ mountains'[editLog'[i].mountain] # Deleted
  <2>1. ASSUME NEW o \in Objects, Ordered(editLog', Entries(o)'), NEW i \in Entries(o)',
               NEW j \in Entries(o)', i # j, IndInv, Forms
        PROVE  /\ editLog'[i].action = "create" => Follows(j, i)'
               /\ editLog'[i].action = "delete" =>
                     ~ Follows(j, i)' /\ editLog'[j].action # "delete"
    <3>1. /\ i \in Nat /\ j \in Nat /\ editLog'[j].began \in Nat /\ editLog'[j].began < j
      <4>1. LogSound' /\ TypeOK'
        BY <2>1, NewestStep, TypeStep
      <4>2. editLog' \in Seq(EditLogEntry) /\ i \in DOMAIN editLog' /\ j \in DOMAIN editLog'
        BY <4>1, <2>1 DEF TypeOK, Entries
      <4>3. i \in Nat /\ j \in Nat /\ editLog'[j] \in EditLogEntry
        BY <4>2
      <4> QED
        BY <4>1, <4>2, <4>3 DEF LogSound, EditLogEntry
    <3>2. CASE i < j
      BY <2>1, <3>1, <3>2 DEF Ordered, Follows
    <3>3. CASE j < i
      BY <2>1, <3>1, <3>3 DEF Ordered, Follows
    <3> QED
      BY <2>1, <3>1, <3>2, <3>3
  <2> QED
    BY <2>1 DEF ObjectsSound, TrailMatchesObjects, Ordered
<1> TypeOK /\ LogMove /\ ObjectMove(o)
  BY DEF IndInv, Forms, ObjectsMove
<1> DEFINE E == Entries(o)
           F == Entries(o)'
<1>1. /\ objects[o] = Absent => E = {}
      /\ Exists(objects[o]) =>
            /\ Exists(mountains[objects[o].mountain])
            /\ \A i \in E : editLog[i].mountain = objects[o].mountain
      /\ Ordered(editLog, E)
      /\ Exists(objects[o]) <=>
            /\ E # {}
            /\ \A i \in E : /\ editLog[i].action # "delete"
                            /\ mountains[editLog[i].mountain] # Deleted
  BY DEF IndInv, ObjectsSound, TrailMatchesObjects, Ordered
<1>2. /\ E \subseteq Nat /\ Newest \in Nat /\ Newest \notin E /\ \A i \in E : i < Newest
      /\ \A i \in E : editLog'[i] = editLog[i] /\ editLog[i].mountain \in Mountains
      /\ ~ Logged(o) => F = E
      /\ Logged(o) => F = E \cup {Newest}
  <2>1. ASSUME NEW i \in E
        PROVE  editLog[i].mountain \in Mountains
    <3>1. editLog[i] \in EditLogEntry
      BY DEF TypeOK, Entries
    <3> QED
      BY <3>1 DEF EditLogEntry
  <2> QED
    BY <2>1, EntriesStep, LogGrows
<1>3. /\ \A m \in Mountains : mountains[m] = Deleted => mountains'[m] = Deleted
      /\ \A m \in Mountains :
            Exists(mountains[m]) => Exists(mountains'[m]) \/ mountains'[m] = Deleted
  <2>1. \A m \in Mountains :
           Exists(mountains[m]) => Exists(mountains'[m]) \/ mountains'[m] = Deleted
    BY DEF Forms, MountainsMove, MountainMove, Exists, Mountain, Absent, Deleted
  <2> QED
    BY <2>1, RowsStay
<1>4. /\ Exists(objects[o]) => objects[o].mountain \in Mountains
      /\ objects[o] \in SubObject => Exists(objects[o])
      /\ objects'[o] \in SubObject => Exists(objects'[o]) /\ objects'[o].mountain \in Mountains
      /\ ~ Exists(Deleted) /\ ~ Exists(Absent) /\ Absent # Deleted
  BY DEF TypeOK, Exists, SubObject, Absent, Deleted
<1>5. \A x : Exists(x) => x # Deleted
  BY DEF Exists
<1>e. E = {i \in DOMAIN editLog : editLog[i].entity = o}
  BY DEF Entries
<1> HIDE DEF E, F
(* The order after a step: as it was, or with one entry more at its end.   *)
<1>o. /\ ~ Logged(o) => Ordered(editLog', F)
      /\ /\ Logged(o) /\ editLog'[Newest].action # "create"
         /\ \A i \in E : editLog[i].action # "delete"
         /\ CreatedBy(editLog, o, editLog'[Newest].began)
         => Ordered(editLog', F)
      /\ Logged(o) /\ E = {} => Ordered(editLog', F)
  <2>1. CASE ~ Logged(o)
    BY <1>1, <1>2, <2>1 DEF Ordered
  <2>2. ASSUME Logged(o), editLog'[Newest].action # "create",
               \A i \in E : editLog[i].action # "delete",
               CreatedBy(editLog, o, editLog'[Newest].began),
               NEW i \in F, NEW j \in F, i < j
        PROVE  /\ editLog'[i].action # "delete" /\ editLog'[j].action # "create"
               /\ editLog'[i].action = "create" => i <= editLog'[j].began
    <3>1. F = E \cup {Newest} /\ i \in Nat /\ j \in Nat
      BY <1>2, <2>2
    <3>2. i \in E
      BY <1>2, <2>2, <3>1
    <3>3. CASE j \in E
      BY <1>1, <1>2, <2>2, <3>2, <3>3 DEF Ordered
    <3>4. CASE j = Newest
      BY <1>2, <1>e, <2>2, <3>2, <3>4 DEF CreatedBy
    <3> QED
      BY <3>1, <3>3, <3>4
  <2>3. CASE Logged(o) /\ E = {}
    BY <1>2, <2>3 DEF Ordered
  <2> QED
    BY <2>1, <2>2, <2>3 DEF Ordered
<1>6. CASE objects'[o] = objects[o] /\ ~ Logged(o)
           /\ (Exists(objects[o]) => mountains'[objects[o].mountain] # Deleted)
  BY <1>1, <1>2, <1>3, <1>4, <1>5, <1>6, <1>o DEF F
<1>7. CASE /\ objects[o] = Absent /\ objects'[o] \in SubObject /\ Logged(o)
           /\ Exists(mountains'[objects'[o].mountain])
           /\ editLog'[Newest].action = "create"
           /\ editLog'[Newest].mountain = objects'[o].mountain
  <2>1. F = {Newest} /\ Exists(objects'[o]) /\ objects'[o] # Absent
    BY <1>1, <1>2, <1>4, <1>7 DEF Exists
  <2>2. Ordered(editLog', F)
    BY <1>1, <1>7, <1>o
  <2> QED
    BY <1>2, <1>5, <1>7, <2>1, <2>2 DEF F
<1>8. CASE /\ Exists(objects[o]) /\ objects'[o] = objects[o] /\ LogsAfterCreation(o)
           /\ mountains'[objects[o].mountain] = mountains[objects[o].mountain]
           /\ editLog'[Newest].action = "update"
           /\ editLog'[Newest].mountain = objects[o].mountain
  <2>1. /\ Exists(mountains'[objects'[o].mountain]) /\ objects'[o] # Absent
        /\ mountains'[objects'[o].mountain] # Deleted
    BY <1>1, <1>4, <1>5, <1>8 DEF Exists
  <2>2. \A i \in F : /\ editLog'[i].mountain = objects'[o].mountain
                    /\ editLog'[i].action # "delete"
    BY <1>1, <1>2, <1>8 DEF LogsAfterCreation
  <2>3. Ordered(editLog', F)
    BY <1>1, <1>8, <1>o DEF LogsAfterCreation
  <2>4. F # {}
    BY <1>2, <1>8 DEF LogsAfterCreation
  <2> QED
    BY <1>8, <2>1, <2>2, <2>3, <2>4 DEF F
<1>9. CASE /\ Exists(objects[o]) /\ objects'[o] = Deleted /\ LogsAfterCreation(o)
           /\ editLog'[Newest].action = "delete"
  <2>1. Ordered(editLog', F)
    BY <1>1, <1>9, <1>o DEF LogsAfterCreation
  <2>2. \A i \in E : editLog'[i].action # "delete"
    BY <1>1, <1>2, <1>9
  <2>3. Newest \in F /\ objects'[o] # Absent /\ ~ Exists(objects'[o])
    BY <1>2, <1>4, <1>9 DEF LogsAfterCreation
  <2> QED
    BY <1>9, <2>1, <2>2, <2>3 DEF F
<1>10. CASE /\ Exists(objects[o]) /\ objects'[o] = Deleted /\ ~ Logged(o)
            /\ mountains'[objects[o].mountain] = Deleted
  <2>1. \E i \in E : mountains'[editLog[i].mountain] = Deleted
    BY <1>1, <1>10
  <2> QED
    BY <1>1, <1>2, <1>4, <1>10, <1>o, <2>1 DEF F
<1> QED
  BY <1>6, <1>7, <1>8, <1>9, <1>10 DEF ObjectMove

-----------------------------------------------------------------------------
(* Helpers for the actions.                                                *)

(* What a handler holds at each of its statements.                         *)
LEMMA PcTypes ==
    ASSUME TypeOK, NEW p \in Handlers
    PROVE  /\ At(p, "snapshot") => handlers[p] \in RowRequest
           /\ At(p, "write") => handlers[p] \in
                [pc: {"write"}, op: {"edit", "rollback", "photo"}, mountain: Mountains,
                 to: Mountain, prior: Keys \cup {NoKey}, began: 0..MaxLog, snap: Mountain]
           /\ At(p, "prior") => handlers[p] \in
                [pc: {"prior"}, mountain: Mountains, key: Keys \cup {NoKey}, began: 0..MaxLog]
           /\ At(p, "delete") => handlers[p] \in
                [pc: {"delete"}, mountain: Mountains, key: Keys \cup {NoKey}]
           /\ At(p, "object") => handlers[p] \in
                [pc: {"object"}, op: {"update", "delete"}, object: Objects,
                 mountain: Mountains, began: 0..MaxLog]
           /\ At(p, "addPhoto") => handlers[p] \in
                [pc: {"addPhoto"}, mountain: Mountains, key: Keys]
           /\ At(p, "deletePhoto") => handlers[p] \in
                [pc: {"deletePhoto"}, photo: Photos, mountain: Mountains,
                 key: Keys \cup {NoKey}]
           /\ At(p, "logPhoto") => handlers[p] \in
                [pc: {"logPhoto"}, photo: Photos, mountain: Mountains,
                 action: {"photo_set", "photo_remove"}, key: Keys \cup {NoKey}]
BY DEF TypeOK, At, Idle, RowRequest

(* What an edit and a cover change make of a mountain's row.               *)
LEMMA EditedRow ==
    ASSUME NEW row \in Mountain, NEW b \in [Fields -> Values], NEW k \in Keys \cup {NoKey}
    PROVE  /\ [row EXCEPT !.body = b] = [body |-> b, photo |-> row.photo]
           /\ [row EXCEPT !.body = b] \in Mountain
           /\ [row EXCEPT !.photo = k] = [body |-> row.body, photo |-> k]
           /\ [row EXCEPT !.photo = k] \in Mountain
BY DEF Mountain

(* A patched body is a body.                                               *)
LEMMA PatchedBody ==
    ASSUME NEW b \in [Fields -> Values], NEW patch \in Patches
    PROVE  Patched(b, patch) \in [Fields -> Values]
BY DEF Patches, Patched

(* An entry of the log.                                                    *)
LEMMA EntryTypes ==
    ASSUME NEW m \in Mountains, NEW x \in Mountains \cup Objects \cup Photos,
           NEW a \in {"create", "update", "delete", "photo_set", "photo_remove"},
           NEW k \in Keys \cup {NoKey}, NEW prior \in Keys \cup {NoKey}, NEW began \in 0..MaxLog
    PROVE  Entry(m, x, a, k, prior, began) \in EditLogEntry
BY DEF Entry, EditLogEntry

(* The length of the log.                                                  *)
LEMMA NowIsBounded ==
    ASSUME TypeOK
    PROVE  Now \in 0..MaxLog /\ Now \in Nat /\ Now = Len(editLog) /\ 0 \in 0..MaxLog
           /\ 0 <= Len(editLog) /\ DOMAIN editLog = 1..Now
BY CatalogueConstants DEF TypeOK, Now

(* A step that logs.                                                       *)
LEMMA StepLogs ==
    ASSUME TypeOK, NEW e \in EditLogEntry, Log(e), e.began <= Len(editLog)
    PROVE  /\ LogMove /\ Newest \in DOMAIN editLog' /\ editLog'[Newest] = e
           /\ \A x : Logged(x) <=> e.entity = x
<1>1. editLog \in Seq(EditLogEntry) /\ Len(editLog) \in Nat /\ Len(editLog) < MaxLog
      /\ editLog' = Append(editLog, e) /\ MaxLog \in Nat
  BY CatalogueConstants DEF TypeOK, Log
<1>2. /\ editLog' \in Seq(EditLogEntry) /\ Len(editLog') <= MaxLog
      /\ DOMAIN editLog' = DOMAIN editLog \cup {Newest}
      /\ \A i \in DOMAIN editLog : editLog'[i] = editLog[i]
      /\ editLog'[Newest] = e /\ Len(editLog) <= Len(editLog')
  BY <1>1, Appended DEF Newest
<1>3. e.began < Newest
  <2>1. e.began \in Nat
    BY DEF EditLogEntry
  <2> QED
    BY <1>1, <2>1 DEF Newest
<1> QED
  BY <1>2, <1>3 DEF LogMove, Logged

(* A step that does not.                                                   *)
LEMMA StepLogsNothing ==
    ASSUME TypeOK, UNCHANGED editLog
    PROVE  LogMove /\ \A x : ~ Logged(x)
<1>1. editLog \in Seq(EditLogEntry) /\ Len(editLog) \in Nat /\ DOMAIN editLog = 1..Len(editLog)
  BY DEF TypeOK
<1>2. Newest \notin DOMAIN editLog'
  BY <1>1 DEF Newest
<1> QED
  BY <1>2 DEF LogMove, Logged, TypeOK

(* Rows that a step leaves alone.                                          *)
LEMMA LeftAlone ==
    ASSUME IndInv
    PROVE  /\ UNCHANGED <<mountains, revisions>> /\ (\A m \in Mountains : ~ Logged(m))
                 => MountainsMove
           /\ /\ UNCHANGED objects
              /\ \A o \in Objects : ~ Logged(o)
              /\ (\A m \in Mountains : Exists(mountains[m]) => mountains'[m] # Deleted)
              => ObjectsMove
           /\ UNCHANGED gallery => GalleryMoves
           /\ UNCHANGED blobs => BlobsMove
           /\ UNCHANGED handlers => HandlersMove
<1> TypeOK
  BY DEF IndInv
<1>1. UNCHANGED <<mountains, revisions>> /\ (\A m \in Mountains : ~ Logged(m)) => MountainsMove
  BY DEF TypeOK, MountainsMove, MountainMove
<1>2. ASSUME UNCHANGED objects, \A o \in Objects : ~ Logged(o),
             \A m \in Mountains : Exists(mountains[m]) => mountains'[m] # Deleted
      PROVE  ObjectsMove
  <2>1. \A o \in Objects : Exists(objects[o]) =>
           objects[o].mountain \in Mountains /\ Exists(mountains[objects[o].mountain])
    BY RowTypes DEF IndInv, ObjectsSound, TypeOK, Exists
  <2>2. \A o \in Objects : ObjectMove(o)
    BY <1>2, <2>1 DEF ObjectMove
  <2> QED
    BY <1>2, <2>2 DEF TypeOK, ObjectsMove
<1>3. UNCHANGED gallery => GalleryMoves
  BY DEF TypeOK, GalleryMoves
<1>4. UNCHANGED blobs => BlobsMove
  BY DEF TypeOK, BlobsMove, BlobMove
<1>5. UNCHANGED handlers => HandlersMove
  BY DEF TypeOK, HandlersMove, HandlerStates
<1> QED
  BY <1>1, <1>2, <1>3, <1>4, <1>5

(* A step that only reads.                                                 *)
LEMMA StepReads ==
    ASSUME IndInv, UNCHANGED <<mountains, revisions, objects, gallery, editLog, blobs>>,
           HandlersMove
    PROVE  Forms
<1>1. \A m \in Mountains : Exists(mountains[m]) => mountains'[m] # Deleted
  BY DEF Exists
<1>2. LogMove /\ \A x : ~ Logged(x)
  BY StepLogsNothing DEF IndInv
<1>3. MountainsMove /\ ObjectsMove /\ GalleryMoves /\ BlobsMove
  BY <1>1, <1>2, LeftAlone
<1> QED
  BY <1>2, <1>3 DEF Forms

(* A step of one handler.                                                  *)
LEMMA Turn ==
    ASSUME TypeOK, NEW p \in Handlers, NEW h \in HandlerStates, Continue(p, h), Becomes(h)
    PROVE  HandlersMove
<1>1. handlers \in [Handlers -> HandlerStates]
  BY DEF TypeOK, HandlerStates
<1>2. \A q \in Handlers : handlers'[q] = IF q = p THEN h ELSE handlers[q]
  BY <1>1 DEF Continue
<1> QED
  BY <1>1, <1>2 DEF HandlersMove, Continue

(* The end of a handler.                                                   *)
LEMMA TurnEnds ==
    ASSUME TypeOK, NEW p \in Handlers, Continue(p, Idle)
    PROVE  HandlersMove
<1>1. Idle \in HandlerStates /\ Becomes(Idle)
  BY DEF HandlerStates, Becomes, Knows, Idle
<1> QED
  BY <1>1, Turn

(* No photo is known and discarded anyway.                                 *)
LEMMA NoKeyIsFree ==
    /\ \A log, m : Known(log, m, NoKey)
    /\ \A log, ms : Dropped(log, ms, NoKey)
BY CatalogueConstants DEF Known, Dropped

(* The cover of a mountain, present or former, is logged.                  *)
LEMMA CoverIsKnown ==
    ASSUME IndInv, NEW m \in Mountains
    PROVE  /\ Exists(mountains[m]) =>
                 mountains[m] \in Mountain /\ Known(editLog, m, mountains[m].photo)
           /\ \A i \in DOMAIN revisions[m] :
                 /\ revisions[m][i].snapshot \in Mountain
                 /\ Known(editLog, m, revisions[m][i].snapshot.photo)
<1>1. Exists(mountains[m]) => mountains[m] \in Mountain
  BY DEF IndInv, TypeOK, Exists
<1>2. ASSUME NEW i \in DOMAIN revisions[m]
      PROVE  revisions[m][i].snapshot \in Mountain
  <2>1. revisions[m] \in Seq(Revision)
    BY DEF IndInv, TypeOK
  <2>2. revisions[m][i] \in Revision
    BY <2>1
  <2> QED
    BY <2>2 DEF Revision
<1> QED
  BY <1>1, <1>2 DEF IndInv, CoversKnown

-----------------------------------------------------------------------------
(* The actions.                                                            *)

(* The first statement of each request reads.                              *)
LEMMA BeginForms ==
    ASSUME IndInv, NEW p \in Handlers, Begin(p)
    PROVE  Forms
<1> TypeOK
  BY DEF IndInv
<1>1. ASSUME NEW m \in Mountains, NEW patch \in Patches, EditFind(p, m, patch)
      PROVE  Forms
  <2> DEFINE b == Patched(mountains[m].body, patch)
             row == [mountains[m] EXCEPT !.body = b]
             held == [pc |-> "snapshot", op |-> "edit", mountain |-> m, prior |-> NoKey,
                      began |-> 0, to |-> row]
  <2>1. mountains[m] \in Mountain /\ Known(editLog, m, mountains[m].photo)
    BY <1>1, CoverIsKnown DEF EditFind
  <2>2. b \in [Fields -> Values]
    BY <2>1, PatchedBody DEF Mountain
  <2>3. row \in Mountain /\ row.photo = mountains[m].photo
    <3> HIDE DEF b
    <3>1. row \in Mountain /\ row = [body |-> b, photo |-> mountains[m].photo]
      BY <2>1, <2>2, EditedRow
    <3> QED
      BY <3>1
  <2>4. Continue(p, held) /\ UNCHANGED <<mountains, revisions, objects, gallery, editLog, blobs>>
    BY <1>1 DEF EditFind
  <2> HIDE DEF row
  <2>5. held \in HandlerStates
    BY <2>3, NowIsBounded DEF HandlerStates, RowRequest
  <2>6. Becomes(held)
    BY <2>1, <2>3, NoKeyIsFree, NowIsBounded DEF Becomes, Knows
  <2> HIDE DEF held
  <2> QED
    BY <2>4, <2>5, <2>6, Turn, StepReads
<1>2. ASSUME NEW m \in Mountains, NEW i \in 1..MaxRevisions, RollbackRead(p, m, i)
      PROVE  Forms
  <2> DEFINE row == revisions[m][i].snapshot
             held == [pc |-> "snapshot", op |-> "rollback", mountain |-> m, prior |-> NoKey,
                      began |-> 0, to |-> row]
  <2>1. row \in Mountain /\ Known(editLog, m, row.photo)
    BY <1>2, CoverIsKnown DEF RollbackRead
  <2>2. Continue(p, held) /\ UNCHANGED <<mountains, revisions, objects, gallery, editLog, blobs>>
    BY <1>2 DEF RollbackRead
  <2> HIDE DEF row
  <2>3. held \in HandlerStates
    BY <2>1, NowIsBounded DEF HandlerStates, RowRequest
  <2>4. Becomes(held)
    BY <2>1, NoKeyIsFree, NowIsBounded DEF Becomes, Knows
  <2> HIDE DEF held
  <2> QED
    BY <2>2, <2>3, <2>4, Turn, StepReads
<1>3. ASSUME NEW m \in Mountains, NEW key \in Keys \cup {NoKey}, PhotoBegin(p, m, key)
      PROVE  Forms
  <2> DEFINE held == [pc |-> "prior", mountain |-> m, key |-> key, began |-> Now]
  <2>1. Continue(p, held) /\ UNCHANGED <<mountains, revisions, objects, gallery, editLog, blobs>>
    BY <1>3 DEF PhotoBegin
  <2>2. held \in HandlerStates
    BY NowIsBounded DEF HandlerStates
  <2>3. Becomes(held)
    BY NowIsBounded DEF Becomes, Knows
  <2> HIDE DEF held
  <2> QED
    BY <2>1, <2>2, <2>3, Turn, StepReads
<1>4. ASSUME NEW m \in Mountains, DeleteFind(p, m)
      PROVE  Forms
  <2>1. mountains[m] \in Mountain /\ Known(editLog, m, mountains[m].photo)
    BY <1>4, CoverIsKnown DEF DeleteFind
  <2> PICK key \in {mountains[m].photo, NoKey} :
             Continue(p, [pc |-> "delete", mountain |-> m, key |-> key])
    BY <1>4 DEF DeleteFind
  <2> DEFINE held == [pc |-> "delete", mountain |-> m, key |-> key]
  <2>2. Continue(p, held) /\ UNCHANGED <<mountains, revisions, objects, gallery, editLog, blobs>>
    BY <1>4 DEF DeleteFind
  <2>3. held \in HandlerStates
    BY <2>1, RowTypes DEF HandlerStates
  <2>4. Becomes(held)
    BY <2>1, NoKeyIsFree DEF Becomes, Knows
  <2> HIDE DEF held
  <2> QED
    BY <2>2, <2>3, <2>4, Turn, StepReads
<1>5. ASSUME NEW m \in Mountains, NEW key \in Keys, AddPhotoFind(p, m, key)
      PROVE  Forms
  <2> DEFINE held == [pc |-> "addPhoto", mountain |-> m, key |-> key]
  <2>1. Continue(p, held) /\ UNCHANGED <<mountains, revisions, objects, gallery, editLog, blobs>>
    BY <1>5 DEF AddPhotoFind
  <2>2. held \in HandlerStates
    BY DEF HandlerStates
  <2>3. Becomes(held)
    BY DEF Becomes, Knows
  <2> HIDE DEF held
  <2> QED
    BY <2>1, <2>2, <2>3, Turn, StepReads
<1>6. ASSUME NEW o \in Objects, NEW op \in {"update", "delete"}, ObjectFind(p, o, op)
      PROVE  Forms
  <2> DEFINE held == [pc |-> "object", op |-> op, object |-> o,
                      mountain |-> objects[o].mountain, began |-> Now]
  <2>1. objects[o] \in SubObject
    BY <1>6 DEF ObjectFind, TypeOK, Exists
  <2>2. Continue(p, held) /\ UNCHANGED <<mountains, revisions, objects, gallery, editLog, blobs>>
    BY <1>6 DEF ObjectFind
  <2>3. held \in HandlerStates
    BY <2>1, RowTypes, NowIsBounded DEF HandlerStates
  <2>4. Becomes(held)
    BY <1>6, NowIsBounded DEF ObjectFind, Becomes, Knows, CreatedBy, Exists
  <2> HIDE DEF held
  <2> QED
    BY <2>2, <2>3, <2>4, Turn, StepReads
<1>7. ASSUME NEW g \in Photos, DeletePhotoFind(p, g)
      PROVE  Forms
  <2>1. gallery[g] \in MountainPhoto /\ Exists(gallery[g])
    BY <1>7 DEF DeletePhotoFind, TypeOK, Exists
  <2>2. gallery[g].mountain \in Mountains /\ gallery[g].key \in Keys
    BY <2>1 DEF MountainPhoto
  <2> PICK key \in {gallery[g].key, NoKey} :
             Continue(p, [pc |-> "deletePhoto", photo |-> g,
                          mountain |-> gallery[g].mountain, key |-> key])
    BY <1>7 DEF DeletePhotoFind
  <2> DEFINE held == [pc |-> "deletePhoto", photo |-> g,
                      mountain |-> gallery[g].mountain, key |-> key]
  <2>3. Continue(p, held) /\ UNCHANGED <<mountains, revisions, objects, gallery, editLog, blobs>>
    BY <1>7 DEF DeletePhotoFind
  <2>4. held \in HandlerStates
    BY <2>2 DEF HandlerStates
  <2>5. Becomes(held)
    BY DEF Becomes, Knows
  <2> HIDE DEF held
  <2> QED
    BY <2>3, <2>4, <2>5, Turn, StepReads
<1> QED
  BY <1>1, <1>2, <1>3, <1>4, <1>5, <1>6, <1>7 DEF Begin

(* The read of the prior cover.                                            *)
LEMMA PriorForms ==
    ASSUME IndInv, NEW p \in Handlers, PhotoPrior(p)
    PROVE  Forms
<1> TypeOK
  BY DEF IndInv
<1> DEFINE h == handlers[p]
           m == h.mountain
           key == h.key
           row == [mountains[m] EXCEPT !.photo = key]
           held == [pc |-> "snapshot", op |-> "photo", mountain |-> m,
                    prior |-> mountains[m].photo, began |-> h.began, to |-> row]
<1>1. /\ m \in Mountains /\ key \in Keys \cup {NoKey} /\ h.began \in 0..MaxLog
      /\ h.began <= Len(editLog)
  BY PcTypes DEF PhotoPrior, At, IndInv, HandlersKnow, Knows
<1>2. mountains[m] \in Mountain /\ Known(editLog, m, mountains[m].photo)
  BY <1>1, CoverIsKnown DEF PhotoPrior
<1>3. Continue(p, held) /\ UNCHANGED <<mountains, revisions, objects, gallery, editLog, blobs>>
  BY DEF PhotoPrior
<1>4. row \in Mountain
  <2> DEFINE old == mountains[m]
  <2>1. old \in Mountain /\ key \in Keys \cup {NoKey} /\ row = [old EXCEPT !.photo = key]
        /\ old.body \in [Fields -> Values]
    BY <1>1, <1>2 DEF Mountain
  <2> HIDE DEF old, key, row
  <2> QED
    BY <2>1, EditedRow
<1> HIDE DEF row, h
<1>5. held \in HandlerStates
  BY <1>1, <1>2, <1>4, RowTypes DEF HandlerStates, RowRequest
<1>6. Becomes(held)
  BY <1>1, <1>2 DEF Becomes, Knows
<1> HIDE DEF held
<1> QED
  BY <1>3, <1>5, <1>6, Turn, StepReads

(* snapshotMountain.                                                       *)
LEMMA SnapshotForms ==
    ASSUME IndInv, NEW p \in Handlers, Snapshot(p)
    PROVE  Forms
<1> TypeOK
  BY DEF IndInv
<1> DEFINE h == handlers[p]
           m == h.mountain
           held == [pc |-> "write", op |-> h.op, mountain |-> m, to |-> h.to,
                    prior |-> h.prior, began |-> h.began, snap |-> mountains[m]]
<1>1. h \in RowRequest /\ h.pc = "snapshot"
  BY PcTypes DEF Snapshot, At
<1>2. /\ m \in Mountains /\ h.op \in {"edit", "rollback", "photo"}
      /\ h.to \in Mountain /\ h.prior \in Keys \cup {NoKey} /\ h.began \in 0..MaxLog
  BY <1>1 DEF RowRequest
<1>3. mountains[m] \in Mountain /\ Known(editLog, m, mountains[m].photo)
  BY <1>2, CoverIsKnown DEF Snapshot
<1>4. Knows(h, mountains, objects, editLog)
  BY DEF IndInv, HandlersKnow
<1>5. Continue(p, held) /\ UNCHANGED <<mountains, revisions, objects, gallery, editLog, blobs>>
  BY DEF Snapshot
<1> HIDE DEF h
<1>6. held \in HandlerStates
  BY <1>2, <1>3 DEF HandlerStates
<1>7. Becomes(held)
  BY <1>1, <1>3, <1>4 DEF Becomes, Knows
<1> HIDE DEF held
<1> QED
  BY <1>5, <1>6, <1>7, Turn, StepReads

(* The revision and the write of a mountain's row.                         *)
LEMMA ReviseMoves ==
    ASSUME IndInv, NEW p \in Handlers, At(p, "write"), NEW row \in Mountain,
           Revise(handlers[p], row),
           \A x \in Mountains : x # handlers[p].mountain => ~ Logged(x),
           \/ row.photo = mountains[handlers[p].mountain].photo /\ ~ Logged(handlers[p].mountain)
           \/ /\ handlers[p].op = "rollback" /\ ~ Logged(handlers[p].mountain)
              /\ Known(editLog, handlers[p].mountain, row.photo)
           \/ /\ Logged(handlers[p].mountain)
              /\ editLog'[Newest].mountain = handlers[p].mountain
              /\ editLog'[Newest].key = row.photo
    PROVE  /\ MountainsMove
           /\ \A m \in Mountains : Exists(mountains[m]) => mountains'[m] # Deleted
<1> TypeOK
  BY DEF IndInv
<1> DEFINE h == handlers[p]
           m == h.mountain
           rev == [snapshot |-> h.snap, rollback |-> h.op = "rollback"]
<1>1. m \in Mountains /\ h.snap \in Mountain /\ h.pc = "write"
  BY PcTypes DEF At
<1>2. Known(editLog, m, h.snap.photo)
  BY <1>1 DEF IndInv, HandlersKnow, Knows
<1>3. /\ mountains[m] \in Mountain /\ mountains' = [mountains EXCEPT ![m] = row]
      /\ revisions' = [revisions EXCEPT ![m] = Append(@, rev)]
      /\ Len(revisions[m]) < MaxRevisions
  BY <1>1, CoverIsKnown DEF Revise
<1>4. rev \in Revision /\ rev.snapshot = h.snap /\ (rev.rollback <=> h.op = "rollback")
  BY <1>1 DEF Revision
<1> HIDE DEF rev
<1>5. /\ revisions[m] \in Seq(Revision) /\ MaxRevisions \in Nat
      /\ Append(revisions[m], rev) \in Seq(Revision)
      /\ Len(Append(revisions[m], rev)) <= MaxRevisions
  <2>1. revisions[m] \in Seq(Revision) /\ MaxRevisions \in Nat
    BY <1>1, CatalogueConstants DEF TypeOK
  <2>2. Append(revisions[m], rev) \in Seq(Revision)
        /\ Len(Append(revisions[m], rev)) = Len(revisions[m]) + 1 /\ Len(revisions[m]) \in Nat
    BY <1>4, <2>1, Appended
  <2> QED
    BY <1>3, <2>1, <2>2
<1>6. /\ mountains' \in [Mountains -> Mountain \cup {Absent, Deleted}]
      /\ revisions' \in [Mountains -> Seq(Revision)]
      /\ mountains'[m] = row /\ revisions'[m] = Append(revisions[m], rev)
      /\ \A x \in Mountains : x # m => mountains'[x] = mountains[x] /\ revisions'[x] = revisions[x]
  BY <1>1, <1>3, <1>5 DEF TypeOK
<1>7. MountainMove(m)
  BY <1>2, <1>3, <1>4, <1>6 DEF MountainMove
<1>8. \A x \in Mountains : MountainMove(x) /\ Len(revisions'[x]) <= MaxRevisions
  BY <1>5, <1>6, <1>7 DEF MountainMove, TypeOK
<1>9. \A x \in Mountains : Exists(mountains[x]) => mountains'[x] # Deleted
  BY <1>6, RowTypes DEF Exists
<1> QED
  BY <1>6, <1>8, <1>9 DEF MountainsMove

(* The writes of an edit, a rollback and a cover change.                   *)
LEMMA WriteForms ==
    ASSUME IndInv, NEW p \in Handlers
    PROVE  EditWrite(p) \/ RollbackWrite(p) \/ PhotoWrite(p) => Forms
<1> TypeOK
  BY DEF IndInv
<1> DEFINE h == handlers[p]
           m == h.mountain
<1>1. ASSUME At(p, "write")
      PROVE  /\ m \in Mountains /\ h.to \in Mountain /\ h.prior \in Keys \cup {NoKey}
             /\ Knows(h, mountains, objects, editLog) /\ h.pc = "write"
             /\ h.began \in 0..MaxLog
  BY <1>1, PcTypes DEF At, IndInv, HandlersKnow
<1>2. ASSUME EditWrite(p)
      PROVE  Forms
  <2> DEFINE row == [mountains[m] EXCEPT !.body = h.to.body]
  <2>1. At(p, "write") /\ Revise(h, row) /\ Exists(mountains[m])
    BY <1>2 DEF EditWrite, Revise
  <2>2. mountains[m] \in Mountain /\ h.to.body \in [Fields -> Values]
    BY <1>1, <2>1, CoverIsKnown DEF Mountain
  <2>3. row \in Mountain /\ row.photo = mountains[m].photo
    <3> DEFINE b == h.to.body
               old == mountains[m]
    <3>1. b \in [Fields -> Values] /\ old \in Mountain /\ row = [old EXCEPT !.body = b]
      BY <2>2
    <3> HIDE DEF b, old
    <3>2. /\ [old EXCEPT !.body = b] \in Mountain
          /\ [old EXCEPT !.body = b] = [body |-> b, photo |-> old.photo]
      BY <3>1, EditedRow
    <3> QED
      BY <3>1, <3>2 DEF old
  <2>4. LogMove /\ \A x : ~ Logged(x)
    BY <1>2, StepLogsNothing DEF EditWrite
  <2> HIDE DEF row
  <2>5. MountainsMove /\ \A x \in Mountains : Exists(mountains[x]) => mountains'[x] # Deleted
    BY <2>1, <2>3, <2>4, ReviseMoves
  <2>6. UNCHANGED <<objects, gallery, blobs>> /\ Continue(p, Idle)
    BY <1>2 DEF EditWrite
  <2>7. ObjectsMove /\ GalleryMoves /\ BlobsMove /\ HandlersMove
    BY <2>4, <2>5, <2>6, LeftAlone, TurnEnds
  <2> QED
    BY <2>4, <2>5, <2>7 DEF Forms
<1>3. ASSUME RollbackWrite(p)
      PROVE  Forms
  <2>1. At(p, "write") /\ h.op = "rollback" /\ Revise(h, h.to)
    BY <1>3 DEF RollbackWrite
  <2>2. h.to \in Mountain /\ Known(editLog, m, h.to.photo)
    BY <1>1, <2>1 DEF Knows
  <2>3. LogMove /\ \A x : ~ Logged(x)
    BY <1>3, StepLogsNothing DEF RollbackWrite
  <2>4. MountainsMove /\ \A x \in Mountains : Exists(mountains[x]) => mountains'[x] # Deleted
    BY <2>1, <2>2, <2>3, ReviseMoves
  <2>5. UNCHANGED <<objects, gallery, blobs>> /\ Continue(p, Idle)
    BY <1>3 DEF RollbackWrite
  <2>6. ObjectsMove /\ GalleryMoves /\ BlobsMove /\ HandlersMove
    BY <2>3, <2>4, <2>5, LeftAlone, TurnEnds
  <2> QED
    BY <2>3, <2>4, <2>6 DEF Forms
<1>4. ASSUME PhotoWrite(p)
      PROVE  Forms
  <2> DEFINE key == h.to.photo
             action == IF key = NoKey THEN "photo_remove" ELSE "photo_set"
             row == [mountains[m] EXCEPT !.photo = key]
             e == Entry(m, m, action, key, h.prior, h.began)
             held == [pc |-> "blob", key |-> h.prior]
  <2>1. /\ At(p, "write") /\ h.op = "photo" /\ Revise(h, row) /\ Exists(mountains[m])
        /\ Log(e) /\ Continue(p, held) /\ UNCHANGED <<objects, gallery, blobs>>
    BY <1>4 DEF PhotoWrite, Revise, KeyReturned
  <2>2. mountains[m] \in Mountain /\ key \in Keys \cup {NoKey}
    BY <1>1, <2>1, CoverIsKnown, RowTypes
  <2>3. row \in Mountain /\ row.photo = key
    <3> DEFINE k == key
               old == mountains[m]
    <3>1. k \in Keys \cup {NoKey} /\ old \in Mountain /\ row = [old EXCEPT !.photo = k]
          /\ old.body \in [Fields -> Values]
      BY <2>2 DEF Mountain
    <3> HIDE DEF k, old
    <3>2. /\ [old EXCEPT !.photo = k] \in Mountain
          /\ [old EXCEPT !.photo = k] = [body |-> old.body, photo |-> k]
      BY <3>1, EditedRow
    <3> QED
      BY <3>1, <3>2 DEF k
  <2>4. /\ e \in EditLogEntry /\ e.entity = m /\ e.mountain = m
        /\ e.key = key /\ e.prior = h.prior /\ e.began <= Len(editLog)
    <3>1. action \in {"create", "update", "delete", "photo_set", "photo_remove"}
      OBVIOUS
    <3> HIDE DEF action, key
    <3>2. e \in EditLogEntry
      BY <1>1, <2>1, <2>2, <3>1, EntryTypes
    <3>3. h.began <= Len(editLog)
      BY <1>1, <2>1 DEF Knows
    <3> QED
      BY <3>2, <3>3 DEF Entry
  <2> HIDE DEF e, row
  <2>5. /\ LogMove /\ Newest \in DOMAIN editLog' /\ editLog'[Newest] = e
        /\ \A x : Logged(x) <=> e.entity = x
    BY <2>1, <2>2, <2>4, StepLogs
  <2>6. MountainsMove /\ \A x \in Mountains : Exists(mountains[x]) => mountains'[x] # Deleted
    BY <2>1, <2>3, <2>4, <2>5, ReviseMoves
  <2>7. \A o \in Objects : ~ Logged(o)
    BY <1>1, <2>1, <2>4, <2>5, CatalogueConstants
  <2>8. ObjectsMove /\ GalleryMoves /\ BlobsMove
    BY <2>1, <2>6, <2>7, LeftAlone
  <2>9. HandlersMove
    <3>1. held \in HandlerStates /\ Becomes(held)
      BY <1>1, <2>1, <2>4, <2>5 DEF HandlerStates, Becomes
    <3> HIDE DEF held
    <3> QED
      BY <2>1, <3>1, Turn
  <2> QED
    BY <2>5, <2>6, <2>8, <2>9 DEF Forms
<1> QED
  BY <1>2, <1>3, <1>4

(* The image store and the creation of mountains.                          *)
LEMMA StoreForms ==
    ASSUME IndInv
    PROVE  /\ \A k \in Keys : Upload(k) => Forms
           /\ \A p \in Handlers : DeleteBlob(p) => Forms
           /\ \A m \in Mountains, body \in [Fields -> Values] : AdminCreate(m, body) => Forms
<1> TypeOK
  BY DEF IndInv
<1> DEFINE Rest == \A m \in Mountains : Exists(mountains[m]) => mountains'[m] # Deleted
<1>1. UNCHANGED <<mountains, revisions, objects, gallery, editLog>> =>
         LogMove /\ MountainsMove /\ ObjectsMove /\ GalleryMoves
  <2> SUFFICES ASSUME UNCHANGED <<mountains, revisions, objects, gallery, editLog>>
               PROVE  LogMove /\ MountainsMove /\ ObjectsMove /\ GalleryMoves
    OBVIOUS
  <2>1. LogMove /\ \A x : ~ Logged(x)
    BY StepLogsNothing
  <2>2. Rest
    BY DEF Exists
  <2> QED
    BY <2>1, <2>2, LeftAlone
<1>2. ASSUME NEW k \in Keys, Upload(k)
      PROVE  Forms
  <2>1. BlobsMove
    BY <1>2 DEF Upload, BlobsMove, BlobMove, TypeOK
  <2>2. HandlersMove
    BY <1>2, LeftAlone DEF Upload
  <2> QED
    BY <1>1, <1>2, <2>1, <2>2 DEF Upload, Forms
<1>3. ASSUME NEW p \in Handlers, DeleteBlob(p)
      PROVE  Forms
  <2>1. BlobsMove
    BY <1>3 DEF DeleteBlob, BlobsMove, BlobMove, TypeOK
  <2>2. HandlersMove
    BY <1>3, TurnEnds DEF DeleteBlob
  <2> QED
    BY <1>1, <1>3, <2>1, <2>2 DEF DeleteBlob, Forms
<1>4. ASSUME NEW m \in Mountains, NEW body \in [Fields -> Values], AdminCreate(m, body)
      PROVE  Forms
  <2> DEFINE row == [body |-> body, photo |-> NoKey]
  <2>1. row \in Mountain /\ row.photo = NoKey
    BY DEF Mountain
  <2>2. mountains[m] = Absent /\ mountains' = [mountains EXCEPT ![m] = row]
        /\ UNCHANGED <<revisions, objects, gallery, editLog, blobs, handlers>>
    BY <1>4 DEF AdminCreate
  <2>3. LogMove /\ \A x : ~ Logged(x)
    BY <2>2, StepLogsNothing
  <2> HIDE DEF row
  <2>4. MountainsMove
    BY <2>1, <2>2, <2>3 DEF MountainsMove, MountainMove, TypeOK
  <2>5. Rest
    BY <2>1, <2>2, RowTypes DEF TypeOK, Exists
  <2>6. ObjectsMove /\ GalleryMoves /\ BlobsMove /\ HandlersMove
    BY <2>2, <2>3, <2>5, LeftAlone
  <2> QED
    BY <2>3, <2>4, <2>6 DEF Forms
<1> QED
  BY <1>2, <1>3, <1>4

(* The deletion of a mountain, with its cascades.                          *)
LEMMA DeleteForms ==
    ASSUME IndInv, NEW p \in Handlers, DeleteRow(p)
    PROVE  Forms
<1> TypeOK
  BY DEF IndInv
<1> DEFINE h == handlers[p]
           m == h.mountain
           held == [pc |-> "blob", key |-> h.key]
<1>1. /\ h.pc = "delete" /\ m \in Mountains /\ h.key \in Keys \cup {NoKey}
      /\ Known(editLog, m, h.key)
  BY PcTypes DEF DeleteRow, At, IndInv, HandlersKnow, Knows
<1>2. /\ Exists(mountains[m])
      /\ mountains' = [mountains EXCEPT ![m] = Deleted]
      /\ revisions' = [revisions EXCEPT ![m] = <<>>]
      /\ objects' = Cascaded(objects, m) /\ gallery' = Cascaded(gallery, m)
      /\ UNCHANGED <<editLog, blobs>> /\ Continue(p, held)
  BY DEF DeleteRow
<1>3. LogMove /\ \A x : ~ Logged(x)
  BY <1>2, StepLogsNothing
<1>4. MountainsMove
  <2>1. <<>> \in Seq(Revision) /\ Len(<<>>) = 0 /\ MaxRevisions \in Nat
    BY CatalogueConstants
  <2>2. \A x \in Mountains : x # m => mountains'[x] = mountains[x] /\ revisions'[x] = revisions[x]
    BY <1>1, <1>2 DEF TypeOK
  <2>3. mountains'[m] = Deleted /\ revisions'[m] = <<>> /\ mountains[m] # Absent
    BY <1>1, <1>2 DEF TypeOK, Exists
  <2>4. \A x \in Mountains : MountainMove(x)
    BY <1>3, <2>2, <2>3 DEF MountainMove
  <2>5. \A x \in Mountains : Len(revisions'[x]) <= MaxRevisions
    BY <2>1, <2>2, <2>3 DEF TypeOK
  <2>6. /\ mountains' \in [Mountains -> Mountain \cup {Absent, Deleted}]
        /\ revisions' \in [Mountains -> Seq(Revision)]
    BY <1>2, <2>1 DEF TypeOK
  <2> QED
    BY <2>4, <2>5, <2>6 DEF MountainsMove
<1>5. ObjectsMove
  <2>1. \A o \in Objects :
           objects'[o] = IF Exists(objects[o]) /\ objects[o].mountain = m
                         THEN Deleted ELSE objects[o]
    BY <1>2 DEF Cascaded, TypeOK
  <2>2. objects' \in [Objects -> SubObject \cup {Absent, Deleted}]
    BY <1>2, <2>1 DEF Cascaded, TypeOK
  <2>3. \A o \in Objects : Exists(objects[o]) =>
           objects[o].mountain \in Mountains /\ Exists(mountains[objects[o].mountain])
    BY RowTypes DEF IndInv, ObjectsSound, TypeOK, Exists
  <2>4. ASSUME NEW o \in Objects
        PROVE  ObjectMove(o)
    <3>1. CASE Exists(objects[o]) /\ objects[o].mountain = m
      BY <1>1, <1>2, <1>3, <2>1, <3>1 DEF ObjectMove, TypeOK
    <3>2. CASE Exists(objects[o]) /\ objects[o].mountain # m
      BY <1>1, <1>2, <1>3, <2>1, <2>3, <3>2 DEF ObjectMove, TypeOK, Exists
    <3>3. CASE ~ Exists(objects[o])
      BY <1>3, <2>1, <3>3 DEF ObjectMove
    <3> QED
      BY <3>1, <3>2, <3>3
  <2> QED
    BY <2>2, <2>4 DEF ObjectsMove
<1>6. GalleryMoves
  <2>1. \A g \in Photos : gallery'[g] \in {gallery[g], Deleted}
    BY <1>2 DEF Cascaded, TypeOK
  <2>2. gallery' \in [Photos -> MountainPhoto \cup {Absent, Deleted}]
    BY <1>2, <2>1 DEF Cascaded, TypeOK
  <2> QED
    BY <2>1, <2>2 DEF GalleryMoves
<1>7. HandlersMove
  <2>1. mountains'[m] = Deleted
    BY <1>1, <1>2 DEF TypeOK
  <2>2. held \in HandlerStates /\ Becomes(held)
    BY <1>1, <2>1 DEF HandlerStates, Becomes
  <2> HIDE DEF held
  <2> QED
    BY <1>2, <2>2, Turn
<1>8. BlobsMove
  BY <1>2, LeftAlone
<1> QED
  BY <1>3, <1>4, <1>5, <1>6, <1>7, <1>8 DEF Forms

(* Routes and basecamps.                                                   *)
LEMMA ObjectForms ==
    ASSUME IndInv
    PROVE  /\ \A o \in Objects, m \in Mountains : CreateObject(o, m) => Forms
           /\ \A p \in Handlers : UpdateObject(p) => Forms
           /\ \A p \in Handlers : DeleteObject(p) => Forms
<1> TypeOK
  BY DEF IndInv
<1>1. ASSUME NEW o \in Objects, NEW m \in Mountains,
             NEW a \in {"create", "update", "delete"},
             NEW b \in 0..MaxLog, b <= Len(editLog), Log(Entry(m, o, a, NoKey, NoKey, b)),
             UNCHANGED <<mountains, revisions, gallery, blobs>>
      PROVE  /\ LogMove /\ MountainsMove /\ GalleryMoves /\ BlobsMove
             /\ editLog'[Newest].action = a /\ editLog'[Newest].mountain = m
             /\ editLog'[Newest].began = b
             /\ \A x : Logged(x) <=> x = o
  <2> DEFINE e == Entry(m, o, a, NoKey, NoKey, b)
  <2>1. /\ e \in EditLogEntry /\ e.entity = o /\ e.action = a /\ e.mountain = m
        /\ e.began = b
    BY EntryTypes DEF Entry
  <2>2. Log(e) /\ e.began <= Len(editLog)
    BY <1>1, <2>1
  <2> HIDE DEF e
  <2>3. /\ LogMove /\ editLog'[Newest] = e
        /\ \A x : Logged(x) <=> e.entity = x
    BY <2>1, <2>2, StepLogs
  <2>4. \A x \in Mountains : ~ Logged(x)
    BY <2>1, <2>3, CatalogueConstants
  <2> QED
    BY <1>1, <2>1, <2>3, <2>4, LeftAlone
<1>2. ASSUME NEW o \in Objects, NEW m \in Mountains, CreateObject(o, m)
      PROVE  Forms
  <2> DEFINE row == [mountain |-> m]
  <2>1. row \in SubObject /\ row.mountain = m
    BY DEF SubObject
  <2>2. /\ objects[o] = Absent /\ objects' = [objects EXCEPT ![o] = row] /\ Exists(mountains[m])
        /\ Log(Entry(m, o, "create", NoKey, NoKey, Now))
        /\ UNCHANGED <<mountains, revisions, gallery, blobs, handlers>>
    BY <1>2 DEF CreateObject
  <2> HIDE DEF row
  <2>3. /\ LogMove /\ MountainsMove /\ GalleryMoves /\ BlobsMove
        /\ editLog'[Newest].action = "create" /\ editLog'[Newest].mountain = m
        /\ \A x : Logged(x) <=> x = o
    BY <1>1, <2>2, NowIsBounded
  <2>4. ObjectsMove
    <3>1. \A x \in Objects : Exists(objects[x]) => Exists(mountains[objects[x].mountain])
      BY DEF IndInv, ObjectsSound
    <3>2. objects' \in [Objects -> SubObject \cup {Absent, Deleted}] /\ objects'[o] = row
          /\ \A x \in Objects : x # o => objects'[x] = objects[x]
      BY <2>1, <2>2 DEF TypeOK
    <3>3. ObjectMove(o)
      BY <2>1, <2>2, <2>3, <3>2 DEF ObjectMove
    <3>4. \A x \in Objects : x # o => ObjectMove(x)
      BY <2>2, <2>3, <3>1, <3>2 DEF ObjectMove, Exists
    <3> QED
      BY <3>2, <3>3, <3>4 DEF ObjectsMove
  <2> QED
    BY <2>2, <2>3, <2>4, LeftAlone DEF Forms
<1>3. ASSUME NEW p \in Handlers, At(p, "object"), Exists(objects[handlers[p].object]),
             NEW a \in {"update", "delete"},
             Log(Entry(handlers[p].mountain, handlers[p].object, a, NoKey, NoKey,
                       handlers[p].began)),
             UNCHANGED <<mountains, revisions, gallery, blobs>>, Continue(p, Idle),
             objects' = IF a = "update" THEN objects
                        ELSE [objects EXCEPT ![handlers[p].object] = Deleted]
      PROVE  Forms
  <2> DEFINE o == handlers[p].object
             m == handlers[p].mountain
             b == handlers[p].began
  <2>1. /\ o \in Objects /\ m \in Mountains /\ handlers[p].pc = "object" /\ b \in 0..MaxLog
        /\ b <= Len(editLog) /\ CreatedBy(editLog, o, b)
    BY <1>3, PcTypes DEF At, IndInv, HandlersKnow, Knows
  <2>2. objects[o].mountain = m /\ objects[o] \in SubObject
    BY <1>3, <2>1 DEF IndInv, HandlersKnow, Knows, TypeOK, Exists
  <2>3. /\ LogMove /\ MountainsMove /\ GalleryMoves /\ BlobsMove
        /\ editLog'[Newest].action = a /\ editLog'[Newest].mountain = m
        /\ editLog'[Newest].began = b
        /\ \A x : Logged(x) <=> x = o
    BY <1>1, <1>3, <2>1
  <2>4. ObjectsMove
    <3>1. \A x \in Objects : Exists(objects[x]) => Exists(mountains[objects[x].mountain])
      BY DEF IndInv, ObjectsSound
    <3>2. /\ objects' \in [Objects -> SubObject \cup {Absent, Deleted}]
          /\ objects'[o] = IF a = "update" THEN objects[o] ELSE Deleted
          /\ \A x \in Objects : x # o => objects'[x] = objects[x]
      BY <1>3, <2>1 DEF TypeOK
    <3>3. ObjectMove(o)
      BY <1>3, <2>1, <2>2, <2>3, <3>2 DEF ObjectMove, LogsAfterCreation
    <3>4. \A x \in Objects : x # o => ObjectMove(x)
      BY <1>3, <2>3, <3>1, <3>2 DEF ObjectMove, Exists
    <3> QED
      BY <3>2, <3>3, <3>4 DEF ObjectsMove
  <2>5. HandlersMove
    BY <1>3, TurnEnds
  <2> QED
    BY <2>3, <2>4, <2>5 DEF Forms
<1>4. ASSUME NEW p \in Handlers, UpdateObject(p)
      PROVE  Forms
  BY <1>3, <1>4 DEF UpdateObject
<1>5. ASSUME NEW p \in Handlers, DeleteObject(p)
      PROVE  Forms
  BY <1>3, <1>5 DEF DeleteObject
<1> QED
  BY <1>2, <1>4, <1>5

(* The gallery.                                                            *)
LEMMA GalleryForms ==
    ASSUME IndInv, NEW p \in Handlers
    PROVE  /\ \A g \in Photos : AddPhoto(p, g) => Forms
           /\ DeletePhoto(p) => Forms
           /\ LogPhoto(p) => Forms
<1> TypeOK
  BY DEF IndInv
<1> DEFINE Rest == \A m \in Mountains : Exists(mountains[m]) => mountains'[m] # Deleted
<1>1. UNCHANGED <<mountains, revisions, objects, editLog, blobs>> =>
         LogMove /\ MountainsMove /\ ObjectsMove /\ BlobsMove
  <2> SUFFICES ASSUME UNCHANGED <<mountains, revisions, objects, editLog, blobs>>
               PROVE  LogMove /\ MountainsMove /\ ObjectsMove /\ BlobsMove
    OBVIOUS
  <2>1. LogMove /\ \A x : ~ Logged(x)
    BY StepLogsNothing
  <2>2. Rest
    BY DEF Exists
  <2> QED
    BY <2>1, <2>2, LeftAlone
<1>2. ASSUME NEW m \in Mountains, NEW g \in Photos, NEW a \in {"photo_set", "photo_remove"},
             NEW k \in Keys \cup {NoKey},
             Continue(p, [pc |-> "logPhoto", photo |-> g, mountain |-> m, action |-> a, key |-> k])
      PROVE  HandlersMove
  <2> DEFINE held == [pc |-> "logPhoto", photo |-> g, mountain |-> m, action |-> a, key |-> k]
  <2>1. Continue(p, held)
    BY <1>2
  <2>2. held \in HandlerStates /\ Becomes(held)
    BY <1>2 DEF HandlerStates, Becomes, Knows
  <2> HIDE DEF held
  <2> QED
    BY <2>1, <2>2, Turn
<1>3. ASSUME NEW g \in Photos, AddPhoto(p, g)
      PROVE  Forms
  <2> DEFINE h == handlers[p]
             row == [mountain |-> h.mountain, key |-> h.key]
  <2>1. h.pc = "addPhoto" /\ h.mountain \in Mountains /\ h.key \in Keys
    BY <1>3, PcTypes DEF AddPhoto, At
  <2>2. row \in MountainPhoto
    BY <2>1 DEF MountainPhoto
  <2>3. /\ gallery' = [gallery EXCEPT ![g] = row]
        /\ UNCHANGED <<mountains, revisions, objects, editLog, blobs>>
        /\ Continue(p, [pc |-> "logPhoto", photo |-> g, mountain |-> h.mountain,
                        action |-> "photo_set", key |-> h.key])
    BY <1>3 DEF AddPhoto
  <2>4. HandlersMove
    BY <1>2, <2>1, <2>3
  <2> HIDE DEF row
  <2>5. GalleryMoves
    BY <2>2, <2>3 DEF GalleryMoves, TypeOK
  <2> QED
    BY <1>1, <2>3, <2>4, <2>5 DEF Forms
<1>4. ASSUME DeletePhoto(p)
      PROVE  Forms
  <2> DEFINE h == handlers[p]
  <2>1. /\ h.pc = "deletePhoto" /\ h.mountain \in Mountains /\ h.photo \in Photos
        /\ h.key \in Keys \cup {NoKey}
    BY <1>4, PcTypes DEF DeletePhoto, At
  <2>2. /\ gallery' = [gallery EXCEPT ![h.photo] = Deleted]
        /\ UNCHANGED <<mountains, revisions, objects, editLog, blobs>>
        /\ Continue(p, [pc |-> "logPhoto", photo |-> h.photo, mountain |-> h.mountain,
                        action |-> "photo_remove", key |-> h.key])
    BY <1>4 DEF DeletePhoto
  <2>3. HandlersMove
    BY <1>2, <2>1, <2>2
  <2>4. GalleryMoves
    BY <2>2 DEF GalleryMoves, TypeOK
  <2> QED
    BY <1>1, <2>2, <2>3, <2>4 DEF Forms
<1>5. ASSUME LogPhoto(p)
      PROVE  Forms
  <2> DEFINE h == handlers[p]
             e == Entry(h.mountain, h.photo, h.action, h.key, NoKey, Now)
  <2>1. /\ Log(e) /\ Continue(p, Idle)
        /\ UNCHANGED <<mountains, revisions, objects, gallery, blobs>>
    BY <1>5 DEF LogPhoto
  <2>2. /\ h.photo \in Photos /\ h.mountain \in Mountains /\ h.key \in Keys \cup {NoKey}
        /\ h.action \in {"photo_set", "photo_remove"}
    BY <1>5, PcTypes DEF LogPhoto, At
  <2>3. e \in EditLogEntry /\ e.entity \in Photos /\ e.began <= Len(editLog)
    <3>1. e \in EditLogEntry
      BY <2>2, EntryTypes, NowIsBounded
    <3> QED
      BY <2>2, <3>1, NowIsBounded DEF Entry
  <2> HIDE DEF e
  <2>4. LogMove /\ \A x : Logged(x) <=> e.entity = x
    BY <2>1, <2>3, StepLogs
  <2>5. (\A m \in Mountains : ~ Logged(m)) /\ (\A o \in Objects : ~ Logged(o))
    BY <2>3, <2>4, CatalogueConstants
  <2>6. Rest
    BY <2>1 DEF Exists
  <2>7. MountainsMove /\ ObjectsMove /\ GalleryMoves /\ BlobsMove
    BY <2>1, <2>5, <2>6, LeftAlone
  <2>8. HandlersMove
    BY <2>1, TurnEnds
  <2> QED
    BY <2>4, <2>7, <2>8 DEF Forms
<1> QED
  BY <1>3, <1>4, <1>5

(* Every step moves rows, log and handlers in these forms.                 *)
LEMMA StepForms == IndInv /\ [Next]_vars => Forms
<1> SUFFICES ASSUME IndInv, [Next]_vars
             PROVE  Forms
  OBVIOUS
<1> TypeOK
  BY DEF IndInv
<1>1. ASSUME NEW p \in Handlers, StatementFails(p)
      PROVE  Forms
  BY <1>1, TurnEnds, StepReads DEF StatementFails
<1>2. ASSUME Restart
      PROVE  Forms
  <2>1. Idle \in HandlerStates /\ Becomes(Idle)
    BY DEF HandlerStates, Becomes, Knows, Idle
  <2>2. HandlersMove
    BY <1>2, <2>1 DEF Restart, HandlersMove
  <2> QED
    BY <1>2, <2>2, StepReads DEF Restart
<1>3. ASSUME UNCHANGED vars
      PROVE  Forms
  BY <1>3, LeftAlone, StepReads DEF vars
<1>4. ASSUME NEW p \in Handlers, Proceed(p)
      PROVE  Forms
  BY <1>4, PriorForms, SnapshotForms, WriteForms, StoreForms, DeleteForms, ObjectForms, GalleryForms
     DEF Proceed
<1> QED
  BY <1>1, <1>2, <1>3, <1>4, BeginForms, StoreForms, ObjectForms DEF Next

-----------------------------------------------------------------------------
(* The invariant holds.                                                    *)

(* The invariant is inductive.                                             *)
LEMMA Inductive == Spec => []IndInv
<1>1. Init => IndInv
  <2> SUFFICES ASSUME Init
               PROVE  IndInv
    OBVIOUS
  <2>1. editLog = <<>> /\ DOMAIN editLog = {} /\ \A x : Entries(x) = {}
    BY DEF Init, Entries
  <2>2. TypeOK
    BY CatalogueConstants DEF Init, TypeOK
  <2>3. HandlersKnow
    BY DEF Init, HandlersKnow, Knows, Idle
  <2>4. CoversKnown /\ CoverFollowsLog
    BY DEF Init, CoversKnown, CoverFollowsLog, Exists
  <2>5. LostImageIsLogged /\ LogSound
    BY <2>1 DEF Init, LostImageIsLogged, LogSound
  <2>6. ObjectsSound /\ TrailMatchesObjects
    BY <2>1 DEF Init, ObjectsSound, TrailMatchesObjects, Exists
  <2> QED
    BY <2>2, <2>3, <2>4, <2>5, <2>6 DEF IndInv
<1>2. IndInv /\ [Next]_vars => IndInv'
  BY StepForms, TypeStep, KnowStep, CoverStep, ImageStep, NewestStep, TrailStep DEF IndInv
<1> QED
  BY <1>1, <1>2, PTL DEF Spec

(* Rows, log, images and handlers keep their types.                        *)
THEOREM TypeCorrect == Spec => []TypeOK
BY Inductive, PTL DEF IndInv

(* A mountain that no rollback touched shows a cover of its log that no    *)
(* change begun since has followed, however many edits and cover changes   *)
(* overlap.                                                                *)
THEOREM CoverIsLogged == Spec => []CoverFollowsLog
BY Inductive, PTL DEF IndInv

(* The edit log tells the life of each route and basecamp, up to the order *)
(* in which it lists what overlapped the deletion.                         *)
THEOREM TrailIsComplete == Spec => []TrailMatchesObjects
BY Inductive, PTL DEF IndInv

(* An image leaves the store only if the log shows its key was discarded.  *)
THEOREM ImagesAreAccounted == Spec => []LostImageIsLogged
BY Inductive, PTL DEF IndInv

=============================================================================
