-------------------------- MODULE MountainCatalogue --------------------------
(***************************************************************************)
(* The administrators' side of the catalogue: mountains with their         *)
(* revisions (edit, rollback), cover photo, routes and basecamps, gallery, *)
(* the edit log that attributes changes, and the image store.              *)
(*                                                                         *)
(* Requests run concurrently.  A statement of a transaction sees what is   *)
(* committed when it runs (READ COMMITTED, no SELECT ... FOR UPDATE), so   *)
(* each read is a step.  From its first write to its commit a transaction  *)
(* holds the lock of the row it writes and shows nothing to the others:    *)
(* that part is one step.  A statement that finds no row, or fails, ends   *)
(* the request: no Proceed step, only StatementFails.                      *)
(*                                                                         *)
(* The edit log is listed by created_at, whose default now() is the time   *)
(* its transaction began, not the time it was committed.  The model keeps  *)
(* the log in the order of the commits, and with each entry how much of it *)
(* was committed when the entry's transaction began (`began').             *)
(***************************************************************************)
EXTENDS Naturals, Sequences, FiniteSets

CONSTANTS
    Mountains,      \* ids, each given to one mountain at most
    Objects,        \* ids of routes and basecamps
    Photos,         \* ids of gallery rows
    Keys,           \* object keys of the shape that validUploadKey accepts
    Fields,         \* the fields of a mountain that an edit may patch
    Values,         \* what such a field holds
    NoKey,          \* "": no photo
    MaxRevisions,   \* bounds the revisions of one mountain
    MaxLog,         \* bounds the edit log
    Handlers        \* slots for in-flight requests

(* Every id is a fresh UUID, so rows of different tables never share one.  *)
ASSUME CatalogueConstants ==
    /\ NoKey \notin Keys
    /\ Mountains \cap Objects = {} /\ Mountains \cap Photos = {} /\ Objects \cap Photos = {}
    /\ MaxRevisions \in Nat /\ MaxLog \in Nat

VARIABLES
    mountains,      \* rows of mountains
    revisions,      \* rows of mountain_revisions per mountain, oldest first
    objects,        \* rows of mountain_routes and mountain_basecamps
    gallery,        \* rows of mountain_photos
    editLog,        \* rows of admin_edit_log, in the order of their commits
    blobs,          \* what the image store holds under each key
    handlers        \* what each in-flight request holds and does next

vars == <<mountains, revisions, objects, gallery, editLog, blobs, handlers>>

-----------------------------------------------------------------------------

Absent == [state |-> "absent"]
Deleted == [state |-> "deleted"]

Mountain == [body: [Fields -> Values], photo: Keys \cup {NoKey}]

(* rollback: the reason is "pre-rollback snapshot".                        *)
Revision == [snapshot: Mountain, rollback: BOOLEAN]

SubObject == [mountain: Mountains]

MountainPhoto == [mountain: Mountains, key: Keys]

(* An entry is about the mountain itself (its cover), a route or basecamp, *)
(* or a gallery photo.                                                     *)
EditLogEntry ==
    [mountain: Mountains, entity: Mountains \cup Objects \cup Photos,
     action: {"create", "update", "delete", "photo_set", "photo_remove"},
     key: Keys \cup {NoKey}, prior: Keys \cup {NoKey}, began: 0..MaxLog]

Idle == [pc |-> "idle"]

(* A request that changes a mountain's row: `to' is the row to write, and  *)
(* `began' matters to a change of the cover alone.                         *)
RowRequest ==
    [pc: {"snapshot"}, op: {"edit", "rollback", "photo"}, mountain: Mountains,
     to: Mountain, prior: Keys \cup {NoKey}, began: 0..MaxLog]

TypeOK ==
    /\ mountains \in [Mountains -> Mountain \cup {Absent, Deleted}]
    /\ revisions \in [Mountains -> Seq(Revision)]
    /\ \A m \in Mountains : Len(revisions[m]) <= MaxRevisions
    /\ objects \in [Objects -> SubObject \cup {Absent, Deleted}]
    /\ gallery \in [Photos -> MountainPhoto \cup {Absent, Deleted}]
    /\ editLog \in Seq(EditLogEntry) /\ Len(editLog) <= MaxLog
    /\ blobs \in [Keys -> {"none", "stored", "gone"}]
    /\ handlers \in [Handlers ->
          {Idle} \cup RowRequest
          \cup [pc: {"write"}, op: {"edit", "rollback", "photo"}, mountain: Mountains,
                to: Mountain, prior: Keys \cup {NoKey}, began: 0..MaxLog, snap: Mountain]
          \cup [pc: {"prior"}, mountain: Mountains, key: Keys \cup {NoKey}, began: 0..MaxLog]
          \cup [pc: {"delete"}, mountain: Mountains, key: Keys \cup {NoKey}]
          \cup [pc: {"blob"}, key: Keys \cup {NoKey}]
          \cup [pc: {"object"}, op: {"update", "delete"}, object: Objects, mountain: Mountains,
                began: 0..MaxLog]
          \cup [pc: {"addPhoto"}, mountain: Mountains, key: Keys]
          \cup [pc: {"deletePhoto"}, photo: Photos, mountain: Mountains, key: Keys \cup {NoKey}]
          \cup [pc: {"logPhoto"}, photo: Photos, mountain: Mountains,
                action: {"photo_set", "photo_remove"}, key: Keys \cup {NoKey}]]

Init ==
    /\ mountains = [m \in Mountains |-> Absent]
    /\ revisions = [m \in Mountains |-> <<>>]
    /\ objects = [o \in Objects |-> Absent]
    /\ gallery = [g \in Photos |-> Absent]
    /\ editLog = <<>>
    /\ blobs = [k \in Keys |-> "none"]
    /\ handlers = [p \in Handlers |-> Idle]

Exists(row) == row \notin {Absent, Deleted}

At(p, pc) == handlers[p].pc = pc

Continue(p, held) == handlers' = [handlers EXCEPT ![p] = held]

Log(entry) == Len(editLog) < MaxLog /\ editLog' = Append(editLog, entry)

Entry(m, entity, action, key, prior, began) ==
    [mountain |-> m, entity |-> entity, action |-> action, key |-> key, prior |-> prior,
     began |-> began]

(* What a transaction that begins now has before it in the log.            *)
Now == Len(editLog)

-----------------------------------------------------------------------------
(* POST /uploads stores the image under a key never issued before.         *)
Upload(k) ==
    /\ blobs[k] = "none"
    /\ blobs' = [blobs EXCEPT ![k] = "stored"]
    /\ UNCHANGED <<mountains, revisions, objects, gallery, editLog, handlers>>

AdminCreate(m, body) ==
    /\ mountains[m] = Absent
    /\ mountains' = [mountains EXCEPT ![m] = [body |-> body, photo |-> NoKey]]
    /\ UNCHANGED <<revisions, objects, gallery, editLog, blobs, handlers>>

(* What an edit carries: a value for some of the fields.                   *)
Patches == UNION {[given -> Values] : given \in SUBSET Fields}

(* Mutant of Patched: the fields that were not given are lost.             *)
PatchedOnlyGiven(body, patch) == patch

Patched(body, patch) ==
    [f \in Fields |-> IF f \in DOMAIN patch THEN patch[f] ELSE body[f]]

(* AdminUpdate loads the row and patches it before the transaction begins. *)
EditFind(p, m, patch) ==
    /\ handlers[p] = Idle /\ Exists(mountains[m])
    /\ Continue(p, [pc |-> "snapshot", op |-> "edit", mountain |-> m, prior |-> NoKey,
                    began |-> 0,
                    to |-> [mountains[m] EXCEPT !.body = Patched(@, patch)]])
    /\ UNCHANGED <<mountains, revisions, objects, gallery, editLog, blobs>>

(* Rollback reads the revision that it is to restore.                      *)
RollbackRead(p, m, i) ==
    /\ handlers[p] = Idle /\ i \in DOMAIN revisions[m]
    /\ Continue(p, [pc |-> "snapshot", op |-> "rollback", mountain |-> m, prior |-> NoKey,
                    began |-> 0, to |-> revisions[m][i].snapshot])
    /\ UNCHANGED <<mountains, revisions, objects, gallery, editLog, blobs>>

(* SetPhoto begins its transaction.  Of the key only the shape is checked, *)
(* the store is not asked: its image may never have been uploaded.         *)
PhotoBegin(p, m, key) ==
    /\ handlers[p] = Idle /\ Exists(mountains[m])
    /\ Continue(p, [pc |-> "prior", mountain |-> m, key |-> key, began |-> Now])
    /\ UNCHANGED <<mountains, revisions, objects, gallery, editLog, blobs>>

(* SetPhoto reads the prior key.                                           *)
PhotoPrior(p) ==
    /\ At(p, "prior")
    /\ \E h \in {handlers[p]} :
          /\ Exists(mountains[h.mountain])
          /\ Continue(p, [pc |-> "snapshot", op |-> "photo", mountain |-> h.mountain,
                          prior |-> mountains[h.mountain].photo, began |-> h.began,
                          to |-> [mountains[h.mountain] EXCEPT !.photo = h.key]])
    /\ UNCHANGED <<mountains, revisions, objects, gallery, editLog, blobs>>

(* snapshotMountain, the next statement of all three.                      *)
Snapshot(p) ==
    /\ At(p, "snapshot")
    /\ \E h \in {handlers[p]} :
          /\ Exists(mountains[h.mountain])
          /\ Continue(p, [pc |-> "write", op |-> h.op, mountain |-> h.mountain, to |-> h.to,
                          prior |-> h.prior, began |-> h.began,
                          snap |-> mountains[h.mountain]])
    /\ UNCHANGED <<mountains, revisions, objects, gallery, editLog, blobs>>

(* The revision row and the write to the mountain, which must still exist. *)
Revise(h, row) ==
    /\ Exists(mountains[h.mountain]) /\ Len(revisions[h.mountain]) < MaxRevisions
    /\ revisions' = [revisions EXCEPT ![h.mountain] =
          Append(@, [snapshot |-> h.snap, rollback |-> h.op = "rollback"])]
    /\ mountains' = [mountains EXCEPT ![h.mountain] = row]

(* Mutant of EditWrite: it writes the photo key as it was found, too.      *)
EditWriteRow(p) ==
    /\ At(p, "write")
    /\ \E h \in {handlers[p]} : h.op = "edit" /\ Revise(h, h.to)
    /\ Continue(p, Idle)
    /\ UNCHANGED <<objects, gallery, editLog, blobs>>

(* The UPDATE of an edit leaves photo_key alone.                           *)
EditWrite(p) ==
    /\ At(p, "write")
    /\ \E h \in {handlers[p]} :
          h.op = "edit" /\ Revise(h, [mountains[h.mountain] EXCEPT !.body = h.to.body])
    /\ Continue(p, Idle)
    /\ UNCHANGED <<objects, gallery, editLog, blobs>>

(* The UPDATE of a rollback writes every column.                           *)
RollbackWrite(p) ==
    /\ At(p, "write")
    /\ \E h \in {handlers[p]} : h.op = "rollback" /\ Revise(h, h.to)
    /\ Continue(p, Idle)
    /\ UNCHANGED <<objects, gallery, editLog, blobs>>

(* Mutant of KeyReturned: the key just set.                                *)
KeyReturnedNew(h) == h.to.photo

(* The key SetPhoto returns for the caller to delete.                      *)
KeyReturned(h) == h.prior

PhotoWrite(p) ==
    /\ At(p, "write")
    /\ \E h \in {handlers[p]} :
          /\ h.op = "photo"
          /\ Revise(h, [mountains[h.mountain] EXCEPT !.photo = h.to.photo])
          /\ Log(Entry(h.mountain, h.mountain,
                       IF h.to.photo = NoKey THEN "photo_remove" ELSE "photo_set",
                       h.to.photo, h.prior, h.began))
          /\ Continue(p, [pc |-> "blob", key |-> KeyReturned(h)])
    /\ UNCHANGED <<objects, gallery, blobs>>

(* After the commit the old image is deleted, on a best effort.            *)
DeleteBlob(p) ==
    /\ At(p, "blob")
    /\ blobs' = [k \in Keys |-> IF k = handlers[p].key /\ blobs[k] = "stored"
                                 THEN "gone" ELSE blobs[k]]
    /\ Continue(p, Idle)
    /\ UNCHANGED <<mountains, revisions, objects, gallery, editLog>>

-----------------------------------------------------------------------------
(* AdminDelete reads the cover's key; an error of that read leaves none.   *)
DeleteFind(p, m) ==
    /\ handlers[p] = Idle /\ Exists(mountains[m])
    /\ \E key \in {mountains[m].photo, NoKey} :
          Continue(p, [pc |-> "delete", mountain |-> m, key |-> key])
    /\ UNCHANGED <<mountains, revisions, objects, gallery, editLog, blobs>>

Cascaded(rows, m) ==
    [x \in DOMAIN rows |->
        IF Exists(rows[x]) /\ rows[x].mountain = m THEN Deleted ELSE rows[x]]

(* The delete cascades to every table but the edit log.                    *)
DeleteRow(p) ==
    /\ At(p, "delete")
    /\ \E m \in {handlers[p].mountain} :
          /\ Exists(mountains[m])
          /\ mountains' = [mountains EXCEPT ![m] = Deleted]
          /\ revisions' = [revisions EXCEPT ![m] = <<>>]
          /\ objects' = Cascaded(objects, m)
          /\ gallery' = Cascaded(gallery, m)
    /\ Continue(p, [pc |-> "blob", key |-> handlers[p].key])
    /\ UNCHANGED <<editLog, blobs>>

-----------------------------------------------------------------------------
(* Routes and basecamps: the row and its log entry in one transaction.     *)
(* A creation is one step: nothing else can be about the object before.    *)

CreateObject(o, m) ==
    /\ objects[o] = Absent /\ Exists(mountains[m])
    /\ objects' = [objects EXCEPT ![o] = [mountain |-> m]]
    /\ Log(Entry(m, o, "create", NoKey, NoKey, Now))
    /\ UNCHANGED <<mountains, revisions, gallery, blobs, handlers>>

(* Update and delete first read the mountain that the log is to name; it   *)
(* never changes, so the read is the same as the transaction begins.  A    *)
(* request names an id only after its creation.                            *)
ObjectFind(p, o, op) ==
    /\ handlers[p] = Idle /\ Exists(objects[o])
    /\ Continue(p, [pc |-> "object", op |-> op, object |-> o,
                    mountain |-> objects[o].mountain, began |-> Now])
    /\ UNCHANGED <<mountains, revisions, objects, gallery, editLog, blobs>>

UpdateObject(p) ==
    /\ At(p, "object")
    /\ \E h \in {handlers[p]} :
          /\ h.op = "update" /\ Exists(objects[h.object])
          /\ Log(Entry(h.mountain, h.object, "update", NoKey, NoKey, h.began))
    /\ Continue(p, Idle)
    /\ UNCHANGED <<mountains, revisions, objects, gallery, blobs>>

(* Mutant of DeleteObject: the rows affected are not looked at.            *)
DeleteObjectBlind(p) ==
    /\ At(p, "object")
    /\ \E h \in {handlers[p]} :
          /\ h.op = "delete"
          /\ objects' = [objects EXCEPT ![h.object] = Deleted]
          /\ Log(Entry(h.mountain, h.object, "delete", NoKey, NoKey, h.began))
    /\ Continue(p, Idle)
    /\ UNCHANGED <<mountains, revisions, gallery, blobs>>

DeleteObject(p) ==
    /\ At(p, "object")
    /\ \E h \in {handlers[p]} :
          /\ h.op = "delete" /\ Exists(objects[h.object])
          /\ objects' = [objects EXCEPT ![h.object] = Deleted]
          /\ Log(Entry(h.mountain, h.object, "delete", NoKey, NoKey, h.began))
    /\ Continue(p, Idle)
    /\ UNCHANGED <<mountains, revisions, gallery, blobs>>

-----------------------------------------------------------------------------
(* The gallery: row first, log entry on a best effort, image never deleted.*)
(* The key's image need not exist here either, as in the seeded demo rows. *)

AddPhotoFind(p, m, key) ==
    /\ handlers[p] = Idle /\ Exists(mountains[m])
    /\ Continue(p, [pc |-> "addPhoto", mountain |-> m, key |-> key])
    /\ UNCHANGED <<mountains, revisions, objects, gallery, editLog, blobs>>

AddPhoto(p, g) ==
    /\ At(p, "addPhoto") /\ gallery[g] = Absent
    /\ \E h \in {handlers[p]} :
          /\ Exists(mountains[h.mountain])
          /\ gallery' = [gallery EXCEPT ![g] = [mountain |-> h.mountain, key |-> h.key]]
          /\ Continue(p, [pc |-> "logPhoto", photo |-> g, mountain |-> h.mountain,
                          action |-> "photo_set", key |-> h.key])
    /\ UNCHANGED <<mountains, revisions, objects, editLog, blobs>>

(* The list only serves to find the key to log; it may fail.               *)
DeletePhotoFind(p, g) ==
    /\ handlers[p] = Idle /\ Exists(gallery[g])
    /\ \E key \in {gallery[g].key, NoKey} :
          Continue(p, [pc |-> "deletePhoto", photo |-> g,
                       mountain |-> gallery[g].mountain, key |-> key])
    /\ UNCHANGED <<mountains, revisions, objects, gallery, editLog, blobs>>

DeletePhoto(p) ==
    /\ At(p, "deletePhoto")
    /\ \E h \in {handlers[p]} :
          /\ Exists(gallery[h.photo])
          /\ gallery' = [gallery EXCEPT ![h.photo] = Deleted]
          /\ Continue(p, [pc |-> "logPhoto", photo |-> h.photo, mountain |-> h.mountain,
                          action |-> "photo_remove", key |-> h.key])
    /\ UNCHANGED <<mountains, revisions, objects, editLog, blobs>>

(* A statement of its own, outside any transaction.                        *)
LogPhoto(p) ==
    /\ At(p, "logPhoto")
    /\ \E h \in {handlers[p]} :
          Log(Entry(h.mountain, h.photo, h.action, h.key, NoKey, Now))
    /\ Continue(p, Idle)
    /\ UNCHANGED <<mountains, revisions, objects, gallery, blobs>>

-----------------------------------------------------------------------------
(* The statement finds no row, or fails: its transaction is rolled back.   *)
StatementFails(p) ==
    /\ handlers[p] # Idle
    /\ Continue(p, Idle)
    /\ UNCHANGED <<mountains, revisions, objects, gallery, editLog, blobs>>

Restart ==
    /\ handlers' = [p \in Handlers |-> Idle]
    /\ UNCHANGED <<mountains, revisions, objects, gallery, editLog, blobs>>

Begin(p) ==
    \/ \E m \in Mountains :
          \/ \E patch \in Patches : EditFind(p, m, patch)
          \/ \E i \in 1..MaxRevisions : RollbackRead(p, m, i)
          \/ \E key \in Keys \cup {NoKey} : PhotoBegin(p, m, key)
          \/ DeleteFind(p, m)
          \/ \E key \in Keys : AddPhotoFind(p, m, key)
    \/ \E o \in Objects, op \in {"update", "delete"} : ObjectFind(p, o, op)
    \/ \E g \in Photos : DeletePhotoFind(p, g)

Proceed(p) ==
    \/ PhotoPrior(p) \/ Snapshot(p) \/ EditWrite(p) \/ RollbackWrite(p) \/ PhotoWrite(p)
    \/ DeleteBlob(p) \/ DeleteRow(p)
    \/ UpdateObject(p) \/ DeleteObject(p)
    \/ \E g \in Photos : AddPhoto(p, g)
    \/ DeletePhoto(p) \/ LogPhoto(p)

Next ==
    \/ \E k \in Keys : Upload(k)
    \/ \E m \in Mountains, body \in [Fields -> Values] : AdminCreate(m, body)
    \/ \E o \in Objects, m \in Mountains : CreateObject(o, m)
    \/ \E p \in Handlers : Begin(p) \/ Proceed(p) \/ StatementFails(p)
    \/ Restart

Spec == Init /\ [][Next]_vars

-----------------------------------------------------------------------------
(* Properties.                                                             *)

Entries(entity) == {i \in DOMAIN editLog : editLog[i].entity = entity}

(* Entry j's transaction began after entry i was committed, so its         *)
(* created_at is the later one and the list has it as the newer.  Of two   *)
(* transactions that overlapped the list may show either as the newer.     *)
Follows(j, i) == editLog[j].began >= i

(* Unless a rollback restored an older one, a mountain shows the cover of  *)
(* a photo_set or photo_remove entry that no change begun after it was     *)
(* committed has followed; of changes that did not overlap, that is the    *)
(* newest in the list.  An edit that loaded the mountain before the photo  *)
(* changed and is written after it does not bring the old photo back       *)
(* (Update's column list, SetPhoto's transaction).                         *)
CoverFollowsLog ==
    \A m \in Mountains :
        (Exists(mountains[m]) /\ \A i \in DOMAIN revisions[m] : ~revisions[m][i].rollback)
        => \/ Entries(m) = {} /\ mountains[m].photo = NoKey
           \/ \E i \in Entries(m) : /\ editLog[i].key = mountains[m].photo
                                   /\ \A j \in Entries(m) : ~Follows(j, i)

(* A key whose image may be deleted: a logged change of a cover replaced   *)
(* it, or it was set as the cover of a mountain that is deleted.           *)
Discarded(k) ==
    \E i \in DOMAIN editLog :
        \/ editLog[i].prior = k
        \/ /\ editLog[i].key = k /\ editLog[i].entity = editLog[i].mountain
           /\ mountains[editLog[i].mountain] = Deleted

(* Whatever requests overlap, are repeated or fail half-way, an image that *)
(* was uploaded leaves the store only if the edit log shows its key was    *)
(* discarded, by a change of a cover or by a mountain's deletion: a cover  *)
(* or gallery row lacks its image only then, or if none was ever uploaded  *)
(* under its key (AdminSetPhoto, AdminRemovePhoto, AdminDelete).           *)
LostImageIsLogged == \A k \in Keys : blobs[k] = "gone" => Discarded(k)

(* The edit log tells the life of each route and basecamp: its creation is *)
(* listed before all else; its deletion is logged once, and nothing begun  *)
(* after that is; and it is there exactly when its creation is logged and  *)
(* neither its deletion nor its mountain's happened, though two            *)
(* administrators may delete or update it at once (UpdateRoute,            *)
(* DeleteRoute, UpdateBasecamp, DeleteBasecamp; FR-013).                   *)
TrailMatchesObjects ==
    \A o \in Objects :
        /\ \A i, j \in Entries(o) : i # j =>
              /\ editLog[i].action = "create" => Follows(j, i)
              /\ editLog[i].action = "delete" =>
                    ~Follows(j, i) /\ editLog[j].action # "delete"
        /\ Exists(objects[o]) <=>
              /\ Entries(o) # {}
              /\ \A i \in Entries(o) :
                    editLog[i].action # "delete" /\ mountains[editLog[i].mountain] # Deleted

(* The writer's contract: Update, Rollback and SetPhoto append "a revision *)
(* snapshot of the row as it was BEFORE the edit", so a row they replace   *)
(* is always found among the revisions (domain/admin.go, MountainWriter).  *)
ReplacedRowIsRevised ==
    [][\A m \in Mountains :
          (Exists(mountains[m]) /\ Exists(mountains'[m]) /\ mountains'[m] # mountains[m])
          => \E i \in DOMAIN revisions'[m] : revisions'[m][i].snapshot = mountains[m]]_vars

=============================================================================
