--------------------------- MODULE PicturesProofs ---------------------------
(***************************************************************************)
(* Proofs about Pictures, for any number of requests in flight.            *)
(***************************************************************************)
EXTENDS Pictures, TLAPS

Galleries == [Fields -> SUBSET Images]

Documents == [state : {"none", "live", "removed", "gone"}, pics : Galleries,
              version : 0..VersionBound]

PictureVarsOK ==
  /\ kind \in Kinds
  /\ doc \in Documents
  /\ store \subseteq 1..sent /\ sent \in 0..ImageBound
  /\ disturbed \in BOOLEAN /\ abandoned \subseteq Images

UploadsOK ==
  /\ upload \in [Uploaders -> Requests]
  /\ \A r \in Uploaders : upload[r].pc = "idle" => upload[r] = NoUpload

LEMMA PictureTypeParts ==
  /\ PicturesTypeOK <=> PictureVarsOK /\ UploadsOK
  /\ PicturesTypeOK' <=> PictureVarsOK' /\ UploadsOK'
BY DEF PicturesTypeOK, PictureVarsOK, UploadsOK, Documents, Galleries

\* A step that gives a request another state.
Becomes(r, q) == q \in Requests /\ upload' = [upload EXCEPT ![r] = q]

LEMMA PictureBecomes ==
  ASSUME UploadsOK, NEW r \in Uploaders, NEW q, Becomes(r, q)
  PROVE  /\ upload' \in [Uploaders -> Requests]
         /\ upload'[r] = q
         /\ \A s \in Uploaders : s # r => upload'[s] = upload[s]
         /\ (q.pc = "idle" => q = NoUpload) => UploadsOK'
BY DEF UploadsOK, Becomes

LEMMA PictureRequest ==
  ASSUME NEW p \in Requests
  PROVE  /\ p.pc \in {"idle", "delete", "upload", "save", "insert", "purge", "erase", "flag", "clear"}
         /\ p.last \in {"save", "insert"} /\ p.todo \subseteq Fields
         /\ p.pics \in Galleries /\ p.fresh \in Galleries /\ p.version \in 0..VersionBound
         /\ p.deleted \subseteq Images /\ p.array \in BOOLEAN
BY DEF Requests, Galleries

LEMMA PictureNothing ==
  /\ NoPictures \in Galleries /\ \A f \in Fields : NoPictures[f] = {}
  /\ AllOf(NoPictures) = {}
  /\ NoUpload \in Requests /\ NoUpload.pc = "idle" /\ NoUpload.last = "save"
  /\ NoUpload.todo = {} /\ NoUpload.pics = NoPictures /\ NoUpload.fresh = NoPictures
  /\ NoUpload.deleted = {} /\ NoUpload.array = FALSE /\ NoUpload.version = 0
<1>1. NoPictures \in Galleries /\ \A f \in Fields : NoPictures[f] = {}
  BY DEF NoPictures, Galleries
<1>2. AllOf(NoPictures) = {}
  BY <1>1 DEF AllOf, Fields
<1>3. NoUpload \in Requests
  BY <1>1, PicturesAssumption DEF NoUpload, Requests, Galleries
<1>4. /\ NoUpload.pc = "idle" /\ NoUpload.last = "save"
      /\ NoUpload.todo = {} /\ NoUpload.pics = NoPictures /\ NoUpload.fresh = NoPictures
      /\ NoUpload.deleted = {} /\ NoUpload.array = FALSE /\ NoUpload.version = 0
  BY DEF NoUpload
<1>5. QED BY <1>1, <1>2, <1>3, <1>4

LEMMA PictureGallery ==
  ASSUME NEW g \in Galleries
  PROVE  /\ \A f \in Fields : g[f] \subseteq Images
         /\ AllOf(g) \subseteq Images
         /\ \A x : x \in AllOf(g) <=> \E f \in Fields : x \in g[f]
BY DEF Galleries, AllOf, Fields

LEMMA PictureNextField ==
  ASSUME NEW todo \in SUBSET Fields, todo # {}
  PROVE  NextField(todo) \in todo
BY DEF NextField, Fields

LEMMA PictureStep ==
  ASSUME NEW todo, NEW last \in {"save", "insert"}
  PROVE  /\ StepFor(todo, last) \in {"save", "insert", "delete", "upload"}
         /\ todo = {} => StepFor(todo, last) = last
         /\ todo # {} => StepFor(todo, last) \in {"delete", "upload"}
         /\ StepFor(todo, last) = "delete" => Replaces(kind) /\ last = "save"
         /\ StepFor(todo, last) = "upload" => ~(Replaces(kind) /\ last = "save")
BY DEF StepFor

----------------------------------------------------------------------------
(* What the actions make of a request. *)

\* What a request becomes that starts to create or to update the document.
Started(q, last, todo, pics) ==
  /\ q \in Requests
  /\ q.pc = StepFor(todo, last) /\ q.last = last /\ q.todo = todo
  /\ q.pics = pics /\ q.fresh = NoPictures /\ q.deleted = {}

LEMMA PictureStartCreate ==
  ASSUME PicturesTypeOK, NEW r \in Uploaders, NEW todo \in SUBSET Fields, StartCreate(r, todo)
  PROVE  \E q : Becomes(r, q) /\ Started(q, "insert", todo, NoPictures)
<1> DEFINE q == [NoUpload EXCEPT !.pc = StepFor(todo, "insert"), !.last = "insert", !.todo = todo]
<1>1. q \in Requests
  BY PictureNothing, PictureStep DEF Requests
<1>2. Started(q, "insert", todo, NoPictures)
  BY <1>1, PictureNothing DEF Started, Requests
<1>3. upload' = [upload EXCEPT ![r] = q]
  BY DEF StartCreate, StartUpload
<1>4. QED BY <1>1, <1>2, <1>3 DEF Becomes

Loaded(todo) == [f \in Fields |-> IF f \in todo THEN doc.pics[f] ELSE {}]

LEMMA PictureLoaded ==
  ASSUME PictureVarsOK, NEW todo
  PROVE  Loaded(todo) \in Galleries
BY DEF PictureVarsOK, Documents, Galleries, Loaded

LEMMA PictureStartUpdate ==
  ASSUME PicturesTypeOK, NEW r \in Uploaders, NEW todo \in SUBSET Fields, NEW array \in BOOLEAN,
         StartUpdate(r, todo, array)
  PROVE  \E q : Becomes(r, q) /\ Started(q, "save", todo, Loaded(todo))
<1> DEFINE v == IF array THEN doc.version ELSE 0
           q == [NoUpload EXCEPT !.pc = StepFor(todo, "save"), !.todo = todo,
                   !.pics = Loaded(todo), !.version = v, !.array = array]
<1>1. Loaded(todo) \in [Fields -> SUBSET Images] /\ v \in 0..VersionBound
  BY PictureTypeParts, PictureLoaded, PicturesAssumption DEF PictureVarsOK, Documents, Galleries
<1>2. StepFor(todo, "save") \in {"save", "insert", "delete", "upload"}
  BY PictureStep
<1> HIDE DEF v
<1>3. q \in Requests
  BY <1>1, <1>2, PictureNothing DEF Requests
<1>4. Started(q, "save", todo, Loaded(todo))
  BY <1>3, PictureNothing DEF Started, Requests
<1>5. upload' = [upload EXCEPT ![r] = q]
  BY DEF StartUpdate, StartUpload, Loaded, v
<1>6. QED BY <1>3, <1>4, <1>5 DEF Becomes

LEMMA PictureStartRemove ==
  ASSUME PicturesTypeOK, NEW r \in Uploaders, StartRemove(r)
  PROVE  \E q : /\ Becomes(r, q)
                /\ q.pc = (IF kind = "service" THEN "purge" ELSE "flag")
                /\ q.last = "save" /\ q.todo = {} /\ q.pics = doc.pics
                /\ q.fresh = NoPictures /\ q.deleted = {}
<1> DEFINE c == IF kind = "service" THEN "purge" ELSE "flag"
           q == [NoUpload EXCEPT !.pc = c, !.pics = doc.pics]
<1>1. doc.pics \in [Fields -> SUBSET Images] /\ c \in {"purge", "flag"}
  BY PictureTypeParts DEF PictureVarsOK, Documents, Galleries
<1>2. upload' = [upload EXCEPT ![r] = q]
  BY DEF StartRemove, StartUpload
<1>3. QED
  <2> HIDE DEF c
  <2>1. q \in Requests
    BY <1>1, PictureNothing DEF Requests
  <2>2. /\ q.pc = c /\ q.last = "save" /\ q.todo = {} /\ q.pics = doc.pics
        /\ q.fresh = NoPictures /\ q.deleted = {}
    BY PictureNothing DEF Requests
  <2> HIDE DEF q
  <2>3. QED BY <1>2, <2>1, <2>2 DEF Becomes, c

\* A request that goes on to another step, having deleted some pictures.
Continues(p, q, pc, deleted) ==
  /\ q.pc = pc /\ q.deleted = deleted
  /\ q.last = p.last /\ q.todo = p.todo /\ q.pics = p.pics /\ q.fresh = p.fresh
  /\ q.version = p.version /\ q.array = p.array

LEMMA PictureContinues ==
  ASSUME UploadsOK, NEW r \in Uploaders, NEW deleted \in SUBSET Images,
         NEW pc \in {"delete", "upload", "erase", "clear"},
         \/ upload' = [upload EXCEPT ![r].pc = pc, ![r].deleted = deleted]
         \/ upload' = [upload EXCEPT ![r].pc = pc] /\ deleted = upload[r].deleted
  PROVE  \E q : Becomes(r, q) /\ Continues(upload[r], q, pc, deleted)
<1> DEFINE q == [upload[r] EXCEPT !.pc = pc, !.deleted = deleted]
<1>0. upload[r] \in Requests
  BY DEF UploadsOK
<1>1. q \in Requests /\ Continues(upload[r], q, pc, deleted)
  BY <1>0 DEF Requests, Continues
<1>2. upload' = [upload EXCEPT ![r] = q]
  <2>1. deleted = upload[r].deleted => [upload[r] EXCEPT !.pc = pc] = q
    BY <1>0 DEF Requests
  <2>2. QED BY <2>1 DEF UploadsOK
<1>3. QED BY <1>1, <1>2 DEF Becomes

LEMMA PictureOldDeleted ==
  ASSUME PicturesTypeOK, NEW r \in Uploaders, upload[r].todo # {}
  PROVE  LET f == NextField(upload[r].todo) IN
           /\ f \in upload[r].todo /\ f \in Fields
           /\ upload[r].pics[f] \subseteq Images
           /\ upload[r].pics[f] \subseteq AllOf(upload[r].pics)
<1>1. upload[r] \in Requests
  BY PictureTypeParts DEF UploadsOK
<1>2. QED BY <1>1, PictureRequest, PictureNextField, PictureGallery

\* A field gets its new pictures.
Writes(p, q, f, pictures) ==
  /\ q.todo = p.todo \ {f} /\ q.pc = StepFor(p.todo \ {f}, p.last)
  /\ q.fresh[f] = pictures /\ \A g \in Fields : g # f => q.fresh[g] = p.fresh[g]
  /\ q.last = p.last /\ q.pics = p.pics /\ q.deleted = p.deleted

LEMMA PictureSent ==
  ASSUME PicturesTypeOK, ShapedAll, NEW r \in Uploaders, SendImage(r)
  PROVE  LET f == NextField(upload[r].todo) IN
           \E q : Becomes(r, q) /\ Writes(upload[r], q, f, Written(r, sent + 1))
<1> DEFINE p == upload[r]  f == NextField(p.todo)  w == Written(r, sent + 1)
           fresh == [p.fresh EXCEPT ![f] = w]
           q == [p EXCEPT !.fresh = fresh, !.todo = p.todo \ {f}, !.pc = StepFor(p.todo \ {f}, p.last)]
<1>1. p \in Requests /\ p.todo # {}
  BY PictureTypeParts DEF UploadsOK, ShapedAll, Shaped, SendImage
<1>2. f \in p.todo /\ f \in Fields
  BY <1>1, PictureRequest, PictureNextField
<1>3. sent + 1 \in Images
  BY PictureTypeParts, PicturesAssumption DEF PictureVarsOK, Images, SendImage
<1>4. w \subseteq Images
  BY <1>1, <1>3, PictureRequest, PictureGallery DEF Written, Fields
<1>5. fresh \in Galleries
  BY <1>1, <1>2, <1>4, PictureRequest DEF Galleries
<1>6. StepFor(p.todo \ {f}, p.last) \in {"save", "insert", "delete", "upload"}
  BY <1>1, PictureRequest, PictureStep
<1>7. upload' = [upload EXCEPT ![r] = q]
  <2>1. upload' = [upload EXCEPT ![r] = [p EXCEPT !.fresh[f] = w, !.todo = p.todo \ {f},
                                           !.pc = StepFor(p.todo \ {f}, p.last)]]
    BY DEF SendImage
  <2>2. QED BY <2>1
<1> HIDE DEF w, fresh
<1>8. q \in Requests
  BY <1>1, <1>5, <1>6 DEF Requests, Galleries
<1>9. q.fresh = fresh /\ q.todo = p.todo \ {f} /\ q.pc = StepFor(p.todo \ {f}, p.last)
      /\ q.last = p.last /\ q.pics = p.pics /\ q.deleted = p.deleted
  BY <1>1 DEF Requests
<1>10. fresh[f] = w /\ \A g \in Fields : g # f => fresh[g] = p.fresh[g]
  BY <1>1, <1>2, PictureRequest DEF fresh, Galleries
<1> HIDE DEF q
<1>11. QED BY <1>7, <1>8, <1>9, <1>10 DEF Becomes, Writes, w

----------------------------------------------------------------------------
(* Type correctness. *)

LEMMA PictureTypeInit == PicturesInit => PicturesTypeOK
<1> SUFFICES ASSUME PicturesInit PROVE PicturesTypeOK
  OBVIOUS
<1>1. PictureVarsOK
  <2>1. (IF kind = "user" THEN "live" ELSE "none") \in {"none", "live", "removed", "gone"}
    OBVIOUS
  <2>2. doc \in Documents
    BY <2>1, PictureNothing, PicturesAssumption DEF PicturesInit, Documents
  <2>3. kind \in Kinds /\ disturbed \in BOOLEAN
    BY DEF PicturesInit
  <2>4. sent \in 0..ImageBound /\ store \subseteq 1..sent /\ abandoned \subseteq Images
    BY PicturesAssumption DEF PicturesInit
  <2>5. QED BY <2>2, <2>3, <2>4 DEF PictureVarsOK
<1>2. UploadsOK
  BY PictureNothing DEF PicturesInit, UploadsOK
<1>3. QED BY <1>1, <1>2, PictureTypeParts

\* A request that ends is one that is not there.
LEMMA PictureEnds ==
  ASSUME PicturesTypeOK, NEW r \in Uploaders, upload' = [upload EXCEPT ![r] = NoUpload]
  PROVE  UploadsOK' /\ Becomes(r, NoUpload)
BY PictureTypeParts, PictureNothing, PictureBecomes DEF Becomes

LEMMA PictureTypeStart ==
  ASSUME PicturesTypeOK, NEW r \in Uploaders,
         \/ \E todo \in SUBSET Fields :
              StartCreate(r, todo) \/ \E array \in BOOLEAN : StartUpdate(r, todo, array)
         \/ StartRemove(r)
  PROVE  PicturesTypeOK'
<1>1. PictureVarsOK /\ UploadsOK
  BY PictureTypeParts
<1>2. PictureVarsOK'
  BY <1>1 DEF PictureVarsOK, StartCreate, StartUpdate, StartRemove, StartUpload
<1>3. \E q : Becomes(r, q) /\ q.pc # "idle"
  <2>1. CASE \E todo \in SUBSET Fields : StartCreate(r, todo)
    BY <2>1, PictureStartCreate, PictureStep DEF Started
  <2>2. CASE \E todo \in SUBSET Fields : \E array \in BOOLEAN : StartUpdate(r, todo, array)
    BY <2>2, PictureStartUpdate, PictureStep DEF Started
  <2>3. CASE StartRemove(r)
    BY <2>3, PictureStartRemove
  <2>4. QED BY <2>1, <2>2, <2>3
<1>4. QED BY <1>1, <1>2, <1>3, PictureBecomes, PictureTypeParts

\* What the requests write to the document is of its type.
LEMMA PictureWrites ==
  ASSUME PicturesTypeOK, NEW r \in Uploaders
  PROVE  /\ upload[r].fresh \in Galleries
         /\ Merged(r) \in Galleries
<1>1. upload[r].fresh \in Galleries /\ doc.pics \in Galleries
  BY PictureTypeParts, PictureRequest DEF UploadsOK, PictureVarsOK, Documents
<1>2. QED BY <1>1 DEF Merged, Galleries

\* The way a step fails that deletes nothing.
Aborts(r) == Fail(r) /\ UNCHANGED store

LEMMA PictureFails ==
  ASSUME PicturesTypeOK, NEW r \in Uploaders, Fail(r), store' = store
  PROVE  PicturesTypeOK'
<1>1. PictureVarsOK /\ UploadsOK /\ UploadsOK'
  BY PictureTypeParts, PictureEnds DEF Fail
<1>2. upload[r].deleted \subseteq Images
  BY <1>1, PictureRequest DEF UploadsOK
<1>3. PictureVarsOK'
  BY <1>1, <1>2 DEF PictureVarsOK, Fail
<1>4. QED BY <1>1, <1>3, PictureTypeParts

LEMMA PictureTypeOld ==
  ASSUME PicturesTypeOK, ShapedAll, NEW r \in Uploaders, DeleteOld(r) \/ PurgePictures(r)
  PROVE  PicturesTypeOK'
<1>1. PictureVarsOK /\ UploadsOK /\ upload[r] \in Requests
  BY PictureTypeParts DEF UploadsOK
<1>2. CASE DeleteOld(r)
  <2> DEFINE old == upload[r].pics[NextField(upload[r].todo)]
  <2>1. old \subseteq Images /\ upload[r].deleted \subseteq Images
    BY <1>1, <1>2, PictureRequest, PictureOldDeleted DEF DeleteOld, ShapedAll, Shaped
  <2> HIDE DEF old
  <2>2. CASE upload' = [upload EXCEPT ![r].pc = "upload", ![r].deleted = @ \cup old]
             /\ store' = store \ old /\ UNCHANGED <<kind, doc, sent, disturbed, abandoned>>
    <3>1. upload' = [upload EXCEPT ![r].pc = "upload", ![r].deleted = upload[r].deleted \cup old]
      BY <1>1, <2>2 DEF UploadsOK
    <3>2. \E q : Becomes(r, q) /\ q.pc # "idle"
      BY <1>1, <2>1, <3>1, PictureContinues DEF Continues
    <3>3. PictureVarsOK'
      BY <1>1, <2>2 DEF PictureVarsOK
    <3>4. QED BY <1>1, <3>2, <3>3, PictureBecomes, PictureTypeParts
  <2>3. CASE upload' = [upload EXCEPT ![r].pc = "upload"] /\ disturbed' = TRUE
             /\ UNCHANGED <<kind, doc, store, sent, abandoned>>
    <3>1. \E q : Becomes(r, q) /\ q.pc # "idle"
      BY <1>1, <2>1, <2>3, PictureContinues DEF Continues
    <3>2. PictureVarsOK'
      BY <1>1, <2>3 DEF PictureVarsOK
    <3>3. QED BY <1>1, <3>1, <3>2, PictureBecomes, PictureTypeParts
  <2>4. CASE Fail(r) /\ UNCHANGED store
    BY <2>4, PictureFails
  <2>5. QED BY <1>2, <2>2, <2>3, <2>4 DEF DeleteOld, old
<1>3. CASE PurgePictures(r)
  <2> DEFINE old == AllOf(upload[r].pics)
  <2>1. old \subseteq Images
    BY <1>1, PictureRequest, PictureGallery
  <2> HIDE DEF old
  <2>2. PICK kept \in SUBSET old : /\ store' = store \ (old \ kept)
                                   /\ disturbed' = (disturbed \/ kept # {})
                                   /\ upload' = [upload EXCEPT ![r].pc = "erase", ![r].deleted = old \ kept]
    BY <1>3 DEF PurgePictures, old
  <2>3. \E q : Becomes(r, q) /\ q.pc # "idle"
    BY <1>1, <2>1, <2>2, PictureContinues DEF Continues
  <2>4. PictureVarsOK'
    BY <1>1, <1>3, <2>2 DEF PictureVarsOK, PurgePictures
  <2>5. QED BY <1>1, <2>3, <2>4, PictureBecomes, PictureTypeParts
<1>4. QED BY <1>2, <1>3

LEMMA PictureTypeSent ==
  ASSUME PicturesTypeOK, ShapedAll, NEW r \in Uploaders, SendImage(r)
  PROVE  PicturesTypeOK'
<1>1. PictureVarsOK /\ UploadsOK /\ upload[r] \in Requests
  BY PictureTypeParts DEF UploadsOK
<1>2. \E q : Becomes(r, q) /\ q.pc # "idle"
  <2>1. PICK q : Becomes(r, q) /\ Writes(upload[r], q, NextField(upload[r].todo), Written(r, sent + 1))
    BY PictureSent
  <2>2. q.pc # "idle"
    BY <1>1, <2>1, PictureStep, PictureRequest DEF Writes
  <2>3. QED BY <2>1, <2>2
<1>3. PictureVarsOK'
  BY <1>1, PicturesAssumption DEF PictureVarsOK, SendImage
<1>4. QED BY <1>1, <1>2, <1>3, PictureBecomes, PictureTypeParts

LEMMA PictureTypeDocument ==
  ASSUME PicturesTypeOK, NEW r \in Uploaders,
         InsertDocument(r) \/ SaveDocument(r) \/ EraseDocument(r) \/ FlagRemoved(r) \/ ClearAvatar(r)
  PROVE  PicturesTypeOK'
<1>1. PictureVarsOK /\ UploadsOK /\ upload[r] \in Requests
  BY PictureTypeParts DEF UploadsOK
<1>2. CASE Fail(r) /\ UNCHANGED store
  BY <1>2, PictureFails
<1>3. CASE Finish(r) /\ doc' = [state |-> "live", pics |-> upload[r].fresh, version |-> 0]
  <2>1. doc' \in Documents
    BY <1>3, PictureWrites, PicturesAssumption DEF Documents
  <2>2. PictureVarsOK' /\ UploadsOK'
    BY <1>1, <1>3, <2>1, PictureEnds DEF PictureVarsOK, Finish
  <2>3. QED BY <2>2, PictureTypeParts
<1>4. CASE /\ Finish(r) /\ (upload[r].array => doc.version < VersionBound)
           /\ doc' = [doc EXCEPT !.pics = Merged(r),
                              !.version = IF upload[r].array THEN @ + 1 ELSE @]
  <2>1. (IF upload[r].array THEN doc.version + 1 ELSE doc.version) \in 0..VersionBound
    BY <1>1, <1>4, PicturesAssumption DEF PictureVarsOK, Documents
  <2>2. doc' \in Documents
    BY <1>1, <1>4, <2>1, PictureWrites DEF PictureVarsOK, Documents
  <2>3. PictureVarsOK' /\ UploadsOK'
    BY <1>1, <1>4, <2>2, PictureEnds DEF PictureVarsOK, Finish
  <2>4. QED BY <2>3, PictureTypeParts
<1>5. CASE EraseDocument(r)
  <2>1. doc' \in Documents
    BY <1>1, <1>5, PictureNothing DEF PictureVarsOK, Documents, EraseDocument
  <2>2. PictureVarsOK' /\ UploadsOK'
    BY <1>1, <1>5, <2>1, PictureEnds DEF PictureVarsOK, EraseDocument, Finish
  <2>3. QED BY <2>2, PictureTypeParts
<1>6. CASE FlagRemoved(r)
  <2>1. doc' \in Documents
    BY <1>1, <1>6 DEF PictureVarsOK, Documents, FlagRemoved
  <2>2. PictureVarsOK'
    BY <1>1, <1>6, <2>1 DEF PictureVarsOK, FlagRemoved
  <2>3. \E q : Becomes(r, q) /\ q.pc # "idle"
    BY <1>1, <1>6, PictureContinues, PictureRequest DEF Continues, FlagRemoved
  <2>4. QED BY <1>1, <2>2, <2>3, PictureBecomes, PictureTypeParts
<1>7. CASE ClearAvatar(r)
  <2>1. PictureVarsOK' /\ UploadsOK'
    BY <1>1, <1>7, PictureEnds DEF PictureVarsOK, ClearAvatar
  <2>2. QED BY <2>1, PictureTypeParts
<1>8. QED BY <1>2, <1>3, <1>4, <1>5, <1>6, <1>7 DEF InsertDocument, SaveDocument

LEMMA PictureTypeCrash ==
  ASSUME PicturesTypeOK, DropBusiness \/ Crash
  PROVE  PicturesTypeOK'
<1>1. PictureVarsOK /\ UploadsOK
  BY PictureTypeParts
<1>2. CASE DropBusiness
  <2>1. doc' \in Documents
    BY <1>1, <1>2, PictureNothing DEF PictureVarsOK, Documents, DropBusiness
  <2>2. PictureVarsOK' /\ UploadsOK'
    BY <1>1, <1>2, <2>1 DEF PictureVarsOK, UploadsOK, DropBusiness
  <2>3. QED BY <2>2, PictureTypeParts
<1>3. CASE Crash
  <2>1. \A r \in Uploaders : upload[r].deleted \subseteq Images
    BY <1>1, PictureRequest DEF UploadsOK
  <2>2. PictureVarsOK'
    BY <1>1, <1>3, <2>1 DEF PictureVarsOK, Crash
  <2>3. UploadsOK'
    BY <1>3, PictureNothing DEF UploadsOK, Crash
  <2>4. QED BY <2>2, <2>3, PictureTypeParts
<1>4. QED BY <1>2, <1>3

----------------------------------------------------------------------------
(* Every request is in a state its steps lead to. *)

\* Shaped without what it says of the document.
ShapeFor(p, k) ==
  /\ p.todo \subseteq FieldsOf(k)
  /\ \A f \in p.todo : p.fresh[f] = {}
  /\ p.pc \in {"delete", "upload"} => p.todo # {}
  /\ p.pc \in {"save", "insert"} => p.todo = {} /\ p.last = p.pc
  /\ p.pc = "delete" => Replaces(k) /\ p.last = "save"
  /\ p.pc \in {"purge", "erase"} => k = "service"
  /\ p.pc \in {"flag", "clear"} => k = "staff"
  /\ p.pc \in {"purge", "erase", "flag", "clear"} => p.todo = {} /\ p.fresh = NoPictures
  /\ p.last = "insert" => p.pics = NoPictures
  /\ p.pc \in {"delete", "upload", "save"} =>
       \A f \in Fields \ p.todo : p.pics[f] # {} => p.fresh[f] # {}
  /\ p.deleted \subseteq AllOf(p.pics)
  /\ p.deleted # {} => Replaces(k) \/ p.pc = "erase"

LEMMA PictureShapes ==
  /\ ShapedAll <=> \A r \in Uploaders :
       ShapeFor(upload[r], kind) /\ (upload[r].pc = "clear" => doc.state = "removed")
  /\ kind' = kind =>
       (ShapedAll' <=> \A r \in Uploaders :
          ShapeFor(upload'[r], kind) /\ (upload'[r].pc = "clear" => doc'.state = "removed"))
<1>1. ASSUME NEW p PROVE Shaped(p) <=> ShapeFor(p, kind) /\ (p.pc = "clear" => doc.state = "removed")
  BY DEF Shaped, ShapeFor
<1>2. ASSUME kind' = kind, NEW r \in Uploaders
      PROVE  Shaped(upload[r])' <=>
               ShapeFor(upload'[r], kind) /\ (upload'[r].pc = "clear" => doc'.state = "removed")
  BY <1>2 DEF Shaped, ShapeFor
<1>3. QED BY <1>1, <1>2 DEF ShapedAll

LEMMA PictureShapeNothing == ShapeFor(NoUpload, kind)
BY PictureNothing DEF ShapeFor, Fields

\* It is enough to look at the request that makes the step.
LEMMA PictureShapeOne ==
  ASSUME PicturesTypeOK, ShapedAll, NEW r \in Uploaders, NEW q, Becomes(r, q), kind' = kind,
         ShapeFor(q, kind), q.pc = "clear" => doc'.state = "removed",
         kind = "staff" /\ doc.state = "removed" => doc'.state = "removed"
  PROVE  ShapedAll'
<1>1. UploadsOK
  BY PictureTypeParts
<1>2. upload'[r] = q /\ \A s \in Uploaders : s # r => upload'[s] = upload[s]
  BY <1>1, PictureBecomes
<1>3. \A s \in Uploaders : ShapeFor(upload'[s], kind)
  BY <1>2, PictureShapes
<1>4. \A s \in Uploaders : upload[s].pc = "clear" => kind = "staff" /\ doc.state = "removed"
  BY DEF ShapedAll, Shaped
<1>5. QED BY <1>2, <1>3, <1>4, PictureShapes

LEMMA PictureShapeInit == PicturesInit => ShapedAll
BY PictureNothing, PictureShapes, PictureShapeNothing DEF PicturesInit

LEMMA PictureShapeStarted ==
  ASSUME NEW q, NEW last \in {"save", "insert"}, NEW todo \in SUBSET FieldsOf(kind), NEW pics,
         Started(q, last, todo, pics), last = "insert" => pics = NoPictures,
         \A f \in Fields \ todo : pics[f] = {}
  PROVE  ShapeFor(q, kind) /\ q.pc # "clear"
<1>1. todo \subseteq Fields
  BY DEF FieldsOf, Fields
<1>2. q.pc \in {"save", "insert", "delete", "upload"}
  BY PictureStep DEF Started
<1>3. /\ q.pc \in {"delete", "upload"} => q.todo # {}
      /\ q.pc \in {"save", "insert"} => q.todo = {} /\ q.last = q.pc
      /\ q.pc = "delete" => Replaces(kind) /\ q.last = "save"
  BY PictureStep DEF Started
<1>4. \A f \in q.todo : q.fresh[f] = {}
  BY <1>1, PictureNothing DEF Started
<1>5. QED BY <1>1, <1>2, <1>3, <1>4 DEF ShapeFor, Started

LEMMA PictureShapeStart ==
  ASSUME PicturesTypeOK, ShapedAll, NEW r \in Uploaders,
         \/ \E todo \in SUBSET Fields :
              StartCreate(r, todo) \/ \E array \in BOOLEAN : StartUpdate(r, todo, array)
         \/ StartRemove(r)
  PROVE  ShapedAll'
<1>1. kind' = kind /\ doc' = doc
  BY DEF StartCreate, StartUpdate, StartRemove, StartUpload
<1>2. CASE \E todo \in SUBSET Fields : StartCreate(r, todo)
  <2>1. PICK todo \in SUBSET Fields : StartCreate(r, todo)
    BY <1>2
  <2>2. PICK q : Becomes(r, q) /\ Started(q, "insert", todo, NoPictures)
    BY <2>1, PictureStartCreate
  <2>3. todo \subseteq FieldsOf(kind)
    BY <2>1 DEF StartCreate
  <2>4. ShapeFor(q, kind) /\ q.pc # "clear"
    BY <2>2, <2>3, PictureShapeStarted, PictureNothing
  <2>5. QED BY <1>1, <2>2, <2>4, PictureShapeOne
<1>3. CASE \E todo \in SUBSET Fields : \E array \in BOOLEAN : StartUpdate(r, todo, array)
  <2>1. PICK todo \in SUBSET Fields : \E array \in BOOLEAN : StartUpdate(r, todo, array)
    BY <1>3
  <2>2. PICK q : Becomes(r, q) /\ Started(q, "save", todo, Loaded(todo))
    BY <2>1, PictureStartUpdate
  <2>3. todo \subseteq FieldsOf(kind)
    BY <2>1 DEF StartUpdate
  <2>4. \A f \in Fields \ todo : Loaded(todo)[f] = {}
    BY DEF Loaded
  <2>5. ShapeFor(q, kind) /\ q.pc # "clear"
    BY <2>2, <2>3, <2>4, PictureShapeStarted
  <2>6. QED BY <1>1, <2>2, <2>5, PictureShapeOne
<1>4. CASE StartRemove(r)
  <2>1. PICK q : /\ Becomes(r, q)
                 /\ q.pc = (IF kind = "service" THEN "purge" ELSE "flag")
                 /\ q.last = "save" /\ q.todo = {} /\ q.pics = doc.pics
                 /\ q.fresh = NoPictures /\ q.deleted = {}
    BY <1>4, PictureStartRemove
  <2>2. kind \in {"service", "staff"}
    BY <1>4 DEF StartRemove
  <2>3. ShapeFor(q, kind) /\ q.pc # "clear"
    BY <2>1, <2>2 DEF ShapeFor
  <2>4. QED BY <1>1, <2>1, <2>3, PictureShapeOne
<1>5. QED BY <1>2, <1>3, <1>4

\* A request that ends, whatever becomes of the document.
LEMMA PictureShapeEnds ==
  ASSUME PicturesTypeOK, ShapedAll, NEW r \in Uploaders,
         upload' = [upload EXCEPT ![r] = NoUpload], kind' = kind,
         kind = "staff" /\ doc.state = "removed" => doc'.state = "removed"
  PROVE  ShapedAll'
<1>1. Becomes(r, NoUpload)
  BY PictureEnds
<1>2. NoUpload.pc # "clear"
  BY PictureNothing
<1>3. QED BY <1>1, <1>2, PictureShapeNothing, PictureShapeOne

\* The deletion of old pictures.
LEMMA PictureDeletes ==
  ASSUME PicturesTypeOK, ShapedAll, NEW r \in Uploaders, DeleteOld(r), ~Aborts(r)
  PROVE  \E q, gone :
           /\ Becomes(r, q) /\ Continues(upload[r], q, "upload", upload[r].deleted \cup gone)
           /\ store' = store \ gone
           /\ gone \subseteq upload[r].pics[NextField(upload[r].todo)]
           /\ gone = upload[r].pics[NextField(upload[r].todo)] \/ disturbed'
           /\ disturbed' = disturbed \/ disturbed' = TRUE
           /\ UNCHANGED <<kind, doc, sent, abandoned>>
<1> DEFINE old == upload[r].pics[NextField(upload[r].todo)]
<1>1. UploadsOK /\ upload[r] \in Requests
  BY PictureTypeParts DEF UploadsOK
<1>2. old \subseteq Images /\ upload[r].deleted \subseteq Images
  BY <1>1, PictureRequest, PictureOldDeleted DEF DeleteOld, ShapedAll, Shaped
<1> HIDE DEF old
<1>3. CASE upload' = [upload EXCEPT ![r].pc = "upload", ![r].deleted = @ \cup old]
           /\ store' = store \ old /\ UNCHANGED <<kind, doc, sent, disturbed, abandoned>>
  <2>1. upload' = [upload EXCEPT ![r].pc = "upload", ![r].deleted = upload[r].deleted \cup old]
    BY <1>1, <1>3 DEF UploadsOK
  <2>2. PICK q : Becomes(r, q) /\ Continues(upload[r], q, "upload", upload[r].deleted \cup old)
    BY <1>1, <1>2, <2>1, PictureContinues
  <2>3. QED BY <1>3, <2>2 DEF old
<1>4. CASE upload' = [upload EXCEPT ![r].pc = "upload"] /\ disturbed' = TRUE
           /\ UNCHANGED <<kind, doc, store, sent, abandoned>>
  <2>1. upload[r].deleted = upload[r].deleted \cup {} /\ store' = store \ {}
    BY <1>4
  <2>2. PICK q : Becomes(r, q) /\ Continues(upload[r], q, "upload", upload[r].deleted)
    BY <1>1, <1>2, <1>4, PictureContinues
  <2>3. Continues(upload[r], q, "upload", upload[r].deleted \cup {})
    BY <2>1, <2>2
  <2>4. QED BY <1>4, <2>1, <2>2, <2>3
<1>5. QED BY <1>3, <1>4 DEF DeleteOld, Aborts, old

LEMMA PicturePurges ==
  ASSUME PicturesTypeOK, NEW r \in Uploaders, PurgePictures(r)
  PROVE  \E q, gone :
           /\ Becomes(r, q) /\ Continues(upload[r], q, "erase", gone)
           /\ store' = store \ gone
           /\ gone \subseteq AllOf(upload[r].pics)
           /\ gone = AllOf(upload[r].pics) \/ disturbed'
           /\ disturbed => disturbed'
           /\ UNCHANGED <<kind, doc, sent, abandoned>>
<1> DEFINE old == AllOf(upload[r].pics)
<1>1. UploadsOK /\ upload[r] \in Requests
  BY PictureTypeParts DEF UploadsOK
<1>2. old \subseteq Images
  BY <1>1, PictureRequest, PictureGallery
<1> HIDE DEF old
<1>3. PICK kept \in SUBSET old : /\ store' = store \ (old \ kept)
                                 /\ disturbed' = (disturbed \/ kept # {})
                                 /\ upload' = [upload EXCEPT ![r].pc = "erase", ![r].deleted = old \ kept]
  BY DEF PurgePictures, old
<1>4. PICK q : Becomes(r, q) /\ Continues(upload[r], q, "erase", old \ kept)
  BY <1>1, <1>2, <1>3, PictureContinues
<1>5. old \ kept = old \/ disturbed'
  BY <1>3
<1>6. old \ kept \subseteq old /\ (disturbed => disturbed')
  BY <1>3
<1>7. UNCHANGED <<kind, doc, sent, abandoned>>
  BY DEF PurgePictures
<1>8. QED BY <1>3, <1>4, <1>5, <1>6, <1>7 DEF old

LEMMA PictureFailEnds ==
  ASSUME NEW r \in Uploaders, Fail(r)
  PROVE  /\ upload' = [upload EXCEPT ![r] = NoUpload] /\ kind' = kind /\ doc' = doc
         /\ sent' = sent /\ disturbed' /\ abandoned' = abandoned \cup upload[r].deleted
BY DEF Fail

LEMMA PictureShapeOld ==
  ASSUME PicturesTypeOK, ShapedAll, NEW r \in Uploaders, DeleteOld(r) \/ PurgePictures(r)
  PROVE  ShapedAll'
<1>1. UploadsOK /\ upload[r] \in Requests /\ ShapeFor(upload[r], kind)
  BY PictureTypeParts, PictureShapes DEF UploadsOK
<1>2. CASE Fail(r)
  BY <1>2, PictureFailEnds, PictureShapeEnds
<1>3. CASE DeleteOld(r) /\ ~Aborts(r)
  <2>1. PICK q, gone :
           /\ Becomes(r, q) /\ Continues(upload[r], q, "upload", upload[r].deleted \cup gone)
           /\ gone \subseteq upload[r].pics[NextField(upload[r].todo)]
           /\ UNCHANGED <<kind, doc>>
    BY <1>3, PictureDeletes
  <2>2. upload[r].pc = "delete" /\ upload[r].todo # {}
    BY <1>1, <1>3 DEF DeleteOld, ShapeFor
  <2>3. gone \subseteq AllOf(upload[r].pics)
    BY <2>1, <2>2, PictureOldDeleted
  <2>4. ShapeFor(q, kind)
    <3>1. q.pc = "upload" /\ q.deleted \subseteq AllOf(q.pics)
      BY <1>1, <2>1, <2>3 DEF Continues, ShapeFor
    <3>2. Replaces(kind) /\ upload[r].last = "save"
      BY <1>1, <2>2 DEF ShapeFor
    <3>3. QED BY <1>1, <2>1, <2>2, <3>1, <3>2 DEF ShapeFor, Continues
  <2>5. QED BY <2>1, <2>4, PictureShapeOne DEF Continues
<1>4. CASE PurgePictures(r)
  <2>1. PICK q, gone :
           /\ Becomes(r, q) /\ Continues(upload[r], q, "erase", gone)
           /\ gone \subseteq AllOf(upload[r].pics) /\ UNCHANGED <<kind, doc>>
    BY <1>4, PicturePurges
  <2>2. upload[r].pc = "purge"
    BY <1>4 DEF PurgePictures
  <2>3. ShapeFor(q, kind)
    BY <1>1, <2>1, <2>2 DEF ShapeFor, Continues
  <2>4. QED BY <2>1, <2>3, PictureShapeOne DEF Continues
<1>5. QED BY <1>2, <1>3, <1>4 DEF Aborts

LEMMA PictureShapeSent ==
  ASSUME PicturesTypeOK, ShapedAll, NEW r \in Uploaders, SendImage(r)
  PROVE  ShapedAll'
<1> DEFINE p == upload[r]  f == NextField(p.todo)
<1>1. UploadsOK /\ p \in Requests /\ ShapeFor(p, kind) /\ p.pc = "upload"
  BY PictureTypeParts, PictureShapes DEF UploadsOK, SendImage
<1>2. PICK q : Becomes(r, q) /\ Writes(p, q, f, Written(r, sent + 1))
  BY PictureSent
<1>3. f \in p.todo /\ p.todo \subseteq Fields /\ p.last \in {"save", "insert"}
  BY <1>1, PictureRequest, PictureNextField DEF ShapeFor
<1> HIDE DEF f
<1>4. q.fresh[f] # {}
  BY <1>2 DEF Writes, Written
<1>5. /\ q.pc \in {"save", "insert", "delete", "upload"}
      /\ q.todo = {} => q.pc = p.last
      /\ q.todo # {} => q.pc \in {"delete", "upload"}
      /\ q.pc = "delete" => Replaces(kind) /\ p.last = "save"
  BY <1>2, <1>3, PictureStep DEF Writes
<1>6. \A g \in q.todo : q.fresh[g] = {}
  BY <1>1, <1>2, <1>3 DEF Writes, ShapeFor
<1>7. \A g \in Fields \ q.todo : q.pics[g] # {} => q.fresh[g] # {}
  BY <1>1, <1>2, <1>3, <1>4 DEF Writes, ShapeFor
<1>8. q.deleted # {} => Replaces(kind)
  BY <1>1, <1>2 DEF Writes, ShapeFor
<1>9. q.todo \subseteq FieldsOf(kind) /\ q.last = p.last /\ q.pics = p.pics
      /\ (q.last = "insert" => q.pics = NoPictures) /\ q.deleted \subseteq AllOf(q.pics)
  BY <1>1, <1>2 DEF Writes, ShapeFor
<1>10. /\ q.pc \in {"delete", "upload"} => q.todo # {}
       /\ q.pc \in {"save", "insert"} => q.todo = {} /\ q.last = q.pc
  BY <1>3, <1>5, <1>9
<1>11. ShapeFor(q, kind)
  BY <1>5, <1>6, <1>7, <1>8, <1>9, <1>10 DEF ShapeFor
<1>12. kind' = kind /\ doc' = doc /\ q.pc # "clear"
  BY <1>5 DEF SendImage
<1>13. QED BY <1>2, <1>11, <1>12, PictureShapeOne

LEMMA PictureShapeDocument ==
  ASSUME PicturesTypeOK, ShapedAll, NEW r \in Uploaders,
         InsertDocument(r) \/ SaveDocument(r) \/ EraseDocument(r) \/ FlagRemoved(r) \/ ClearAvatar(r)
  PROVE  ShapedAll'
<1>1. UploadsOK /\ PictureVarsOK /\ upload[r] \in Requests /\ ShapeFor(upload[r], kind)
  BY PictureTypeParts, PictureShapes DEF UploadsOK
<1>2. CASE Fail(r)
  BY <1>2, PictureFailEnds, PictureShapeEnds
<1>3. CASE InsertDocument(r) /\ ~Fail(r)
  <2>1. doc.state = "none" /\ Finish(r)
    BY <1>3 DEF InsertDocument
  <2>2. QED BY <2>1, PictureShapeEnds DEF Finish
<1>4. CASE SaveDocument(r) /\ ~Fail(r)
  <2>1. doc'.state = doc.state /\ Finish(r)
    BY <1>1, <1>4 DEF SaveDocument, PictureVarsOK, Documents
  <2>2. QED BY <2>1, PictureShapeEnds DEF Finish
<1>5. CASE EraseDocument(r)
  <2>1. kind = "service" /\ Finish(r)
    BY <1>1, <1>5 DEF EraseDocument, ShapeFor
  <2>2. QED BY <2>1, PictureShapeEnds DEF Finish
<1>6. CASE FlagRemoved(r)
  <2>1. doc'.state = "removed" /\ kind' = kind
    BY <1>1, <1>6 DEF FlagRemoved, PictureVarsOK, Documents
  <2>2. PICK q : Becomes(r, q) /\ Continues(upload[r], q, "clear", upload[r].deleted)
    BY <1>1, <1>6, PictureContinues, PictureRequest DEF FlagRemoved
  <2>3. ShapeFor(q, kind)
    BY <1>1, <1>6, <2>2 DEF ShapeFor, Continues, FlagRemoved
  <2>4. QED BY <2>1, <2>2, <2>3, PictureShapeOne
<1>7. CASE ClearAvatar(r)
  BY <1>7, PictureShapeEnds DEF ClearAvatar
<1>8. QED BY <1>2, <1>3, <1>4, <1>5, <1>6, <1>7

LEMMA PictureShapeCrash ==
  ASSUME PicturesTypeOK, ShapedAll, DropBusiness \/ Crash
  PROVE  ShapedAll'
<1>1. CASE DropBusiness
  <2>1. kind' = kind /\ upload' = upload /\ kind = "business"
    BY <1>1 DEF DropBusiness
  <2>2. \A r \in Uploaders : ShapeFor(upload[r], kind) /\ upload[r].pc # "clear"
    BY <2>1, PictureShapes DEF ShapeFor
  <2>3. QED BY <2>1, <2>2, PictureShapes
<1>2. CASE Crash
  <2>1. kind' = kind /\ \A r \in Uploaders : upload'[r] = NoUpload
    BY <1>2 DEF Crash
  <2>2. QED BY <2>1, PictureShapeNothing, PictureNothing, PictureShapes
<1>3. QED BY <1>1, <1>2

LEMMA PictureTypeStep ==
  ASSUME PicturesTypeOK, ShapedAll, [PicturesNext]_pictureVars
  PROVE  PicturesTypeOK' /\ ShapedAll'
<1>1. ASSUME NEW r \in Uploaders,
        \/ \E todo \in SUBSET Fields :
             StartCreate(r, todo) \/ \E array \in BOOLEAN : StartUpdate(r, todo, array)
        \/ StartRemove(r)
      PROVE  PicturesTypeOK' /\ ShapedAll'
  BY <1>1, PictureTypeStart, PictureShapeStart
<1>2. ASSUME NEW r \in Uploaders, DeleteOld(r) \/ PurgePictures(r)
      PROVE  PicturesTypeOK' /\ ShapedAll'
  BY <1>2, PictureTypeOld, PictureShapeOld
<1>3. ASSUME NEW r \in Uploaders, SendImage(r) PROVE PicturesTypeOK' /\ ShapedAll'
  BY <1>3, PictureTypeSent, PictureShapeSent
<1>4. ASSUME NEW r \in Uploaders, UploadFails(r) PROVE PicturesTypeOK' /\ ShapedAll'
  BY <1>4, PictureFails, PictureFailEnds, PictureShapeEnds DEF UploadFails
<1>5. ASSUME NEW r \in Uploaders, InsertDocument(r) \/ SaveDocument(r) \/ EraseDocument(r)
                                    \/ FlagRemoved(r) \/ ClearAvatar(r)
      PROVE  PicturesTypeOK' /\ ShapedAll'
  BY <1>5, PictureTypeDocument, PictureShapeDocument
<1>6. CASE DropBusiness \/ Crash
  BY <1>6, PictureTypeCrash, PictureShapeCrash
<1>7. CASE UNCHANGED pictureVars
  <2>1. PicturesTypeOK'
    BY <1>7 DEF pictureVars, PicturesTypeOK
  <2>2. ShapedAll'
    BY <1>7, PictureShapes DEF pictureVars
  <2>3. QED BY <2>1, <2>2
<1>8. QED BY <1>1, <1>2, <1>3, <1>4, <1>5, <1>6, <1>7 DEF PicturesNext

\* Every state of the documents and their pictures is well-formed.
THEOREM PicturesTyping == PicturesSpec => []PicturesTypeOK
<1>1. PicturesInit => PicturesTypeOK /\ ShapedAll
  BY PictureTypeInit, PictureShapeInit
<1>2. PicturesTypeOK /\ ShapedAll /\ [PicturesNext]_pictureVars => PicturesTypeOK' /\ ShapedAll'
  BY PictureTypeStep
<1>3. QED BY <1>1, <1>2, PTL DEF PicturesSpec

----------------------------------------------------------------------------
(* Whose the pictures are. *)

LEMMA PictureOf ==
  ASSUME NEW f, NEW x
  PROVE  /\ x \in Of(f) <=> \/ x \in doc.pics[f]
                            \/ \E r \in Uploaders : x \in upload[r].pics[f] \cup upload[r].fresh[f]
         /\ x \in Of(f)' <=> \/ x \in doc'.pics[f]
                             \/ \E r \in Uploaders : x \in upload'[r].pics[f] \cup upload'[r].fresh[f]
BY DEF Of

LEMMA PictureDeleted ==
  ASSUME NEW x
  PROVE  /\ x \in Deleted <=> x \in abandoned \/ \E r \in Uploaders : x \in upload[r].deleted
         /\ x \in Deleted' <=> x \in abandoned' \/ \E r \in Uploaders : x \in upload'[r].deleted
BY DEF Deleted

LEMMA PictureAllOf ==
  ASSUME NEW g, NEW x
  PROVE  x \in AllOf(g) <=> \E f \in Fields : x \in g[f]
BY DEF AllOf, Fields

LEMMA PictureDangling ==
  /\ NoDangling <=> (doc.state = "live" =>
       \A x \in AllOf(doc.pics) : x \in store \/ x \in Deleted)
  /\ NoDangling' <=> (doc'.state = "live" =>
       \A x \in AllOf(doc'.pics) : x \in store' \/ x \in Deleted')
BY DEF NoDangling, Deleted, AllOf

LEMMA PictureThere ==
  /\ KnownIsThere <=> (~Replaces(kind) /\ doc.state \in {"none", "live"} =>
       \A f \in Fields : \A x \in Of(f) : x \in store \/ x \in Deleted)
  /\ kind' = kind =>
       (KnownIsThere' <=> (~Replaces(kind) /\ doc'.state \in {"none", "live"} =>
          \A f \in Fields : \A x \in Of(f)' : x \in store' \/ x \in Deleted'))
<1>1. (Of("single") \cup Of("gallery") \subseteq store \cup Deleted)
        <=> \A f \in Fields : \A x \in Of(f) : x \in store \/ x \in Deleted
  BY DEF Fields
<1>2. (Of("single")' \cup Of("gallery")' \subseteq store' \cup Deleted')
        <=> \A f \in Fields : \A x \in Of(f)' : x \in store' \/ x \in Deleted'
  BY DEF Fields
<1>3. kind' = kind => (Replaces(kind)' <=> Replaces(kind))
  BY DEF Replaces
<1>4. QED BY <1>1, <1>2, <1>3 DEF KnownIsThere

\* What a picture is that only its request knows.
Own(x, r, ups, d, st) ==
  /\ x \in st /\ x \notin AllOf(d.pics)
  /\ \A s \in Uploaders : /\ x \notin AllOf(ups[s].pics)
                          /\ r # s => x \notin AllOf(ups[s].fresh)

LEMMA PictureOwn ==
  /\ FreshIsOwn <=> (Replaces(kind) => \A r \in Uploaders :
       \A x \in AllOf(upload[r].fresh) : Own(x, r, upload, doc, store))
  /\ kind' = kind => (FreshIsOwn' <=> (Replaces(kind) => \A r \in Uploaders :
       \A x \in AllOf(upload'[r].fresh) : Own(x, r, upload', doc', store')))
<1>1. ASSUME NEW ups, NEW d, NEW st, NEW r
      PROVE  (/\ AllOf(ups[r].fresh) \subseteq st \ AllOf(d.pics)
              /\ \A s \in Uploaders :
                   /\ AllOf(ups[r].fresh) \cap AllOf(ups[s].pics) = {}
                   /\ r # s => AllOf(ups[r].fresh) \cap AllOf(ups[s].fresh) = {})
             <=> \A x \in AllOf(ups[r].fresh) : Own(x, r, ups, d, st)
  BY DEF Own
<1>2. kind' = kind => (Replaces(kind)' <=> Replaces(kind))
  BY DEF Replaces
<1>3. FreshIsOwn <=> (Replaces(kind) => \A r \in Uploaders :
       \A x \in AllOf(upload[r].fresh) : Own(x, r, upload, doc, store))
  BY <1>1 DEF FreshIsOwn
<1>4. FreshIsOwn' <=> (Replaces(kind)' => \A r \in Uploaders :
        (/\ AllOf(upload'[r].fresh) \subseteq store' \ AllOf(doc'.pics)
         /\ \A s \in Uploaders :
              /\ AllOf(upload'[r].fresh) \cap AllOf(upload'[s].pics) = {}
              /\ r # s => AllOf(upload'[r].fresh) \cap AllOf(upload'[s].fresh) = {}))
  BY DEF FreshIsOwn, AllOf
<1>5. FreshIsOwn' <=> (Replaces(kind)' => \A r \in Uploaders :
       \A x \in AllOf(upload'[r].fresh) : Own(x, r, upload', doc', store'))
  BY <1>1, <1>4
<1>6. QED BY <1>2, <1>3, <1>5

LEMMA PictureSortedShrinks ==
  ASSUME Sorted, sent \in Nat, sent' = sent, \A f \in Fields : \A x \in Of(f)' : x \in Of(f)
  PROVE  Sorted'
<1>1. \A f \in Fields : Of(f)' \subseteq 1..sent'
  BY DEF Sorted
<1>2. Of("single")' \cap Of("gallery")' = {}
  BY DEF Sorted, Fields
<1>3. QED BY <1>1, <1>2 DEF Sorted, Fields

PicturesSafe == Sorted /\ FreshIsOwn /\ KnownIsThere /\ NoDangling

LEMMA PictureSafeInit == PicturesInit => PicturesSafe
<1> SUFFICES ASSUME PicturesInit PROVE PicturesSafe
  OBVIOUS
<1>1. /\ doc.pics = NoPictures /\ sent = 0
      /\ \A r \in Uploaders : upload[r].pics = NoPictures /\ upload[r].fresh = NoPictures
  BY PictureNothing DEF PicturesInit
<1>2. \A f \in Fields : \A x : x \notin Of(f)
  BY <1>1, PictureOf, PictureNothing
<1>3. Sorted
  BY <1>2 DEF Sorted, Fields
<1>4. FreshIsOwn
  BY <1>1, PictureOwn, PictureNothing
<1>5. KnownIsThere
  BY <1>2, PictureThere
<1>6. NoDangling
  BY <1>1, PictureDangling, PictureNothing
<1>7. QED BY <1>3, <1>4, <1>5, <1>6 DEF PicturesSafe

----------------------------------------------------------------------------
(* Every step keeps them. *)

\* A request starts with no pictures but the document's.
LEMMA PictureStartAny ==
  ASSUME PicturesTypeOK, NEW r \in Uploaders,
         \/ \E todo \in SUBSET Fields :
              StartCreate(r, todo) \/ \E array \in BOOLEAN : StartUpdate(r, todo, array)
         \/ StartRemove(r)
  PROVE  /\ UNCHANGED <<kind, doc, store, sent, abandoned>>
         /\ upload[r] = NoUpload
         /\ \E q : /\ Becomes(r, q) /\ q.fresh = NoPictures /\ q.deleted = {}
                   /\ \A f \in Fields : q.pics[f] \subseteq doc.pics[f]
<1>1. UNCHANGED <<kind, doc, store, sent, abandoned>> /\ upload[r] = NoUpload
  BY PictureTypeParts DEF UploadsOK, StartCreate, StartUpdate, StartRemove, StartUpload
<1>2. CASE \E todo \in SUBSET Fields : StartCreate(r, todo)
  BY <1>1, <1>2, PictureStartCreate, PictureNothing DEF Started
<1>3. CASE \E todo \in SUBSET Fields : \E array \in BOOLEAN : StartUpdate(r, todo, array)
  <2>1. PICK todo \in SUBSET Fields : \E array \in BOOLEAN : StartUpdate(r, todo, array)
    BY <1>3
  <2>2. PICK q : Becomes(r, q) /\ Started(q, "save", todo, Loaded(todo))
    BY <2>1, PictureStartUpdate
  <2>3. \A f \in Fields : q.pics[f] \subseteq doc.pics[f]
    BY <2>2 DEF Started, Loaded
  <2>4. QED BY <1>1, <2>2, <2>3 DEF Started
<1>4. CASE StartRemove(r)
  BY <1>1, <1>4, PictureStartRemove
<1>5. QED BY <1>2, <1>3, <1>4

LEMMA PictureSafeStart ==
  ASSUME PicturesTypeOK, PicturesSafe, NEW r \in Uploaders,
         \/ \E todo \in SUBSET Fields :
              StartCreate(r, todo) \/ \E array \in BOOLEAN : StartUpdate(r, todo, array)
         \/ StartRemove(r)
  PROVE  PicturesSafe'
<1>1. UploadsOK /\ sent \in Nat
  BY PictureTypeParts, PicturesAssumption DEF PictureVarsOK
<1>2. UNCHANGED <<kind, doc, store, sent, abandoned>> /\ upload[r] = NoUpload
  BY PictureStartAny
<1>3. PICK q : /\ Becomes(r, q) /\ q.fresh = NoPictures /\ q.deleted = {}
               /\ \A f \in Fields : q.pics[f] \subseteq doc.pics[f]
  BY PictureStartAny
<1>4. upload'[r] = q /\ \A s \in Uploaders : s # r => upload'[s] = upload[s]
  BY <1>1, <1>3, PictureBecomes
<1>5. \A f \in Fields : \A x \in Of(f)' : x \in Of(f)
  BY <1>2, <1>3, <1>4, PictureOf, PictureNothing
<1>6. \A x : x \in Deleted' <=> x \in Deleted
  BY <1>2, <1>3, <1>4, PictureDeleted, PictureNothing
<1>7. Sorted'
  BY <1>1, <1>2, <1>5, PictureSortedShrinks DEF PicturesSafe
<1>8. FreshIsOwn'
  <2>1. SUFFICES ASSUME Replaces(kind), NEW s \in Uploaders, NEW x \in AllOf(upload'[s].fresh)
                 PROVE  Own(x, s, upload', doc', store')
    BY <1>2, PictureOwn
  <2>2. s # r /\ upload'[s] = upload[s]
    BY <1>3, <1>4, PictureNothing
  <2>3. Own(x, s, upload, doc, store)
    BY <2>1, <2>2, PictureOwn DEF PicturesSafe
  <2>4. x \notin AllOf(q.pics) /\ x \notin AllOf(q.fresh)
    BY <1>3, <2>3, PictureAllOf, PictureNothing DEF Own
  <2>5. QED BY <1>2, <1>4, <2>3, <2>4 DEF Own
<1>9. KnownIsThere'
  BY <1>2, <1>5, <1>6, PictureThere DEF PicturesSafe
<1>10. NoDangling'
  BY <1>2, <1>6, PictureDangling DEF PicturesSafe
<1>11. QED BY <1>7, <1>8, <1>9, <1>10 DEF PicturesSafe

\* Steps that leave the document and delete some pictures a request loaded.
LEMMA PictureSafeDeletes ==
  ASSUME PicturesTypeOK, PicturesSafe, NEW r \in Uploaders, NEW q, NEW pc, NEW more, NEW gone,
         Becomes(r, q), Continues(upload[r], q, pc, more),
         store' = store \ gone, gone \subseteq AllOf(upload[r].pics), gone \subseteq more,
         upload[r].deleted \subseteq more, UNCHANGED <<kind, doc, sent, abandoned>>
  PROVE  PicturesSafe'
<1>1. UploadsOK /\ sent \in Nat
  BY PictureTypeParts, PicturesAssumption DEF PictureVarsOK
<1>2. upload'[r] = q /\ \A s \in Uploaders : s # r => upload'[s] = upload[s]
  BY <1>1, PictureBecomes
<1>3. \A s \in Uploaders : upload'[s].pics = upload[s].pics /\ upload'[s].fresh = upload[s].fresh
  BY <1>2 DEF Continues
<1>4. \A f \in Fields : \A x \in Of(f)' : x \in Of(f)
  BY <1>3, PictureOf
<1>5. \A x : x \in Deleted \/ x \in gone => x \in Deleted'
  BY <1>2, PictureDeleted DEF Continues
<1>6. Sorted'
  BY <1>1, <1>4, PictureSortedShrinks DEF PicturesSafe
<1>7. FreshIsOwn'
  <2>1. SUFFICES ASSUME Replaces(kind), NEW s \in Uploaders, NEW x \in AllOf(upload'[s].fresh)
                 PROVE  Own(x, s, upload', doc', store')
    BY PictureOwn
  <2>2. Own(x, s, upload, doc, store)
    BY <1>3, <2>1, PictureOwn DEF PicturesSafe
  <2>3. QED BY <1>3, <2>2 DEF Own
<1>8. KnownIsThere'
  BY <1>4, <1>5, PictureThere DEF PicturesSafe
<1>9. NoDangling'
  BY <1>5, PictureDangling DEF PicturesSafe
<1>10. QED BY <1>6, <1>7, <1>8, <1>9 DEF PicturesSafe

LEMMA PictureSafeOld ==
  ASSUME PicturesTypeOK, ShapedAll, PicturesSafe, NEW r \in Uploaders, ~Aborts(r),
         DeleteOld(r) \/ PurgePictures(r)
  PROVE  PicturesSafe'
<1>1. UploadsOK /\ upload[r] \in Requests /\ ShapeFor(upload[r], kind)
  BY PictureTypeParts, PictureShapes DEF UploadsOK
<1>2. CASE DeleteOld(r)
  <2>1. PICK q, gone :
           /\ Becomes(r, q) /\ Continues(upload[r], q, "upload", upload[r].deleted \cup gone)
           /\ store' = store \ gone
           /\ gone \subseteq upload[r].pics[NextField(upload[r].todo)]
           /\ UNCHANGED <<kind, doc, sent, abandoned>>
    BY <1>2, PictureDeletes
  <2>2. gone \subseteq AllOf(upload[r].pics)
    BY <1>1, <1>2, <2>1, PictureOldDeleted DEF DeleteOld, ShapeFor
  <2>3. gone \subseteq upload[r].deleted \cup gone /\ upload[r].deleted \subseteq upload[r].deleted \cup gone
    OBVIOUS
  <2>4. QED BY <2>1, <2>2, <2>3, PictureSafeDeletes
<1>3. CASE PurgePictures(r)
  <2>1. PICK q, gone :
           /\ Becomes(r, q) /\ Continues(upload[r], q, "erase", gone)
           /\ store' = store \ gone
           /\ gone \subseteq AllOf(upload[r].pics)
           /\ UNCHANGED <<kind, doc, sent, abandoned>>
    BY <1>3, PicturePurges
  <2>2. upload[r].deleted = {}
    BY <1>1, <1>3 DEF PurgePictures, ShapeFor, Replaces
  <2>3. upload[r].deleted \subseteq gone
    BY <2>2
  <2>4. QED BY <2>1, <2>3, PictureSafeDeletes
<1>4. QED BY <1>2, <1>3

LEMMA PictureSafeSent ==
  ASSUME PicturesTypeOK, ShapedAll, PicturesSafe, NEW r \in Uploaders, SendImage(r)
  PROVE  PicturesSafe'
<1> DEFINE p == upload[r]  f == NextField(p.todo)  i == sent + 1
<1>1. UploadsOK /\ sent \in Nat /\ p \in Requests /\ ShapeFor(p, kind) /\ p.todo # {} /\ kind \in Kinds
  <2>1. UploadsOK /\ sent \in Nat /\ kind \in Kinds
    BY PictureTypeParts, PicturesAssumption DEF PictureVarsOK
  <2>2. p \in Requests /\ ShapeFor(p, kind) /\ p.pc = "upload"
    BY <2>1, PictureShapes DEF UploadsOK, SendImage
  <2>3. QED BY <2>1, <2>2 DEF ShapeFor
<1>2. PICK q : Becomes(r, q) /\ Writes(p, q, f, Written(r, i))
  BY PictureSent
<1>3. upload'[r] = q /\ \A s \in Uploaders : s # r => upload'[s] = upload[s]
  BY <1>1, <1>2, PictureBecomes
<1>4. UNCHANGED <<kind, doc, abandoned>> /\ store' = store \cup {i} /\ sent' = i
  BY DEF SendImage
<1>5. f \in Fields /\ f \in FieldsOf(kind)
  BY <1>1, PictureRequest, PictureNextField DEF ShapeFor
<1>6. \A g \in Fields : Of(g) \subseteq 1..sent
  BY DEF PicturesSafe, Sorted
<1>7. \A g \in Fields : i \notin Of(g)
  BY <1>1, <1>6
<1> HIDE DEF f, i
<1>8. \A x \in Written(r, i) : x = i \/ x \in p.pics[f]
  BY <1>5 DEF Written, FieldsOf
<1>9. \A g \in Fields : \A x \in q.fresh[g] : x \in p.fresh[g] \/ x \in p.pics[g] \/ (x = i /\ g = f)
  BY <1>2, <1>8 DEF Writes
<1>10. q.pics = p.pics /\ q.deleted = p.deleted
  BY <1>2 DEF Writes
<1>11. \A g \in Fields : \A x \in Of(g)' : x \in Of(g) \/ (x = i /\ g = f)
  BY <1>3, <1>4, <1>9, <1>10, PictureOf
<1>12. \A x : x \in Deleted => x \in Deleted'
  BY <1>3, <1>4, <1>10, PictureDeleted
<1>13. Sorted'
  <2>1. 1..sent \subseteq 1..sent' /\ i \in 1..sent'
    BY <1>1, <1>4 DEF i
  <2>2. \A g \in Fields : Of(g)' \subseteq 1..sent'
    BY <1>6, <1>11, <2>1
  <2>3. Of("single") \cap Of("gallery") = {}
    BY DEF PicturesSafe, Sorted
  <2>4. Of("single")' \cap Of("gallery")' = {}
    BY <1>7, <1>11, <2>3 DEF Fields
  <2>5. QED BY <2>2, <2>4 DEF Sorted, Fields
<1>14. FreshIsOwn'
  <2>1. SUFFICES ASSUME Replaces(kind), NEW s \in Uploaders, NEW x \in AllOf(upload'[s].fresh)
                 PROVE  Own(x, s, upload', doc', store')
    BY <1>4, PictureOwn
  <2>2. \A y : y \in AllOf(q.fresh) => y \in AllOf(p.fresh) \/ y = i
    BY <1>2, <2>1, PictureAllOf DEF Writes, Written, Replaces
  <2>3. \A t \in Uploaders : i \notin AllOf(upload[t].pics) /\ i \notin AllOf(upload[t].fresh)
    BY <1>7, PictureOf, PictureAllOf
  <2>4. i \notin AllOf(doc.pics)
    BY <1>7, PictureOf, PictureAllOf
  <2>5. \A t \in Uploaders : AllOf(upload'[t].pics) = AllOf(upload[t].pics)
    BY <1>3, <1>10
  <2>6. CASE x = i
    <3>1. s = r
      BY <1>3, <2>3, <2>6
    <3>2. QED BY <1>3, <1>4, <2>3, <2>4, <2>5, <2>6, <3>1 DEF Own
  <2>7. CASE x # i
    <3>1. x \in AllOf(upload[s].fresh)
      BY <1>3, <2>1, <2>2, <2>7
    <3>2. Own(x, s, upload, doc, store)
      BY <2>1, <3>1, PictureOwn DEF PicturesSafe
    <3>3. \A t \in Uploaders : s # t => x \notin AllOf(upload'[t].fresh)
      BY <1>3, <2>2, <2>7, <3>2 DEF Own
    <3>4. QED BY <1>4, <2>5, <3>2, <3>3 DEF Own
  <2>8. QED BY <2>6, <2>7
<1>15. KnownIsThere'
  BY <1>4, <1>11, <1>12, PictureThere DEF PicturesSafe
<1>16. NoDangling'
  BY <1>4, <1>12, PictureDangling DEF PicturesSafe
<1>17. QED BY <1>13, <1>14, <1>15, <1>16 DEF PicturesSafe

\* A request that ends leaves the pictures of the others alone.
LEMMA PictureEndKeeps ==
  ASSUME PicturesTypeOK, PicturesSafe, NEW r \in Uploaders,
         upload' = [upload EXCEPT ![r] = NoUpload], kind' = kind, sent' = sent,
         \A f \in Fields : doc'.pics[f] \subseteq doc.pics[f] \cup upload[r].fresh[f],
         \A x : x \in store /\ x \notin AllOf(upload[r].pics) => x \in store'
  PROVE  /\ Sorted' /\ FreshIsOwn'
         /\ \A f \in Fields : \A x \in Of(f)' : x \in Of(f)
         /\ upload'[r] = NoUpload /\ \A s \in Uploaders : s # r => upload'[s] = upload[s]
<1>1. UploadsOK /\ sent \in Nat
  BY PictureTypeParts, PicturesAssumption DEF PictureVarsOK
<1>2. upload'[r] = NoUpload /\ \A s \in Uploaders : s # r => upload'[s] = upload[s]
  BY <1>1, PictureEnds, PictureBecomes
<1>3. \A f \in Fields : \A x \in Of(f)' : x \in Of(f)
  BY <1>2, PictureOf, PictureNothing
<1>4. Sorted'
  BY <1>1, <1>3, PictureSortedShrinks DEF PicturesSafe
<1>5. FreshIsOwn'
  <2>1. SUFFICES ASSUME Replaces(kind), NEW s \in Uploaders, NEW x \in AllOf(upload'[s].fresh)
                 PROVE  Own(x, s, upload', doc', store')
    BY PictureOwn
  <2>2. s # r /\ upload'[s] = upload[s]
    BY <1>2, PictureNothing
  <2>3. Own(x, s, upload, doc, store)
    BY <2>1, <2>2, PictureOwn DEF PicturesSafe
  <2>4. x \notin AllOf(doc'.pics) /\ x \in store'
    BY <2>2, <2>3, PictureAllOf DEF Own
  <2>5. \A t \in Uploaders : /\ x \notin AllOf(upload'[t].pics)
                             /\ s # t => x \notin AllOf(upload'[t].fresh)
    BY <1>2, <2>3, PictureNothing DEF Own
  <2>6. QED BY <2>4, <2>5 DEF Own
<1>6. QED BY <1>2, <1>3, <1>4, <1>5

\* What a request that fails deleted is remembered.
LEMMA PictureSafeFails ==
  ASSUME PicturesTypeOK, PicturesSafe, NEW r \in Uploaders, Fail(r), store' = store
  PROVE  PicturesSafe'
<1>1. /\ upload' = [upload EXCEPT ![r] = NoUpload] /\ UNCHANGED <<kind, doc, sent>>
      /\ abandoned' = abandoned \cup upload[r].deleted
  BY PictureFailEnds
<1>2. /\ Sorted' /\ FreshIsOwn'
      /\ \A f \in Fields : \A x \in Of(f)' : x \in Of(f)
      /\ upload'[r] = NoUpload /\ \A s \in Uploaders : s # r => upload'[s] = upload[s]
  BY <1>1, PictureEndKeeps
<1>3. \A x : x \in Deleted => x \in Deleted'
  BY <1>1, <1>2, PictureDeleted
<1>4. KnownIsThere'
  BY <1>1, <1>2, <1>3, PictureThere DEF PicturesSafe
<1>5. NoDangling'
  BY <1>1, <1>3, PictureDangling DEF PicturesSafe
<1>6. QED BY <1>2, <1>4, <1>5 DEF PicturesSafe

\* A document that is not live shows nothing.
LEMMA PictureSafeAway ==
  ASSUME PicturesTypeOK, PicturesSafe, NEW r \in Uploaders,
         upload' = [upload EXCEPT ![r] = NoUpload], kind' = kind, sent' = sent,
         \A f \in Fields : doc'.pics[f] \subseteq doc.pics[f] \cup upload[r].fresh[f],
         \A x : x \in store /\ x \notin AllOf(upload[r].pics) => x \in store',
         doc'.state \notin {"none", "live"}
  PROVE  PicturesSafe'
<1>1. Sorted' /\ FreshIsOwn'
  BY PictureEndKeeps
<1>2. KnownIsThere' /\ NoDangling'
  BY PictureThere, PictureDangling
<1>3. QED BY <1>1, <1>2 DEF PicturesSafe

\* A write of the document: what it no longer shows needs no excuse, and what
\* its request deleted it has replaced.
LEMMA PictureSafeWritten ==
  ASSUME PicturesTypeOK, ShapedAll, PicturesSafe, NEW r \in Uploaders,
         upload[r].pc \in {"insert", "save"}, Finish(r), doc.state \in {"none", "live"},
         \A f \in Fields : \/ doc'.pics[f] = upload[r].fresh[f]
                           \/ doc'.pics[f] = doc.pics[f] /\ doc.state = "live" /\ upload[r].pc = "save"
                              /\ upload[r].fresh[f] = {}
  PROVE  PicturesSafe'
<1> DEFINE p == upload[r]
<1>1. UploadsOK /\ PictureVarsOK /\ p \in Requests /\ ShapeFor(p, kind)
  BY PictureTypeParts, PictureShapes DEF UploadsOK
<1>2. /\ upload' = [upload EXCEPT ![r] = NoUpload]
      /\ UNCHANGED <<kind, store, sent, abandoned>>
  BY DEF Finish
<1>3. /\ Sorted' /\ FreshIsOwn'
      /\ \A f \in Fields : \A x \in Of(f)' : x \in Of(f)
      /\ upload'[r] = NoUpload /\ \A s \in Uploaders : s # r => upload'[s] = upload[s]
  <2>1. \A f \in Fields : doc'.pics[f] \subseteq doc.pics[f] \cup p.fresh[f]
    OBVIOUS
  <2>2. \A x : x \in store /\ x \notin AllOf(p.pics) => x \in store'
    BY <1>2
  <2>3. QED BY <1>2, <2>1, <2>2, PictureEndKeeps
<1>4. \A x : x \in Deleted => x \in Deleted' \/ x \in p.deleted
  BY <1>2, <1>3, PictureDeleted
<1>5. KnownIsThere'
  <2>1. ~Replaces(kind) => p.deleted = {}
    BY <1>1 DEF ShapeFor
  <2>2. ~Replaces(kind) => \A f \in Fields : \A x \in Of(f) : x \in store' \/ x \in Deleted'
    BY <1>2, <1>4, <2>1, PictureThere DEF PicturesSafe
  <2>3. QED BY <1>2, <1>3, <2>2, PictureThere
<1>6. NoDangling'
  <2>1. SUFFICES ASSUME NEW x \in AllOf(doc'.pics) PROVE x \in store' \/ x \in Deleted'
    BY PictureDangling
  <2>2. PICK f \in Fields : x \in doc'.pics[f]
    BY <2>1, PictureAllOf
  <2>3. x \in Of(f)
    BY <1>3, <2>2, PictureOf
  <2>4. CASE x \in p.fresh[f]
    <3>1. CASE Replaces(kind)
      BY <1>2, <2>2, <2>4, <3>1, PictureOwn, PictureAllOf DEF PicturesSafe, Own
    <3>2. CASE ~Replaces(kind)
      <4>1. p.deleted = {}
        BY <1>1, <3>2 DEF ShapeFor
      <4>2. QED BY <1>2, <1>4, <2>3, <3>2, <4>1, PictureThere DEF PicturesSafe
    <3>3. QED BY <3>1, <3>2
  <2>5. CASE x \notin p.fresh[f]
    <3>1. x \in doc.pics[f] /\ doc.state = "live" /\ p.pc = "save" /\ p.fresh[f] = {}
      BY <2>2, <2>5
    <3>2. x \in store \/ x \in Deleted
      BY <2>2, <3>1, PictureAllOf, PictureDangling DEF PicturesSafe
    <3>3. x \notin p.deleted
      <4>1. SUFFICES ASSUME x \in p.deleted PROVE FALSE
        OBVIOUS
      <4>2. PICK g \in Fields : x \in p.pics[g]
        BY <1>1, <4>1, PictureAllOf DEF ShapeFor
      <4>3. x \in Of(g)
        BY <4>2, PictureOf
      <4>4. g = f
        BY <2>3, <4>3 DEF PicturesSafe, Sorted, Fields
      <4>5. p.fresh[f] # {}
        BY <1>1, <3>1, <4>2, <4>4 DEF ShapeFor
      <4>6. QED BY <3>1, <4>5
    <3>4. QED BY <1>2, <1>4, <3>2, <3>3
  <2>6. QED BY <2>4, <2>5
<1>7. QED BY <1>3, <1>5, <1>6 DEF PicturesSafe

LEMMA PictureSafeDocument ==
  ASSUME PicturesTypeOK, ShapedAll, PicturesSafe, NEW r \in Uploaders, ~Aborts(r),
         InsertDocument(r) \/ SaveDocument(r) \/ EraseDocument(r) \/ FlagRemoved(r) \/ ClearAvatar(r)
  PROVE  PicturesSafe'
<1> DEFINE p == upload[r]
<1>1. UploadsOK /\ PictureVarsOK /\ p \in Requests
  BY PictureTypeParts DEF UploadsOK
<1>2. ShapeFor(p, kind) /\ (p.pc = "clear" => doc.state = "removed")
  BY PictureShapes
<1>3. CASE InsertDocument(r)
  <2>1. Finish(r) /\ doc.state = "none" /\ doc'.pics = p.fresh /\ p.pc = "insert"
    BY <1>3 DEF InsertDocument, Aborts
  <2>2. QED BY <2>1, PictureSafeWritten
<1>4. CASE SaveDocument(r)
  <2>1. /\ Finish(r) /\ doc.state \in {"live", "removed"} /\ doc'.state = doc.state
        /\ doc'.pics = Merged(r) /\ p.pc = "save"
    BY <1>1, <1>4 DEF SaveDocument, Aborts, PictureVarsOK, Documents
  <2>2. \A f \in Fields : \/ doc'.pics[f] = p.fresh[f]
                          \/ doc'.pics[f] = doc.pics[f] /\ p.fresh[f] = {}
    BY <2>1 DEF Merged
  <2>3. CASE doc.state = "live"
    BY <2>1, <2>2, <2>3, PictureSafeWritten
  <2>4. CASE doc.state = "removed"
    <3>1. \A f \in Fields : doc'.pics[f] \subseteq doc.pics[f] \cup p.fresh[f]
      BY <2>2
    <3>2. UNCHANGED <<kind, sent, store>> /\ upload' = [upload EXCEPT ![r] = NoUpload]
      BY <2>1 DEF Finish
    <3>3. QED BY <2>1, <2>4, <3>1, <3>2, PictureSafeAway
  <2>5. QED BY <2>1, <2>3, <2>4
<1>5. CASE EraseDocument(r)
  <2>1. doc'.state = "gone" /\ doc'.pics = NoPictures
    BY <1>1, <1>5 DEF EraseDocument, PictureVarsOK, Documents
  <2>2. UNCHANGED <<kind, sent, store>> /\ upload' = [upload EXCEPT ![r] = NoUpload]
    BY <1>5 DEF EraseDocument, Finish
  <2>3. \A f \in Fields : doc'.pics[f] \subseteq doc.pics[f] \cup p.fresh[f]
    BY <2>1, PictureNothing
  <2>4. QED BY <2>1, <2>2, <2>3, PictureSafeAway
<1>6. CASE FlagRemoved(r)
  <2>1. doc'.state = "removed" /\ doc'.pics = doc.pics /\ UNCHANGED <<kind, store, sent, abandoned>>
    BY <1>1, <1>6 DEF FlagRemoved, PictureVarsOK, Documents
  <2>2. PICK q : Becomes(r, q) /\ Continues(p, q, "clear", p.deleted)
    BY <1>1, <1>6, PictureContinues, PictureRequest DEF FlagRemoved
  <2>3. upload'[r] = q /\ \A s \in Uploaders : s # r => upload'[s] = upload[s]
    BY <1>1, <2>2, PictureBecomes
  <2>4. \A s \in Uploaders : upload'[s].pics = upload[s].pics /\ upload'[s].fresh = upload[s].fresh
    BY <2>2, <2>3 DEF Continues
  <2>5. \A f \in Fields : \A x \in Of(f)' : x \in Of(f)
    BY <2>1, <2>4, PictureOf
  <2>6. Sorted'
    BY <1>1, <2>1, <2>5, PictureSortedShrinks, PicturesAssumption DEF PicturesSafe, PictureVarsOK
  <2>7. FreshIsOwn'
    BY <2>1, <2>4, PictureOwn DEF Own, PicturesSafe
  <2>8. KnownIsThere' /\ NoDangling'
    BY <2>1, PictureThere, PictureDangling
  <2>9. QED BY <2>6, <2>7, <2>8 DEF PicturesSafe
<1>7. CASE ClearAvatar(r)
  <2>1. /\ doc' = doc /\ UNCHANGED <<kind, sent>> /\ upload' = [upload EXCEPT ![r] = NoUpload]
        /\ \A x : x \in store /\ x \notin AllOf(upload[r].pics) => x \in store'
        /\ doc.state = "removed"
    BY <1>2, <1>7 DEF ClearAvatar
  <2>2. QED BY <2>1, PictureSafeAway
<1>8. QED BY <1>3, <1>4, <1>5, <1>6, <1>7

LEMMA PictureSafeCrash ==
  ASSUME PicturesTypeOK, PicturesSafe, DropBusiness \/ Crash
  PROVE  PicturesSafe'
<1>1. PictureVarsOK /\ sent \in Nat
  BY PictureTypeParts, PicturesAssumption DEF PictureVarsOK
<1>2. CASE DropBusiness
  <2>1. /\ doc'.state = "gone" /\ doc'.pics = NoPictures
        /\ UNCHANGED <<kind, store, sent, upload, abandoned>>
    BY <1>1, <1>2 DEF DropBusiness, PictureVarsOK, Documents
  <2>2. \A f \in Fields : \A x \in Of(f)' : x \in Of(f)
    BY <2>1, PictureOf, PictureNothing
  <2>3. Sorted'
    BY <1>1, <2>1, <2>2, PictureSortedShrinks DEF PicturesSafe
  <2>4. FreshIsOwn'
    BY <2>1, PictureOwn, PictureNothing DEF PicturesSafe, Own
  <2>5. KnownIsThere' /\ NoDangling'
    BY <2>1, PictureThere, PictureDangling
  <2>6. QED BY <2>3, <2>4, <2>5 DEF PicturesSafe
<1>3. CASE Crash
  <2>1. /\ UNCHANGED <<kind, doc, store, sent>>
        /\ \A s \in Uploaders : upload'[s] = NoUpload
        /\ abandoned' = abandoned \cup UNION {upload[s].deleted : s \in Uploaders}
    BY <1>3 DEF Crash
  <2>2. \A f \in Fields : \A x \in Of(f)' : x \in Of(f)
    BY <2>1, PictureOf, PictureNothing
  <2>3. \A x : x \in Deleted => x \in Deleted'
    BY <2>1 DEF Deleted
  <2>4. Sorted'
    BY <1>1, <2>1, <2>2, PictureSortedShrinks DEF PicturesSafe
  <2>5. FreshIsOwn'
    BY <2>1, PictureOwn, PictureNothing
  <2>6. KnownIsThere'
    BY <2>1, <2>2, <2>3, PictureThere DEF PicturesSafe
  <2>7. NoDangling'
    BY <2>1, <2>3, PictureDangling DEF PicturesSafe
  <2>8. QED BY <2>4, <2>5, <2>6, <2>7 DEF PicturesSafe
<1>4. QED BY <1>2, <1>3

LEMMA PictureSafeStep ==
  ASSUME PicturesTypeOK, ShapedAll, PicturesSafe, [PicturesNext]_pictureVars
  PROVE  PicturesSafe'
<1>1. ASSUME NEW r \in Uploaders, Aborts(r) PROVE PicturesSafe'
  BY <1>1, PictureSafeFails DEF Aborts
<1>2. ASSUME NEW r \in Uploaders,
        \/ \E todo \in SUBSET Fields :
             StartCreate(r, todo) \/ \E array \in BOOLEAN : StartUpdate(r, todo, array)
        \/ StartRemove(r)
      PROVE  PicturesSafe'
  BY <1>2, PictureSafeStart
<1>3. ASSUME NEW r \in Uploaders, DeleteOld(r) \/ PurgePictures(r) PROVE PicturesSafe'
  BY <1>1, <1>3, PictureSafeOld
<1>4. ASSUME NEW r \in Uploaders, SendImage(r) PROVE PicturesSafe'
  BY <1>4, PictureSafeSent
<1>5. ASSUME NEW r \in Uploaders, UploadFails(r) PROVE PicturesSafe'
  BY <1>1, <1>5 DEF UploadFails, Aborts
<1>6. ASSUME NEW r \in Uploaders, InsertDocument(r) \/ SaveDocument(r) \/ EraseDocument(r)
                                    \/ FlagRemoved(r) \/ ClearAvatar(r)
      PROVE  PicturesSafe'
  BY <1>1, <1>6, PictureSafeDocument
<1>7. CASE DropBusiness \/ Crash
  BY <1>7, PictureSafeCrash
<1>8. CASE UNCHANGED pictureVars
  BY <1>8 DEF pictureVars, PicturesSafe, Sorted, FreshIsOwn, KnownIsThere, NoDangling, Of, Deleted, AllOf, Replaces
<1>9. QED BY <1>2, <1>3, <1>4, <1>5, <1>6, <1>7, <1>8 DEF PicturesNext

\* A live document shows a picture that no longer exists only between the
\* deletion and the save of one request, or after a request that ended in
\* between.
THEOREM DanglingIsExplained == PicturesSpec => []NoDangling
<1>1. PicturesInit => PicturesTypeOK /\ ShapedAll /\ PicturesSafe
  BY PictureTypeInit, PictureShapeInit, PictureSafeInit
<1>2. PicturesTypeOK /\ ShapedAll /\ PicturesSafe /\ [PicturesNext]_pictureVars
        => PicturesTypeOK' /\ ShapedAll' /\ PicturesSafe'
  BY PictureTypeStep, PictureSafeStep
<1>3. PicturesSafe => NoDangling
  BY DEF PicturesSafe
<1>4. QED BY <1>1, <1>2, <1>3, PTL DEF PicturesSpec

----------------------------------------------------------------------------
(* One request at a time. *)

Quiet == ~disturbed /\ kind # "user" /\ ~(kind = "business" /\ doc.state = "gone")

\* Current, of any request, document and store.
CurrentFor(p, k, d, st) ==
  /\ p.last = "insert" => d.state = "none"
  /\ p.pc \in {"delete", "upload", "save"} /\ p.last = "save" =>
       /\ d.state = "live"
       /\ \A f \in Fields : f \in p.todo \/ p.fresh[f] # {} => p.pics[f] = d.pics[f]
       /\ k = "service" => \A f \in Fields : p.fresh[f] # {} => d.pics[f] \subseteq p.fresh[f]
       /\ Replaces(k) =>
            /\ \A f \in Fields : p.fresh[f] # {} => d.pics[f] \cap st = {}
            /\ p.pc = "upload" => d.pics[NextField(p.todo)] \cap st = {}
  /\ p.pc \in {"purge", "erase", "flag"} => d.state = "live" /\ p.pics = d.pics
  /\ p.pc = "clear" => p.pics = d.pics
  /\ p.pc = "erase" => AllOf(p.pics) \cap st = {}

LEMMA PictureCurrent ==
  /\ \A r : Current(upload[r]) <=> CurrentFor(upload[r], kind, doc, store)
  /\ \A r : Current(upload[r])' <=> CurrentFor(upload'[r], kind', doc', store')
<1>1. \A r : Current(upload[r]) <=> CurrentFor(upload[r], kind, doc, store)
  BY DEF Current, CurrentFor
<1>2. \A r : Current(upload[r])' <=> CurrentFor(upload'[r], kind', doc', store')
  BY DEF Current, CurrentFor, Replaces, AllOf, NextField
<1>3. QED BY <1>1, <1>2

\* That nothing is left over.
Shown(x, ups, d) ==
  \/ \E s \in Uploaders : x \in AllOf(ups[s].fresh) \/ x \in AllOf(ups[s].pics)
  \/ d.state = "live" /\ x \in AllOf(d.pics)

LEMMA PictureShown ==
  /\ \A x : x \in Held \cup (IF doc.state = "live" THEN AllOf(doc.pics) ELSE {})
              <=> Shown(x, upload, doc)
  /\ \A x : x \in (Held \cup (IF doc.state = "live" THEN AllOf(doc.pics) ELSE {}))'
              <=> Shown(x, upload', doc')
BY DEF Held, Shown, AllOf

LEMMA PictureCalm ==
  /\ Calm <=> (Quiet =>
       /\ \A r, s \in Uploaders : InFlight(r) /\ InFlight(s) => r = s
       /\ \A r \in Uploaders : InFlight(r) => CurrentFor(upload[r], kind, doc, store)
       /\ \A x \in store : Shown(x, upload, doc))
  /\ Calm' <=> (Quiet' =>
       /\ \A r, s \in Uploaders : upload'[r].pc # "idle" /\ upload'[s].pc # "idle" => r = s
       /\ \A r \in Uploaders : upload'[r].pc # "idle" => CurrentFor(upload'[r], kind', doc', store')
       /\ \A x \in store' : Shown(x, upload', doc'))
<1>1. (store \subseteq Held \cup IF doc.state = "live" THEN AllOf(doc.pics) ELSE {})
        <=> \A x \in store : Shown(x, upload, doc)
  BY PictureShown
<1>2. (store \subseteq Held \cup IF doc.state = "live" THEN AllOf(doc.pics) ELSE {})'
        <=> \A x \in store' : Shown(x, upload', doc')
  BY PictureShown
<1>3. Calm <=> (Quiet =>
       /\ \A r, s \in Uploaders : InFlight(r) /\ InFlight(s) => r = s
       /\ \A r \in Uploaders : InFlight(r) => CurrentFor(upload[r], kind, doc, store)
       /\ \A x \in store : Shown(x, upload, doc))
  BY <1>1, PictureCurrent DEF Calm, Quiet
<1>4. Calm' <=> (Quiet' =>
       /\ \A r, s \in Uploaders : upload'[r].pc # "idle" /\ upload'[s].pc # "idle" => r = s
       /\ \A r \in Uploaders : upload'[r].pc # "idle" => CurrentFor(upload'[r], kind', doc', store')
       /\ \A x \in store' : Shown(x, upload', doc'))
  BY <1>2, PictureCurrent DEF Calm, Quiet, InFlight
<1>5. QED BY <1>3, <1>4

LEMMA PictureCalmInit == PicturesInit => Calm
BY PictureCalm, PictureNothing DEF PicturesInit, InFlight

\* A request in flight is alone, and the pictures are its or the document's.
LEMMA PictureAlone ==
  ASSUME PicturesTypeOK, Calm, Quiet, NEW r \in Uploaders, InFlight(r)
  PROVE  /\ \A s \in Uploaders : s # r => upload[s] = NoUpload
         /\ CurrentFor(upload[r], kind, doc, store)
         /\ \A x \in store : \/ x \in AllOf(upload[r].fresh) \/ x \in AllOf(upload[r].pics)
                             \/ doc.state = "live" /\ x \in AllOf(doc.pics)
<1>1. \A s \in Uploaders : s # r => upload[s] = NoUpload
  BY PictureTypeParts, PictureCalm DEF UploadsOK, InFlight
<1>2. CurrentFor(upload[r], kind, doc, store) /\ \A x \in store : Shown(x, upload, doc)
  BY PictureCalm
<1>3. QED BY <1>1, <1>2, PictureNothing DEF Shown

LEMMA PictureCalmOne ==
  ASSUME PicturesTypeOK, NEW r \in Uploaders, NEW q, Becomes(r, q),
         \A s \in Uploaders : s # r => upload[s] = NoUpload,
         q.pc # "idle" => CurrentFor(q, kind', doc', store'),
         \A x \in store' : \/ x \in AllOf(q.fresh) \/ x \in AllOf(q.pics)
                           \/ doc'.state = "live" /\ x \in AllOf(doc'.pics)
  PROVE  Calm'
<1>1. upload'[r] = q /\ \A s \in Uploaders : s # r => upload'[s] = NoUpload
  BY PictureTypeParts, PictureBecomes
<1>2. \A s \in Uploaders : upload'[s].pc # "idle" => s = r
  BY <1>1, PictureNothing
<1>3. \A x \in store' : Shown(x, upload', doc')
  BY <1>1 DEF Shown
<1>4. QED BY <1>1, <1>2, <1>3, PictureCalm

LEMMA PictureCalmStart ==
  ASSUME PicturesTypeOK, Calm, NEW r \in Uploaders,
         \/ \E todo \in SUBSET Fields :
              StartCreate(r, todo) \/ \E array \in BOOLEAN : StartUpdate(r, todo, array)
         \/ StartRemove(r)
  PROVE  Calm'
<1>1. UploadsOK /\ PictureVarsOK
  BY PictureTypeParts
<1>2. /\ UNCHANGED <<kind, doc, store>> /\ (disturbed' = (disturbed \/ \E s \in Uploaders : InFlight(s)))
  BY DEF StartCreate, StartUpdate, StartRemove, StartUpload
<1>3. CASE ~Quiet'
  BY <1>3, PictureCalm
<1>4. CASE Quiet'
  <2>1. Quiet /\ \A s \in Uploaders : ~InFlight(s)
    BY <1>2, <1>4 DEF Quiet
  <2>2. \A s \in Uploaders : upload[s] = NoUpload
    BY <1>1, <2>1 DEF UploadsOK, InFlight
  <2>3. \A x \in store : doc.state = "live" /\ x \in AllOf(doc.pics)
    BY <2>1, <2>2, PictureCalm, PictureNothing DEF Shown
  <2>4. ASSUME NEW q, Becomes(r, q), CurrentFor(q, kind, doc, store) PROVE Calm'
    BY <1>2, <2>2, <2>3, <2>4, PictureCalmOne
  <2>5. CASE \E todo \in SUBSET Fields : StartCreate(r, todo)
    <3>1. PICK todo \in SUBSET Fields : StartCreate(r, todo)
      BY <2>5
    <3>2. PICK q : Becomes(r, q) /\ Started(q, "insert", todo, NoPictures)
      BY <3>1, PictureStartCreate
    <3>3. q.pc \in {"insert", "upload", "delete", "save"} /\ q.last = "insert" /\ doc.state = "none"
      BY <3>1, <3>2, PictureStep DEF Started, StartCreate
    <3>4. CurrentFor(q, kind, doc, store)
      BY <3>3 DEF CurrentFor
    <3>5. QED BY <2>4, <3>2, <3>4
  <2>6. CASE \E todo \in SUBSET Fields : \E array \in BOOLEAN : StartUpdate(r, todo, array)
    <3>1. PICK todo \in SUBSET Fields : \E array \in BOOLEAN : StartUpdate(r, todo, array)
      BY <2>6
    <3>2. PICK q : Becomes(r, q) /\ Started(q, "save", todo, Loaded(todo))
      BY <3>1, PictureStartUpdate
    <3>3. q.pc \in {"insert", "upload", "delete", "save"} /\ q.last = "save" /\ doc.state = "live"
      BY <3>1, <3>2, PictureStep DEF Started, StartUpdate
    <3>4. q.pc = "upload" => ~Replaces(kind)
      BY <3>2, PictureStep DEF Started
    <3>5. /\ \A f \in Fields : q.fresh[f] = {}
          /\ \A f \in Fields : f \in q.todo => q.pics[f] = doc.pics[f]
      BY <3>2, PictureNothing DEF Started, Loaded
    <3>6. CurrentFor(q, kind, doc, store)
      BY <3>3, <3>4, <3>5 DEF CurrentFor
    <3>7. QED BY <2>4, <3>2, <3>6
  <2>7. CASE StartRemove(r)
    <3>1. PICK q : /\ Becomes(r, q)
                   /\ q.pc = (IF kind = "service" THEN "purge" ELSE "flag")
                   /\ q.last = "save" /\ q.pics = doc.pics
      BY <2>7, PictureStartRemove
    <3>2. doc.state = "live"
      BY <2>7 DEF StartRemove
    <3>3. CurrentFor(q, kind, doc, store)
      BY <3>1, <3>2 DEF CurrentFor
    <3>4. QED BY <2>4, <3>1, <3>3
  <2>8. QED BY <2>5, <2>6, <2>7
<1>5. QED BY <1>3, <1>4

LEMMA PictureCalmOld ==
  ASSUME PicturesTypeOK, ShapedAll, Calm, NEW r \in Uploaders, ~Aborts(r),
         DeleteOld(r) \/ PurgePictures(r)
  PROVE  Calm'
<1> DEFINE p == upload[r]
<1>1. UploadsOK /\ PictureVarsOK /\ p \in Requests /\ ShapeFor(p, kind)
  BY PictureTypeParts, PictureShapes DEF UploadsOK
<1>2. CASE ~Quiet'
  BY <1>2, PictureCalm
<1>3. CASE DeleteOld(r) /\ Quiet'
  <2> DEFINE f == NextField(p.todo)
  <2>1. PICK q, gone :
           /\ Becomes(r, q) /\ Continues(p, q, "upload", p.deleted \cup gone)
           /\ store' = store \ gone
           /\ gone = p.pics[f] \/ disturbed'
           /\ disturbed' = disturbed \/ disturbed' = TRUE
           /\ UNCHANGED <<kind, doc>>
    BY <1>3, PictureDeletes
  <2>2. Quiet /\ gone = p.pics[f] /\ InFlight(r) /\ p.pc = "delete"
    BY <1>3, <2>1, SMTT(30) DEF Quiet, InFlight, DeleteOld
  <2>3. /\ \A s \in Uploaders : s # r => upload[s] = NoUpload
        /\ CurrentFor(p, kind, doc, store)
        /\ \A x \in store : \/ x \in AllOf(p.fresh) \/ x \in AllOf(p.pics)
                            \/ doc.state = "live" /\ x \in AllOf(doc.pics)
    BY <2>2, PictureAlone
  <2>4. f \in p.todo /\ f \in Fields
    BY <1>1, <2>2, PictureOldDeleted DEF ShapeFor
  <2>5. p.last = "save"
    BY <1>1, <2>2 DEF ShapeFor
  <2>6. p.pics[f] = doc.pics[f] /\ doc.state = "live"
    BY <2>2, <2>3, <2>4, <2>5 DEF CurrentFor
  <2>7. doc.pics[f] \cap store' = {}
    BY <2>1, <2>2, <2>6
  <2>8. /\ q.pc = "upload" /\ q.last = "save" /\ q.todo = p.todo
        /\ q.pics = p.pics /\ q.fresh = p.fresh
    BY <2>1, <2>5 DEF Continues
  <2>9. NextField(q.todo) = f
    BY <2>8
  <2> HIDE DEF f
  <2>10. store' \subseteq store
    BY <2>1
  <2>11. CurrentFor(q, kind, doc, store')
    <3>1. \A g \in Fields : g \in p.todo \/ p.fresh[g] # {} => p.pics[g] = doc.pics[g]
      BY <2>2, <2>3, <2>5 DEF CurrentFor
    <3>2. kind = "service" => \A g \in Fields : p.fresh[g] # {} => doc.pics[g] \subseteq p.fresh[g]
      BY <2>2, <2>3, <2>5 DEF CurrentFor
    <3>3. Replaces(kind) => \A g \in Fields : p.fresh[g] # {} => doc.pics[g] \cap store = {}
      BY <2>2, <2>3, <2>5 DEF CurrentFor
    <3>4. Replaces(kind) => \A g \in Fields : p.fresh[g] # {} => doc.pics[g] \cap store' = {}
      BY <2>10, <3>3
    <3>5. QED BY <2>6, <2>7, <2>8, <2>9, <3>1, <3>2, <3>4 DEF CurrentFor
  <2>12. QED BY <2>1, <2>3, <2>8, <2>10, <2>11, PictureCalmOne
<1>4. CASE PurgePictures(r) /\ Quiet'
  <2>1. PICK q, gone :
           /\ Becomes(r, q) /\ Continues(p, q, "erase", gone)
           /\ store' = store \ gone
           /\ gone = AllOf(p.pics) \/ disturbed'
           /\ disturbed => disturbed'
           /\ UNCHANGED <<kind, doc>>
    BY <1>4, PicturePurges
  <2>2. Quiet /\ gone = AllOf(p.pics) /\ InFlight(r) /\ p.pc = "purge"
    BY <1>4, <2>1 DEF Quiet, InFlight, PurgePictures
  <2>3. /\ \A s \in Uploaders : s # r => upload[s] = NoUpload
        /\ CurrentFor(p, kind, doc, store)
        /\ \A x \in store : \/ x \in AllOf(p.fresh) \/ x \in AllOf(p.pics)
                            \/ doc.state = "live" /\ x \in AllOf(doc.pics)
    BY <2>2, PictureAlone
  <2>4. /\ q.pc = "erase" /\ q.last = p.last /\ q.pics = p.pics /\ q.fresh = p.fresh
    BY <2>1 DEF Continues
  <2>5. CurrentFor(q, kind, doc, store')
    BY <2>1, <2>2, <2>3, <2>4 DEF CurrentFor
  <2>6. QED BY <2>1, <2>3, <2>4, <2>5, PictureCalmOne
<1>5. QED BY <1>2, <1>3, <1>4

LEMMA PictureCalmSent ==
  ASSUME PicturesTypeOK, ShapedAll, Sorted, Calm, NEW r \in Uploaders, SendImage(r)
  PROVE  Calm'
<1> DEFINE p == upload[r]  f == NextField(p.todo)  i == sent + 1
<1>1. UploadsOK /\ PictureVarsOK /\ p \in Requests /\ ShapeFor(p, kind)
  BY PictureTypeParts, PictureShapes DEF UploadsOK
<1>2. CASE ~Quiet'
  BY <1>2, PictureCalm
<1>3. CASE Quiet'
  <2>1. UNCHANGED <<kind, doc, disturbed>> /\ store' = store \cup {i} /\ p.pc = "upload"
    BY DEF SendImage
  <2>2. Quiet /\ InFlight(r) /\ p.todo # {}
    BY <1>1, <1>3, <2>1 DEF Quiet, InFlight, ShapeFor
  <2>3. /\ \A s \in Uploaders : s # r => upload[s] = NoUpload
        /\ CurrentFor(p, kind, doc, store)
        /\ \A x \in store : \/ x \in AllOf(p.fresh) \/ x \in AllOf(p.pics)
                            \/ doc.state = "live" /\ x \in AllOf(doc.pics)
    BY <2>2, PictureAlone
  <2>4. PICK q : Becomes(r, q) /\ Writes(p, q, f, Written(r, i))
    BY PictureSent
  <2>5. f \in p.todo /\ f \in Fields /\ f \in FieldsOf(kind) /\ p.last \in {"save", "insert"}
    BY <1>1, <2>2, PictureRequest, PictureNextField DEF ShapeFor
  <2>6. i \in Written(r, i) /\ \A g \in Fields : i \notin doc.pics[g]
    <3>1. \A g \in Fields : i \notin Of(g)
      BY <1>1, PicturesAssumption DEF Sorted, PictureVarsOK
    <3>2. QED BY <3>1, PictureOf DEF Written
  <2> HIDE DEF f, i
  <2>7. /\ q.pics = p.pics /\ q.last = p.last /\ q.todo = p.todo \ {f}
        /\ q.fresh[f] = Written(r, i) /\ \A g \in Fields : g # f => q.fresh[g] = p.fresh[g]
    BY <2>4 DEF Writes
  <2>8. /\ q.pc \in {"save", "insert", "delete", "upload"}
        /\ q.pc = "upload" => ~(Replaces(kind) /\ q.last = "save")
    BY <2>4, <2>5, PictureStep DEF Writes
  <2>9. \A x \in store' : \/ x \in AllOf(q.fresh) \/ x \in AllOf(q.pics)
                          \/ doc'.state = "live" /\ x \in AllOf(doc'.pics)
    <3>1. \A x \in AllOf(p.fresh) : x \in AllOf(q.fresh)
      BY <1>1, <2>5, <2>7, PictureAllOf DEF ShapeFor
    <3>2. i \in AllOf(q.fresh)
      BY <2>5, <2>6, <2>7, PictureAllOf
    <3>3. QED BY <2>1, <2>3, <2>7, <3>1, <3>2
  <2>10. CurrentFor(q, kind, doc, store')
    <3>1. CASE q.last = "insert"
      BY <2>3, <2>7, <2>8, <3>1 DEF CurrentFor
    <3>2. CASE q.last = "save"
      <4>1. /\ doc.state = "live"
            /\ \A g \in Fields : g \in p.todo \/ p.fresh[g] # {} => p.pics[g] = doc.pics[g]
            /\ kind = "service" => \A g \in Fields : p.fresh[g] # {} => doc.pics[g] \subseteq p.fresh[g]
            /\ Replaces(kind) =>
                 /\ \A g \in Fields : p.fresh[g] # {} => doc.pics[g] \cap store = {}
                 /\ doc.pics[f] \cap store = {}
        BY <2>1, <2>3, <2>7, <3>2 DEF CurrentFor, f
      <4>2. \A g \in Fields : g \in q.todo \/ q.fresh[g] # {} => q.pics[g] = doc.pics[g]
        BY <2>5, <2>7, <4>1
      <4>3. kind = "service" => \A g \in Fields : q.fresh[g] # {} => doc.pics[g] \subseteq q.fresh[g]
        <5>1. SUFFICES ASSUME kind = "service", NEW g \in Fields, q.fresh[g] # {}
                       PROVE  doc.pics[g] \subseteq q.fresh[g]
          OBVIOUS
        <5>2. CASE g = f
          <6>1. f = "gallery"
            BY <2>5, <5>1 DEF FieldsOf
          <6>2. p.pics["gallery"] \subseteq q.fresh[f]
            BY <2>7, <5>1 DEF Written
          <6>3. QED BY <2>5, <4>1, <5>2, <6>1, <6>2
        <5>3. CASE g # f
          BY <2>7, <4>1, <5>1, <5>3
        <5>4. QED BY <5>2, <5>3
      <4>4. Replaces(kind) => \A g \in Fields : q.fresh[g] # {} => doc.pics[g] \cap store' = {}
        <5>1. SUFFICES ASSUME Replaces(kind), NEW g \in Fields, q.fresh[g] # {}
                       PROVE  doc.pics[g] \cap store' = {}
          OBVIOUS
        <5>2. doc.pics[g] \cap store = {}
          BY <2>7, <4>1, <5>1
        <5>3. QED BY <2>1, <2>6, <5>2
      <4>5. QED BY <2>8, <3>2, <4>1, <4>2, <4>3, <4>4 DEF CurrentFor
    <3>3. QED BY <2>5, <2>7, <3>1, <3>2
  <2>11. QED BY <2>1, <2>3, <2>4, <2>9, <2>10, PictureCalmOne
<1>4. QED BY <1>2, <1>3

\* The request ends, and with it the only one there was.
LEMMA PictureCalmEnds ==
  ASSUME PicturesTypeOK, NEW r \in Uploaders, upload' = [upload EXCEPT ![r] = NoUpload],
         \A s \in Uploaders : s # r => upload[s] = NoUpload,
         \A x \in store' : doc'.state = "live" /\ x \in AllOf(doc'.pics)
  PROVE  Calm'
<1>1. Becomes(r, NoUpload) /\ NoUpload.pc = "idle"
  BY PictureEnds, PictureNothing
<1>2. QED BY <1>1, PictureCalmOne

LEMMA PictureCalmDocument ==
  ASSUME PicturesTypeOK, ShapedAll, Calm, NEW r \in Uploaders,
         InsertDocument(r) \/ SaveDocument(r) \/ EraseDocument(r) \/ FlagRemoved(r) \/ ClearAvatar(r)
  PROVE  Calm'
<1> DEFINE p == upload[r]
<1>1. UploadsOK /\ PictureVarsOK /\ p \in Requests
  BY PictureTypeParts DEF UploadsOK
<1>2. ShapeFor(p, kind) /\ (p.pc = "clear" => doc.state = "removed")
  BY PictureShapes
<1>3. CASE ~Quiet'
  BY <1>3, PictureCalm
<1>4. ASSUME Quiet' PROVE Calm'
  <2>1. ~Fail(r) /\ ~disturbed'
    BY <1>4 DEF Fail, Quiet
  <2>2. ASSUME Quiet, InFlight(r)
        PROVE  /\ \A s \in Uploaders : s # r => upload[s] = NoUpload
               /\ CurrentFor(p, kind, doc, store)
               /\ \A x \in store : \/ x \in AllOf(p.fresh) \/ x \in AllOf(p.pics)
                                   \/ doc.state = "live" /\ x \in AllOf(doc.pics)
    BY <2>2, PictureAlone
  <2>3. CASE InsertDocument(r)
    <3>1. Finish(r) /\ doc.state = "none" /\ doc'.state = "live" /\ doc'.pics = p.fresh /\ p.pc = "insert"
      BY <2>1, <2>3 DEF InsertDocument
    <3>2. UNCHANGED <<kind, store, disturbed>> /\ upload' = [upload EXCEPT ![r] = NoUpload]
      BY <3>1 DEF Finish
    <3>3. Quiet /\ InFlight(r)
      BY <1>4, <3>1, <3>2 DEF Quiet, InFlight
    <3>4. AllOf(p.pics) = {}
      BY <1>2, <3>1, PictureNothing DEF ShapeFor
    <3>5. \A x \in store' : doc'.state = "live" /\ x \in AllOf(doc'.pics)
      BY <2>2, <3>1, <3>2, <3>3, <3>4
    <3>6. QED BY <2>2, <3>2, <3>3, <3>5, PictureCalmEnds
  <2>4. CASE SaveDocument(r)
    <3>1. /\ Finish(r) /\ doc'.state = doc.state /\ doc'.pics = Merged(r) /\ p.pc = "save"
      BY <1>1, <2>1, <2>4 DEF SaveDocument, PictureVarsOK, Documents
    <3>2. UNCHANGED <<kind, store, disturbed>> /\ upload' = [upload EXCEPT ![r] = NoUpload]
      BY <3>1 DEF Finish
    <3>3. Quiet /\ InFlight(r)
      BY <1>4, <3>1, <3>2 DEF Quiet, InFlight
    <3>4. p.last = "save" /\ p.todo = {}
      BY <1>2, <3>1 DEF ShapeFor
    <3>5. /\ doc.state = "live"
          /\ \A g \in Fields : p.fresh[g] # {} => p.pics[g] = doc.pics[g]
          /\ kind = "service" => \A g \in Fields : p.fresh[g] # {} => doc.pics[g] \subseteq p.fresh[g]
          /\ Replaces(kind) => \A g \in Fields : p.fresh[g] # {} => doc.pics[g] \cap store = {}
      BY <2>2, <3>1, <3>3, <3>4 DEF CurrentFor
    <3>6. \A g \in Fields : p.pics[g] # {} => p.fresh[g] # {}
      BY <1>2, <3>1, <3>4 DEF ShapeFor
    <3>7. Replaces(kind) \/ kind = "service"
      BY <1>1, <3>3 DEF Quiet, Replaces, Kinds, PictureVarsOK
    <3>8. ASSUME NEW x \in store' PROVE doc'.state = "live" /\ x \in AllOf(doc'.pics)
      <4>1. PICK g \in Fields : x \in p.fresh[g] \/ x \in p.pics[g] \/ x \in doc.pics[g]
        BY <2>2, <3>2, <3>3, <3>8, PictureAllOf
      <4>2. x \in doc'.pics[g]
        <5>1. doc'.pics[g] = IF p.fresh[g] = {} THEN doc.pics[g] ELSE p.fresh[g]
          BY <3>1 DEF Merged
        <5>2. CASE p.fresh[g] = {}
          BY <3>6, <4>1, <5>1, <5>2
        <5>3. CASE p.fresh[g] # {}
          <6>1. x \in p.fresh[g] \/ x \in doc.pics[g]
            BY <3>5, <4>1, <5>3
          <6>2. x \in doc.pics[g] => x \in p.fresh[g]
            BY <3>2, <3>5, <3>7, <3>8, <5>3
          <6>3. QED BY <5>1, <5>3, <6>1, <6>2
        <5>4. QED BY <5>2, <5>3
      <4>3. QED BY <3>1, <3>5, <4>2, PictureAllOf
    <3>9. QED BY <2>2, <3>2, <3>3, <3>8, PictureCalmEnds
  <2>5. CASE EraseDocument(r)
    <3>1. /\ Finish(r) /\ p.pc = "erase" /\ kind = "service"
      BY <1>2, <2>5 DEF EraseDocument, ShapeFor
    <3>2. UNCHANGED <<kind, store, disturbed>> /\ upload' = [upload EXCEPT ![r] = NoUpload]
      BY <3>1 DEF Finish
    <3>3. Quiet /\ InFlight(r)
      BY <1>4, <3>1, <3>2 DEF Quiet, InFlight
    <3>4. AllOf(p.fresh) = {} /\ AllOf(p.pics) \cap store = {} /\ p.pics = doc.pics
      BY <1>2, <2>2, <3>1, <3>3, PictureNothing DEF ShapeFor, CurrentFor
    <3>5. \A x : x \notin store'
      BY <2>2, <3>2, <3>3, <3>4
    <3>6. QED BY <2>2, <3>2, <3>3, <3>5, PictureCalmEnds
  <2>6. CASE FlagRemoved(r)
    <3>1. /\ doc'.state = "removed" /\ doc'.pics = doc.pics /\ p.pc = "flag" /\ kind = "staff"
          /\ UNCHANGED <<kind, store, disturbed>>
      BY <1>1, <1>2, <2>6 DEF FlagRemoved, PictureVarsOK, Documents, ShapeFor
    <3>2. Quiet /\ InFlight(r)
      BY <1>4, <3>1 DEF Quiet, InFlight
    <3>3. PICK q : Becomes(r, q) /\ Continues(p, q, "clear", p.deleted)
      BY <1>1, <2>6, PictureContinues, PictureRequest DEF FlagRemoved
    <3>4. p.pics = doc.pics /\ p.last = "save"
      <4>1. p.pics = doc.pics /\ (p.last = "insert" => doc.state = "none") /\ doc.state = "live"
        BY <2>2, <3>1, <3>2 DEF CurrentFor
      <4>2. QED BY <1>1, <4>1, PictureRequest
    <3>5. CurrentFor(q, kind', doc', store')
      BY <3>1, <3>3, <3>4 DEF Continues, CurrentFor
    <3>6. \A x \in store' : x \in AllOf(q.fresh) \/ x \in AllOf(q.pics)
      BY <2>2, <3>1, <3>2, <3>3, <3>4 DEF Continues
    <3>7. QED BY <2>2, <3>2, <3>3, <3>5, <3>6, PictureCalmOne
  <2>7. CASE ClearAvatar(r)
    <3>1. /\ store' = store \ AllOf(p.pics) /\ UNCHANGED <<disturbed, kind, doc>>
          /\ upload' = [upload EXCEPT ![r] = NoUpload] /\ p.pc = "clear"
      BY <2>1, <2>7 DEF ClearAvatar
    <3>2. Quiet /\ InFlight(r)
      BY <1>4, <3>1 DEF Quiet, InFlight
    <3>3. AllOf(p.fresh) = {} /\ doc.state # "live"
      BY <1>2, <3>1, PictureNothing DEF ShapeFor
    <3>4. \A x : x \notin store'
      BY <2>2, <3>1, <3>2, <3>3
    <3>5. QED BY <2>2, <3>1, <3>2, <3>4, PictureCalmEnds
  <2>8. QED BY <2>3, <2>4, <2>5, <2>6, <2>7
<1>5. QED BY <1>3, <1>4

LEMMA PictureCalmStep ==
  ASSUME PicturesTypeOK, ShapedAll, Sorted, Calm, [PicturesNext]_pictureVars
  PROVE  Calm'
<1>1. disturbed' => Calm'
  BY PictureCalm DEF Quiet
<1>2. ASSUME NEW r \in Uploaders, Fail(r) PROVE Calm'
  BY <1>1, <1>2 DEF Fail
<1>3. ASSUME NEW r \in Uploaders,
        \/ \E todo \in SUBSET Fields :
             StartCreate(r, todo) \/ \E array \in BOOLEAN : StartUpdate(r, todo, array)
        \/ StartRemove(r)
      PROVE  Calm'
  BY <1>3, PictureCalmStart
<1>4. ASSUME NEW r \in Uploaders, DeleteOld(r) \/ PurgePictures(r) PROVE Calm'
  BY <1>2, <1>4, PictureCalmOld DEF Aborts
<1>5. ASSUME NEW r \in Uploaders, SendImage(r) PROVE Calm'
  BY <1>5, PictureCalmSent
<1>6. ASSUME NEW r \in Uploaders, UploadFails(r) PROVE Calm'
  BY <1>2, <1>6 DEF UploadFails
<1>7. ASSUME NEW r \in Uploaders, InsertDocument(r) \/ SaveDocument(r) \/ EraseDocument(r)
                                    \/ FlagRemoved(r) \/ ClearAvatar(r)
      PROVE  Calm'
  BY <1>7, PictureCalmDocument
<1>8. CASE DropBusiness
  <2>1. kind' = "business" /\ doc'.state = "gone"
    BY <1>8, PictureTypeParts DEF DropBusiness, PictureVarsOK, Documents
  <2>2. QED BY <2>1, PictureCalm DEF Quiet
<1>9. CASE Crash
  BY <1>1, <1>9 DEF Crash
<1>10. CASE UNCHANGED pictureVars
  <2>1. UNCHANGED <<kind, doc, store, upload, disturbed>>
    BY <1>10 DEF pictureVars
  <2>2. Quiet' <=> Quiet
    BY <2>1 DEF Quiet
  <2>3. QED BY <2>1, <2>2, PictureCalm DEF InFlight
<1>11. QED BY <1>3, <1>4, <1>5, <1>6, <1>7, <1>8, <1>9, <1>10 DEF PicturesNext

\* As long as no requests overlap and no step fails, no picture is left at
\* Cloudinary that no document shows, but for the two exceptions the code makes.
THEOREM NothingLeaks == PicturesSpec => []NoLeak
<1>1. PicturesInit => PicturesTypeOK /\ ShapedAll /\ PicturesSafe /\ Calm
  BY PictureTypeInit, PictureShapeInit, PictureSafeInit, PictureCalmInit
<1>2. PicturesTypeOK /\ ShapedAll /\ PicturesSafe /\ Calm /\ [PicturesNext]_pictureVars
        => PicturesTypeOK' /\ ShapedAll' /\ PicturesSafe' /\ Calm'
  BY PictureTypeStep, PictureSafeStep, PictureCalmStep DEF PicturesSafe
<1>3. Calm => NoLeak
  BY DEF Calm, NoLeak
<1>4. QED BY <1>1, <1>2, <1>3, PTL DEF PicturesSpec
=============================================================================
