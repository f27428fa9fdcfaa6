------------------------------ MODULE Pictures ------------------------------
(***************************************************************************)
(* Documents and their pictures at Cloudinary: the logo and the gallery of *)
(* a business, the gallery of a service, the avatars of staff members and  *)
(* users.  No transaction spans MongoDB and Cloudinary: a replacement      *)
(* deletes the old picture, uploads the new one and then saves, and each   *)
(* of these steps may fail.  This is one document and the pictures that    *)
(* were ever uploaded for it.                                              *)
(*                                                                         *)
(* Mongoose saves the fields that changed.  One that is an array is set    *)
(* under the version that was loaded, which grows with it; a stale version *)
(* fails the whole save (VersionError).  Every upload sends one picture.   *)
(***************************************************************************)
EXTENDS FiniteSets, Naturals

CONSTANTS
  Uploaders,   \* requests that can be in flight at the same time
  ImageBound,  \* bound on the pictures ever uploaded
  VersionBound \* bound on the document's version

ASSUME PicturesAssumption == ImageBound \in Nat /\ VersionBound \in Nat

\* Pictures are numbered in the order of their uploads.
Images == 1..ImageBound

Kinds == {"business", "service", "staff", "user"}

Fields == {"single", "gallery"}

VARIABLES
  kind,      \* the collection
  doc,       \* the document: state, pictures of each field, version
  store,     \* the pictures at Cloudinary
  sent,      \* the number of pictures uploaded so far
  upload,    \* upload[r]: a request in flight
  disturbed, \* requests overlapped, or some step failed (a history)
  abandoned  \* pictures deleted by requests that ended before their save (a history)

pictureVars == <<kind, doc, store, sent, upload, disturbed, abandoned>>

NoPictures == [f \in Fields |-> {}]

\* A request: its next step, its last one, the fields it has yet to write, the
\* pictures and the version it loaded (those it looks at again), the pictures
\* it writes and those it deleted, and whether it sets an array.
NoUpload == [pc |-> "idle", last |-> "save", todo |-> {}, pics |-> NoPictures, version |-> 0,
             fresh |-> NoPictures, deleted |-> {}, array |-> FALSE]

Requests ==
  [pc : {"idle", "delete", "upload", "save", "insert", "purge", "erase", "flag", "clear"},
   last : {"save", "insert"}, todo : SUBSET Fields, pics : [Fields -> SUBSET Images],
   fresh : [Fields -> SUBSET Images], version : 0..VersionBound,
   deleted : SUBSET Images, array : BOOLEAN]

PicturesTypeOK ==
  /\ kind \in Kinds
  /\ doc \in [state : {"none", "live", "removed", "gone"},
              pics : [Fields -> SUBSET Images], version : 0..VersionBound]
  /\ store \subseteq 1..sent
  /\ sent \in 0..ImageBound
  /\ upload \in [Uploaders -> Requests]
  /\ \A r \in Uploaders : upload[r].pc = "idle" => upload[r] = NoUpload
  /\ disturbed \in BOOLEAN
  /\ abandoned \subseteq Images

AllOf(pics) == pics["single"] \cup pics["gallery"]

----------------------------------------------------------------------------
PicturesInit ==
  /\ kind \in Kinds
  /\ doc = [state |-> IF kind = "user" THEN "live" ELSE "none",
            pics |-> NoPictures, version |-> 0]
  /\ store = {}
  /\ sent = 0
  /\ upload = [r \in Uploaders |-> NoUpload]
  /\ disturbed = FALSE
  /\ abandoned = {}

InFlight(r) == upload[r].pc # "idle"

\* The fields a document of this kind has.
FieldsOf(k) == CASE k = "business" -> {"single", "gallery"}
                 [] k = "service" -> {"gallery"}
                 [] OTHER -> {"single"}

\* The old pictures go first, except where they are kept: a service's gallery
\* grows, and a user's old avatar is forgotten.
Replaces(k) == k \in {"business", "staff"}

\* The logo comes before the gallery.
NextField(todo) == IF "single" \in todo THEN "single" ELSE "gallery"

\* The next step of a request that still has to write these fields.
StepFor(todo, last) ==
  IF todo = {} THEN last ELSE IF Replaces(kind) /\ last = "save" THEN "delete" ELSE "upload"

StartUpload(r, request) ==
  /\ upload[r].pc = "idle"
  /\ upload' = [upload EXCEPT ![r] = request]
  /\ disturbed' = (disturbed \/ \E s \in Uploaders : InFlight(s))
  /\ UNCHANGED <<kind, doc, store, sent, abandoned>>

\* A request ends after its write.
Finish(r) ==
  /\ upload' = [upload EXCEPT ![r] = NoUpload]
  /\ UNCHANGED <<kind, store, sent, disturbed, abandoned>>

\* The step fails and the request with it.
Fail(r) ==
  /\ upload' = [upload EXCEPT ![r] = NoUpload]
  /\ disturbed' = TRUE
  /\ abandoned' = abandoned \cup upload[r].deleted
  /\ UNCHANGED <<kind, doc, sent>>

\* createBusiness, create of services and staff: the uploads and then the
\* insert.
StartCreate(r, todo) ==
  /\ doc.state = "none"
  /\ todo \subseteq FieldsOf(kind)
  /\ StartUpload(r, [NoUpload EXCEPT !.pc = StepFor(todo, "insert"),
                       !.last = "insert", !.todo = todo])

\* An update loads the document; it may set an array that holds no pictures,
\* too (opening hours, a member's schedule or services).  One that sets neither
\* makes no difference here.
StartUpdate(r, todo, array) ==
  /\ doc.state = "live"
  /\ todo \subseteq FieldsOf(kind)
  /\ todo # {} \/ array
  /\ "gallery" \in todo => array
  /\ array => kind \in {"business", "staff"} \/ "gallery" \in todo
  /\ StartUpload(r, [NoUpload EXCEPT !.pc = StepFor(todo, "save"), !.todo = todo,
                       !.pics = [f \in Fields |-> IF f \in todo THEN doc.pics[f] ELSE {}],
                       !.version = IF array THEN doc.version ELSE 0, !.array = array])

\* remove of services and of staff.
StartRemove(r) ==
  /\ doc.state = "live"
  /\ kind \in {"service", "staff"}
  /\ StartUpload(r, [NoUpload EXCEPT !.pc = IF kind = "service" THEN "purge" ELSE "flag",
                       !.pics = doc.pics])

\* A replacement that leaves the old picture where it is.
DeleteNothing(r) ==
  /\ upload[r].pc = "delete"
  /\ upload' = [upload EXCEPT ![r].pc = "upload"]
  /\ UNCHANGED <<kind, doc, store, sent, disturbed, abandoned>>

\* The loaded picture is deleted.  A business goes on without noticing that the
\* deletion failed, a staff member's request ends with it.
DeleteOld(r) ==
  LET old == upload[r].pics[NextField(upload[r].todo)] IN
  /\ upload[r].pc = "delete"
  /\ \/ /\ store' = store \ old
        /\ upload' = [upload EXCEPT ![r].pc = "upload", ![r].deleted = @ \cup old]
        /\ UNCHANGED <<kind, doc, sent, disturbed, abandoned>>
     \/ /\ kind = "business" /\ old # {}
        /\ upload' = [upload EXCEPT ![r].pc = "upload"]
        /\ disturbed' = TRUE
        /\ UNCHANGED <<kind, doc, store, sent, abandoned>>
     \/ /\ kind = "staff" /\ old # {}
        /\ UNCHANGED store
        /\ Fail(r)

\* A picture that is added to those the field had.
Added(r, i) == upload[r].pics[NextField(upload[r].todo)] \cup {i}

\* What the field becomes: a service's gallery is appended to.
Written(r, i) ==
  IF kind = "service" THEN upload[r].pics["gallery"] \cup {i} ELSE {i}

\* A field is done when its picture is uploaded.
SendImage(r) ==
  LET f == NextField(upload[r].todo)  todo == upload[r].todo \ {f}  i == sent + 1 IN
  /\ upload[r].pc = "upload"
  /\ sent < ImageBound
  /\ sent' = i
  /\ store' = store \cup {i}
  /\ upload' = [upload EXCEPT ![r].fresh[f] = Written(r, i), ![r].todo = todo,
                  ![r].pc = StepFor(todo, upload[r].last)]
  /\ UNCHANGED <<kind, doc, disturbed, abandoned>>

UploadFails(r) ==
  /\ upload[r].pc = "upload"
  /\ UNCHANGED store
  /\ Fail(r)

\* The insert, which fails when somebody else's came first.
InsertDocument(r) ==
  /\ upload[r].pc = "insert"
  /\ \/ /\ doc.state = "none"
        /\ doc' = [state |-> "live", pics |-> upload[r].fresh, version |-> 0]
        /\ Finish(r)
     \/ UNCHANGED store /\ Fail(r)

\* The pictures of the document once a request's are written.
Merged(r) == [f \in Fields |-> IF upload[r].fresh[f] = {} THEN doc.pics[f] ELSE upload[r].fresh[f]]

\* A document that is gone or an array with a stale version fails the save.
SaveDocument(r) ==
  LET stale == upload[r].array /\ upload[r].version # doc.version IN
  /\ upload[r].pc = "save"
  /\ upload[r].array => doc.version < VersionBound
  /\ \/ /\ doc.state \in {"live", "removed"} /\ ~stale
        /\ doc' = [doc EXCEPT !.pics = Merged(r),
                              !.version = IF upload[r].array THEN @ + 1 ELSE @]
        /\ Finish(r)
     \/ /\ doc.state = "gone" \/ stale
        /\ UNCHANGED store
        /\ Fail(r)

\* remove of a service: the pictures, then the document; a deletion that fails
\* goes unnoticed.
PurgePictures(r) ==
  LET old == AllOf(upload[r].pics) IN
  /\ upload[r].pc = "purge"
  /\ \E kept \in SUBSET old :
       /\ store' = store \ (old \ kept)
       /\ disturbed' = (disturbed \/ kept # {})
       /\ upload' = [upload EXCEPT ![r].pc = "erase", ![r].deleted = old \ kept]
  /\ UNCHANGED <<kind, doc, sent, abandoned>>

\* findByIdAndDelete finds nothing the second time and does not mind.
EraseDocument(r) ==
  /\ upload[r].pc = "erase"
  /\ doc' = [doc EXCEPT !.state = "gone", !.pics = NoPictures]
  /\ Finish(r)

\* remove of a staff member: the flag, then the avatar that was loaded.
FlagRemoved(r) ==
  /\ upload[r].pc = "flag"
  /\ doc' = [doc EXCEPT !.state = "removed"]
  /\ upload' = [upload EXCEPT ![r].pc = "clear"]
  /\ UNCHANGED <<kind, store, sent, disturbed, abandoned>>

ClearAvatar(r) ==
  /\ upload[r].pc = "clear"
  /\ \/ store' = store \ AllOf(upload[r].pics) /\ UNCHANGED disturbed
     \/ disturbed' = TRUE /\ UNCHANGED store
  /\ upload' = [upload EXCEPT ![r] = NoUpload]
  /\ UNCHANGED <<kind, doc, sent, abandoned>>

\* AdminService.deleteBusinessByAdmin does not know of the pictures.
DropBusiness ==
  /\ kind = "business"
  /\ doc.state = "live"
  /\ doc' = [doc EXCEPT !.state = "gone", !.pics = NoPictures]
  /\ UNCHANGED <<kind, store, sent, upload, disturbed, abandoned>>

\* The process stops.
Crash ==
  /\ \E r \in Uploaders : InFlight(r)
  /\ upload' = [r \in Uploaders |-> NoUpload]
  /\ disturbed' = TRUE
  /\ abandoned' = abandoned \cup UNION {upload[r].deleted : r \in Uploaders}
  /\ UNCHANGED <<kind, doc, store, sent>>

PicturesNext ==
  \/ \E r \in Uploaders :
       \/ \E todo \in SUBSET Fields :
            StartCreate(r, todo) \/ \E array \in BOOLEAN : StartUpdate(r, todo, array)
       \/ StartRemove(r)
       \/ DeleteOld(r) \/ SendImage(r) \/ UploadFails(r)
       \/ InsertDocument(r) \/ SaveDocument(r)
       \/ PurgePictures(r) \/ EraseDocument(r) \/ FlagRemoved(r) \/ ClearAvatar(r)
  \/ DropBusiness
  \/ Crash

PicturesSpec == PicturesInit /\ [][PicturesNext]_pictureVars

----------------------------------------------------------------------------
\* Properties.

\* A live document shows a picture that no longer exists only between the
\* deletion and the save of one request, or after a request that ended in
\* between (an upload failed, the save met a stale version, the process
\* stopped).  Requests that overlap never delete a picture that stays shown.
NoDangling ==
  doc.state = "live" =>
    AllOf(doc.pics) \ store \subseteq abandoned \cup UNION {upload[r].deleted : r \in Uploaders}

\* The pictures requests in flight will write or delete.
Held == UNION {AllOf(upload[r].fresh) \cup AllOf(upload[r].pics) : r \in Uploaders}

\* As long as no requests overlap and no step fails, no picture is left at
\* Cloudinary that no document shows, with two exceptions the code makes: the
\* old avatars of users and the pictures of a business an admin deleted.
NoLeak ==
  ~disturbed /\ kind # "user" /\ ~(kind = "business" /\ doc.state = "gone") =>
    store \subseteq Held \cup IF doc.state = "live" THEN AllOf(doc.pics) ELSE {}

----------------------------------------------------------------------------
\* The inductive invariants behind them.

\* What the next step of a request says of the rest of it.
Shaped(p) ==
  /\ p.todo \subseteq FieldsOf(kind)
  /\ \A f \in p.todo : p.fresh[f] = {}
  /\ p.pc \in {"delete", "upload"} => p.todo # {}
  /\ p.pc \in {"save", "insert"} => p.todo = {} /\ p.last = p.pc
  /\ p.pc = "delete" => Replaces(kind) /\ p.last = "save"
  /\ p.pc \in {"purge", "erase"} => kind = "service"
  /\ p.pc \in {"flag", "clear"} => kind = "staff"
  /\ p.pc \in {"purge", "erase", "flag", "clear"} => p.todo = {} /\ p.fresh = NoPictures
  /\ p.pc = "clear" => doc.state = "removed"
  /\ p.last = "insert" => p.pics = NoPictures
  /\ p.pc \in {"delete", "upload", "save"} =>
       \A f \in Fields \ p.todo : p.pics[f] # {} => p.fresh[f] # {}
  /\ p.deleted \subseteq AllOf(p.pics)
  /\ p.deleted # {} => Replaces(kind) \/ p.pc = "erase"

\* Every request is in a state its steps lead to.
ShapedAll == \A r \in Uploaders : Shaped(upload[r])

\* The pictures the document and the requests know for a field.
Of(f) == doc.pics[f] \cup UNION {upload[r].pics[f] \cup upload[r].fresh[f] : r \in Uploaders}

\* No picture is known before it is uploaded, or for two fields.
Sorted ==
  /\ \A f \in Fields : Of(f) \subseteq 1..sent
  /\ Of("single") \cap Of("gallery") = {}

\* The pictures that requests in flight, or some that ended, deleted.
Deleted == abandoned \cup UNION {upload[r].deleted : r \in Uploaders}

\* Where old pictures are deleted, nobody but its request knows a new one.
FreshIsOwn ==
  Replaces(kind) => \A r \in Uploaders :
    /\ AllOf(upload[r].fresh) \subseteq store \ AllOf(doc.pics)
    /\ \A s \in Uploaders :
         /\ AllOf(upload[r].fresh) \cap AllOf(upload[s].pics) = {}
         /\ r # s => AllOf(upload[r].fresh) \cap AllOf(upload[s].fresh) = {}

\* Where they are kept, everything that is known was deleted or is there.
KnownIsThere ==
  ~Replaces(kind) /\ doc.state \in {"none", "live"} =>
    Of("single") \cup Of("gallery") \subseteq store \cup Deleted

\* What a lone request is about is what the document still shows, and what it
\* is through with is gone.
Current(p) ==
  /\ p.last = "insert" => doc.state = "none"
  /\ p.pc \in {"delete", "upload", "save"} /\ p.last = "save" =>
       /\ doc.state = "live"
       /\ \A f \in Fields : f \in p.todo \/ p.fresh[f] # {} => p.pics[f] = doc.pics[f]
       /\ kind = "service" =>
            \A f \in Fields : p.fresh[f] # {} => doc.pics[f] \subseteq p.fresh[f]
       /\ Replaces(kind) =>
            /\ \A f \in Fields : p.fresh[f] # {} => doc.pics[f] \cap store = {}
            /\ p.pc = "upload" => doc.pics[NextField(p.todo)] \cap store = {}
  /\ p.pc \in {"purge", "erase", "flag"} => doc.state = "live" /\ p.pics = doc.pics
  /\ p.pc = "clear" => p.pics = doc.pics
  /\ p.pc = "erase" => AllOf(p.pics) \cap store = {}

\* One request at a time, and every picture is its or the document's.
Calm ==
  ~disturbed /\ kind # "user" /\ ~(kind = "business" /\ doc.state = "gone") =>
    /\ \A r, s \in Uploaders : InFlight(r) /\ InFlight(s) => r = s
    /\ \A r \in Uploaders : InFlight(r) => Current(upload[r])
    /\ store \subseteq Held \cup IF doc.state = "live" THEN AllOf(doc.pics) ELSE {}
=============================================================================
