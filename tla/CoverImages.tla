---------------------------- MODULE CoverImages ----------------------------
(***************************************************************************)
(* Cover images of events.  The row of an event holds a URL, the image is    *)
(* an object in the bucket; an upload puts a new object, writes the row and  *)
(* removes the object it read as the old one, three steps in two systems     *)
(* without a transaction.  URLs also come from clients, who may name an      *)
(* object of another event, and posters are put into the bucket at startup.  *)
(***************************************************************************)
EXTENDS EventDesk

CONSTANTS
  Objects,  \* names of objects in the bucket
  Posters,  \* the objects of the static directory
  Uploads   \* upload handlers that run at once

ASSUME CoverAssumption ==
  /\ Posters \subseteq Objects
  /\ None \notin Objects

VARIABLES
  cover,     \* cover[e]: the object cover_image_url leads to, None when it leads to none
  stored,    \* the objects in the bucket
  named,     \* the object names generated so far
  upload,    \* upload[u]: the upload handler u
  attached,  \* the process reached MinIO when it started
  shared,    \* objects whose URL a client wrote into a row, or whose row's UPDATE
             \* was applied but reported as failed (history)
  astray     \* objects nobody will remove: their cover was overwritten unread,
             \* edited away or deleted, or their upload was cut off or answered as
             \* failed (history)

cvars == <<cover, stored, named, upload, attached, shared, astray>>

Urls == Objects \cup {None}

Upload == [pc : {"idle", "put", "save", "undo", "clean"}, event : Events \cup {None},
           old : Urls, new : Objects \cup {None}]

NoUpload == [pc |-> "idle", event |-> None, old |-> None, new |-> None]

CInit ==
  /\ DeskInit
  /\ cover = [e \in Events |-> None]
  /\ attached \in BOOLEAN
  /\ stored = IF attached THEN Posters ELSE {}
  /\ named = {}
  /\ upload = [u \in Uploads |-> NoUpload]
  /\ shared = {}
  /\ astray = {}

\* URLs a client can know: the posters', and those of objects uploaded so far.
KnownUrls == Posters \cup named \cup {None}

\* extractObjectNameFromPublicURL: "" for a URL outside the bucket.
ObjectOf(url) == {url} \cap Objects

-----------------------------------------------------------------------------
(* The events table *)

CreateCovered(e, n, url) ==
  /\ url \in KnownUrls
  /\ Announce(e, n)
  /\ cover' = [cover EXCEPT ![e] = url]
  /\ shared' = shared \cup ObjectOf(url)
  /\ UNCHANGED <<stored, named, upload, attached, astray, faults, now>>

EditUrl(e, url) ==
  /\ Exists(e)
  /\ url \in KnownUrls
  /\ cover' = [cover EXCEPT ![e] = url]
  /\ shared' = shared \cup ObjectOf(url)
  /\ astray' = astray \cup ObjectOf(cover[e])
  /\ UNCHANGED <<stored, named, upload, attached, desk>>

\* The row goes, the object stays.
DeleteCovered(e) ==
  /\ Close(e)
  /\ astray' = astray \cup ObjectOf(cover[e])
  /\ UNCHANGED <<cover, stored, named, upload, attached, shared, faults, now>>

-----------------------------------------------------------------------------
(* POST /events/{id}/cover-image *)

\* GetByID.  Without storage the answer is an error at once; a picture that is
\* missing, too large or of another type is refused before the bucket is touched.
StartUpload(u, e) ==
  /\ upload[u] = NoUpload
  /\ attached
  /\ Exists(e)
  /\ upload' = [upload EXCEPT ![u] = [pc |-> "put", event |-> e, old |-> cover[e], new |-> None]]
  /\ UNCHANGED <<cover, stored, named, attached, shared, astray, desk>>

\* Mutant: the object is named like the file of the client.
PutImageAnyName(u, o) ==
  /\ upload[u].pc = "put"
  /\ stored' = stored \cup {o}
  /\ named' = named \cup {o}
  /\ upload' = [upload EXCEPT ![u] = [@ EXCEPT !.pc = "save", !.new = o]]
  /\ UNCHANGED <<cover, attached, shared, astray, desk>>

\* PutObject under covers/<event>/<new uuid>.
PutImage(u, o) ==
  /\ upload[u].pc = "put"
  /\ o \notin Posters \cup named
  /\ stored' = stored \cup {o}
  /\ named' = named \cup {o}
  /\ upload' = [upload EXCEPT ![u] = [@ EXCEPT !.pc = "save", !.new = o]]
  /\ UNCHANGED <<cover, attached, shared, astray, desk>>

\* UploadImage returns an error and the answer is 500.  MinIO did not take the
\* object, or it did and its answer was lost: nobody removes it.
PutFails(u, o) ==
  /\ upload[u].pc = "put"
  /\ o \notin Posters \cup named
  /\ Fault
  /\ upload' = [upload EXCEPT ![u] = NoUpload]
  /\ \/ UNCHANGED <<stored, named, astray>>
     \/ /\ stored' = stored \cup {o}
        /\ named' = named \cup {o}
        /\ astray' = astray \cup {o}
  /\ UNCHANGED <<cover, attached, shared, now, lvars>>

\* Mutant: a row that is gone is answered without removing the new object.
SaveCoverNoUndo(u) ==
  LET e == upload[u].event
      o == upload[u].new
  IN
  /\ upload[u].pc = "save"
  /\ IF Exists(e) THEN /\ cover' = [cover EXCEPT ![e] = o]
                       /\ upload' = [upload EXCEPT ![u] = [@ EXCEPT !.pc = "clean"]]
                       /\ astray' = astray \cup (ObjectOf(cover[e]) \ {upload[u].old})
                  ELSE /\ upload' = [upload EXCEPT ![u] = NoUpload]
                       /\ UNCHANGED <<cover, astray>>
  /\ UNCHANGED <<stored, named, attached, shared, desk>>

\* UPDATE events SET cover_image_url WHERE id: a row that is gone is an error.
SaveCover(u) ==
  LET e == upload[u].event
      o == upload[u].new
  IN
  /\ upload[u].pc = "save"
  /\ \/ /\ Exists(e)
        /\ cover' = [cover EXCEPT ![e] = o]
        /\ upload' = [upload EXCEPT ![u] = [@ EXCEPT !.pc = "clean"]]
        /\ astray' = astray \cup (ObjectOf(cover[e]) \ {upload[u].old})
     \/ /\ ~Exists(e)
        /\ upload' = [upload EXCEPT ![u] = [@ EXCEPT !.pc = "undo"]]
        /\ UNCHANGED <<cover, astray>>
  /\ UNCHANGED <<stored, named, attached, shared, desk>>

\* The UPDATE fails, or was applied and its answer is lost.
SaveFails(u) ==
  LET e == upload[u].event
      o == upload[u].new
  IN
  /\ upload[u].pc = "save"
  /\ Fault
  /\ upload' = [upload EXCEPT ![u] = [@ EXCEPT !.pc = "undo"]]
  /\ \/ UNCHANGED <<cover, shared, astray>>
     \/ /\ Exists(e)
        /\ cover' = [cover EXCEPT ![e] = o]
        /\ shared' = shared \cup {o}
        /\ astray' = astray \cup ObjectOf(cover[e])
  /\ UNCHANGED <<stored, named, attached, now, lvars>>

\* DeleteImage of the new object.
UndoPut(u) ==
  /\ upload[u].pc = "undo"
  /\ stored' = stored \ {upload[u].new}
  /\ upload' = [upload EXCEPT ![u] = NoUpload]
  /\ UNCHANGED <<cover, named, attached, shared, astray, desk>>

\* Mutant: the row is read again to find the object to remove.
CleanCurrent(u) ==
  /\ upload[u].pc = "clean"
  /\ stored' = stored \ ObjectOf(cover[upload[u].event])
  /\ upload' = [upload EXCEPT ![u] = NoUpload]
  /\ UNCHANGED <<cover, named, attached, shared, astray, desk>>

\* DeleteImage of the object that was read as the old one, a poster or another
\* event's cover as well; the answer is 200.
CleanOld(u) ==
  /\ upload[u].pc = "clean"
  /\ stored' = stored \ (ObjectOf(upload[u].old) \ {upload[u].new})
  /\ upload' = [upload EXCEPT ![u] = NoUpload]
  /\ UNCHANGED <<cover, named, attached, shared, astray, desk>>

\* What an upload that stops where it is leaves behind.
Leftover(u) ==
  (IF upload[u].pc \in {"save", "undo"} THEN {upload[u].new} ELSE {}) \cup
  (IF upload[u].pc = "clean" THEN ObjectOf(upload[u].old) ELSE {})

\* The request context ends: the step under way and all later ones fail, and the
\* results of the removals are not looked at.
Expire(u) ==
  /\ upload[u] # NoUpload
  /\ Fault
  /\ upload' = [upload EXCEPT ![u] = NoUpload]
  /\ astray' = astray \cup Leftover(u)
  /\ UNCHANGED <<cover, stored, named, attached, shared, now, lvars>>

\* The process ends and starts again.  When MinIO can be reached, the posters that
\* are missing are put back and everything else is left as it is.
RestartApi ==
  /\ Fault
  /\ attached' \in BOOLEAN
  /\ stored' = IF attached' THEN stored \cup Posters ELSE stored
  /\ upload' = [u \in Uploads |-> NoUpload]
  /\ astray' = astray \cup UNION {Leftover(u) : u \in Uploads}
  /\ UNCHANGED <<cover, named, shared, now, lvars>>

-----------------------------------------------------------------------------
UploadStep(u) == SaveCover(u) \/ SaveFails(u) \/ UndoPut(u) \/ CleanOld(u) \/ Expire(u)

CNext ==
  \/ \E e \in Events :
       \/ \E n \in Sizes, url \in KnownUrls : CreateCovered(e, n, url)
       \/ \E url \in KnownUrls : EditUrl(e, url)
       \/ DeleteCovered(e)
       \/ \E u \in Uploads : StartUpload(u, e)
  \/ \E u \in Uploads : UploadStep(u) \/ \E o \in Objects : PutImage(u, o) \/ PutFails(u, o)
  \/ RestartApi

CSpec == CInit /\ [][CNext]_<<desk, cvars>>

-----------------------------------------------------------------------------
CoversTypeOK ==
  /\ cover \in [Events -> Urls]
  /\ stored \subseteq Objects
  /\ named \subseteq Objects \ Posters
  /\ upload \in [Uploads -> Upload]
  /\ attached \in BOOLEAN
  /\ shared \subseteq Objects /\ astray \subseteq Objects

\* A cover that was uploaded is there as long as its event shows it, however the
\* uploads, deletions and edits of the event overlap; only an object whose URL a
\* client put into a row, or whose UPDATE reported a false failure, can be missing.
UploadedCoversAreThere ==
  \A e \in Events : Exists(e) => ObjectOf(cover[e]) \subseteq stored \cup shared

\* The bucket does not fill up with replaced covers: an object that no event shows
\* and no handler will remove was overwritten by an overlapping upload, edited away,
\* deleted with its event, or its upload was cut off or answered as failed although
\* the bucket took the object.
GarbageExplained ==
  \A o \in (stored \cap named) \ astray :
    \/ \E e \in Events : Exists(e) /\ cover[e] = o
    \/ \E u \in Uploads : o \in Leftover(u)
=============================================================================
