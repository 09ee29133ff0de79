----------------------------- MODULE DeskProofs -----------------------------
(* Theorems about the work on events outside the ticket office: CoverImages,   *)
(* Moderation and Listings, for any number of events, uploads, objects,        *)
(* decisions and rows.                                                          *)
EXTENDS CoverImages, Moderation, Listings, FiniteSetTheorems, TLAPS

-----------------------------------------------------------------------------
(* Covers: why no cover that is shown gets lost *)

Putting(u) == upload[u].pc \in {"save", "undo"}

\* An upload knows the old cover of its event from the row, and its new object is
\* its own: no row, no other upload and no cover read as the old one has it, unless
\* a client took the URL.
UploadFine(u) ==
  /\ upload[u].pc = "idle" <=> upload[u] = NoUpload
  /\ ObjectOf(upload[u].old) \subseteq Posters \cup named
  /\ upload[u].pc # "idle" => upload[u].event \in Events
  /\ upload[u].pc \in {"save", "undo", "clean"} =>
       upload[u].new \in named /\ upload[u].new # upload[u].old
  /\ Putting(u) => \A e \in Events : cover[e] = upload[u].new => upload[u].new \in shared
  /\ upload[u].pc = "save" => upload[u].new \in stored \cup shared

\* The object an upload will remove is shown by its event only, and after its UPDATE
\* by none, unless a client put its URL into another row.
OldCoverKept(u) ==
  upload[u].pc \in {"put", "save", "clean"} =>
    \A e \in Events : (cover[e] = upload[u].old /\ upload[u].old \in Objects \ shared) =>
      e = upload[u].event /\ upload[u].pc # "clean"

Phases == phase \in [Events -> {"none", "open", "closed"}]

CoverInv ==
  /\ CoversTypeOK /\ Phases
  /\ shared \subseteq Posters \cup named
  /\ \A e \in Events : ObjectOf(cover[e]) \subseteq Posters \cup named
  /\ \A e, f \in Events : (cover[e] = cover[f] /\ cover[e] \in Objects \ shared) => e = f
  /\ \A u \in Uploads : UploadFine(u) /\ OldCoverKept(u)
  /\ \A u, v \in Uploads : Putting(v) =>
       /\ upload[u].old = upload[v].new => upload[v].new \in shared
       /\ (Putting(u) /\ upload[u].new = upload[v].new) => u = v
  /\ UploadedCoversAreThere
  /\ GarbageExplained

LEMMA CoverStarts == CInit => CoverInv
<1> SUFFICES ASSUME CInit PROVE CoverInv
  OBVIOUS
<1>1. /\ phase = [e \in Events |-> "none"] /\ cover = [e \in Events |-> None]
      /\ upload = [u \in Uploads |-> NoUpload] /\ named = {} /\ shared = {} /\ astray = {}
      /\ stored \subseteq Posters /\ attached \in BOOLEAN
  BY DEF CInit, DeskInit, LInit
<1>2. CoversTypeOK /\ Phases
  BY <1>1, CoverAssumption DEF CoversTypeOK, Phases, Upload, NoUpload, Urls
<1>3. ObjectOf(None) = {}
  BY CoverAssumption DEF ObjectOf
<1>4. \A u \in Uploads : UploadFine(u) /\ OldCoverKept(u)
  BY <1>1, <1>3, CoverAssumption DEF UploadFine, OldCoverKept, NoUpload, Putting
<1>5. UploadedCoversAreThere /\ GarbageExplained
  BY <1>1, <1>3 DEF UploadedCoversAreThere, GarbageExplained
<1> QED BY <1>1, <1>2, <1>3, <1>4, <1>5, CoverAssumption DEF CoverInv, Putting, NoUpload

\* A client names a cover, at the creation of the event or in an edit.
LEMMA ClientNames ==
  ASSUME CoverInv, NEW e \in Events, NEW url \in KnownUrls,
         cover' = [cover EXCEPT ![e] = url], shared' = shared \cup ObjectOf(url),
         UNCHANGED <<stored, named, upload, attached>>, Phases',
         astray' \subseteq Objects, astray \subseteq astray',
         Exists(e) => ObjectOf(cover[e]) \subseteq astray',
         \A f \in Events : f # e => phase'[f] = phase[f]
  PROVE  CoverInv'
<1>1. /\ ObjectOf(url) \subseteq Posters \cup named /\ ObjectOf(url) \subseteq Objects
      /\ url \in Urls /\ None \notin Objects
      /\ \A f \in Events : cover'[f] = IF f = e THEN url ELSE cover[f]
  BY CoverAssumption DEF CoverInv, CoversTypeOK, KnownUrls, ObjectOf, Urls
<1>2. CoversTypeOK'
  BY <1>1 DEF CoverInv, CoversTypeOK
<1>3. /\ shared' \subseteq Posters \cup named'
      /\ \A f \in Events : ObjectOf(cover'[f]) \subseteq Posters \cup named'
  BY <1>1 DEF CoverInv
<1>4. \A f, g \in Events : (cover'[f] = cover'[g] /\ cover'[f] \in Objects \ shared') => f = g
  BY <1>1 DEF CoverInv, ObjectOf
<1>5. \A u \in Uploads : UploadFine(u)'
  <2>1. ASSUME NEW u \in Uploads, Putting(u), NEW f \in Events, cover'[f] = upload[u].new
        PROVE  upload[u].new \in shared'
    <3>1. upload[u].new \in Objects
      BY <2>1 DEF CoverInv, UploadFine, Putting, CoversTypeOK
    <3> QED BY <1>1, <2>1, <3>1 DEF CoverInv, UploadFine, ObjectOf
  <2> QED BY <2>1 DEF CoverInv, UploadFine, Putting
<1>6. \A u \in Uploads : OldCoverKept(u)'
  BY <1>1 DEF CoverInv, OldCoverKept, ObjectOf
<1>7. \A u, v \in Uploads : Putting(v)' =>
        /\ upload'[u].old = upload'[v].new => upload'[v].new \in shared'
        /\ (Putting(u)' /\ upload'[u].new = upload'[v].new) => u = v
  BY DEF CoverInv, Putting
<1>8. UploadedCoversAreThere'
  BY <1>1 DEF CoverInv, UploadedCoversAreThere, Exists
<1>9. GarbageExplained'
  <2>1. ASSUME NEW o \in (stored \cap named) \ astray',
               ~ \E u \in Uploads : o \in Leftover(u)
        PROVE  \E f \in Events : phase'[f] = "open" /\ cover'[f] = o
    <3>1. PICK f \in Events : Exists(f) /\ cover[f] = o
      BY <2>1 DEF CoverInv, GarbageExplained
    <3>2. o \in ObjectOf(cover[f])
      BY <2>1, <3>1 DEF CoverInv, CoversTypeOK, ObjectOf
    <3>3. f # e
      BY <2>1, <3>1, <3>2
    <3> QED BY <1>1, <3>1, <3>3 DEF Exists
  <2>2. \A u \in Uploads : Leftover(u)' = Leftover(u)
    BY DEF Leftover, ObjectOf
  <2> QED BY <2>1, <2>2 DEF GarbageExplained, Exists
<1> QED BY <1>2, <1>3, <1>4, <1>5, <1>6, <1>7, <1>8, <1>9 DEF CoverInv

LEMMA CreateCoverInv ==
  ASSUME CoverInv, NEW e \in Events, NEW n \in Sizes, NEW url \in KnownUrls, CreateCovered(e, n, url)
  PROVE  CoverInv'
<1>1. /\ Phases' /\ ~Exists(e) /\ \A f \in Events : f # e => phase'[f] = phase[f]
  BY DEF CreateCovered, Announce, CoverInv, Phases, Exists
<1> QED BY <1>1, ClientNames DEF CreateCovered, CoverInv, CoversTypeOK

LEMMA EditCoverInv ==
  ASSUME CoverInv, NEW e \in Events, NEW url \in KnownUrls, EditUrl(e, url)
  PROVE  CoverInv'
<1>1. ObjectOf(cover[e]) \subseteq Objects
  BY DEF ObjectOf
<1>2. Phases' /\ UNCHANGED phase
  BY DEF EditUrl, desk, lvars, CoverInv, Phases
<1> QED BY <1>1, <1>2, ClientNames DEF EditUrl, CoverInv, CoversTypeOK

LEMMA DeleteCoverInv ==
  ASSUME CoverInv, NEW e \in Events, DeleteCovered(e)
  PROVE  CoverInv'
<1>1. /\ Phases' /\ \A f \in Events : Exists(f)' <=> Exists(f) /\ f # e
      /\ UNCHANGED <<cover, stored, named, upload, attached, shared>>
      /\ astray' = astray \cup ObjectOf(cover[e])
  BY DEF DeleteCovered, Close, CoverInv, Phases, Exists
<1>2. CoversTypeOK'
  BY <1>1 DEF CoverInv, CoversTypeOK, ObjectOf
<1>3. \A u \in Uploads : UploadFine(u)' /\ OldCoverKept(u)'
  BY <1>1 DEF CoverInv, UploadFine, OldCoverKept, Putting
<1>4. UploadedCoversAreThere'
  BY <1>1 DEF CoverInv, UploadedCoversAreThere
<1>5. GarbageExplained'
  <2>1. \A u \in Uploads : Leftover(u)' = Leftover(u)
    BY <1>1 DEF Leftover, ObjectOf
  <2>2. \A o \in Objects : cover[e] = o => o \in ObjectOf(cover[e])
    BY DEF ObjectOf
  <2> QED BY <1>1, <2>1, <2>2 DEF GarbageExplained, CoverInv, CoversTypeOK
<1> QED BY <1>1, <1>2, <1>3, <1>4, <1>5 DEF CoverInv, Putting

LEMMA StartCoverInv ==
  ASSUME CoverInv, NEW u \in Uploads, NEW e \in Events, StartUpload(u, e)
  PROVE  CoverInv'
<1>1. /\ UNCHANGED <<cover, stored, named, attached, shared, astray, phase>>
      /\ upload[u] = NoUpload /\ cover[e] \in Urls
      /\ \A v \in Uploads : upload'[v] = IF v = u
           THEN [pc |-> "put", event |-> e, old |-> cover[e], new |-> None] ELSE upload[v]
  BY DEF StartUpload, desk, lvars, CoverInv, CoversTypeOK
<1>2. CoversTypeOK'
  BY <1>1 DEF CoverInv, CoversTypeOK, StartUpload, Upload
<1>3. \A v \in Uploads : UploadFine(v)' /\ OldCoverKept(v)'
  BY <1>1 DEF CoverInv, UploadFine, OldCoverKept, Putting, ObjectOf, NoUpload
<1>4. \A v, w \in Uploads : Putting(w)' =>
        /\ upload'[v].old = upload'[w].new => upload'[w].new \in shared'
        /\ (Putting(v)' /\ upload'[v].new = upload'[w].new) => v = w
  BY <1>1 DEF CoverInv, UploadFine, Putting
<1>5. UploadedCoversAreThere'
  BY <1>1 DEF CoverInv, UploadedCoversAreThere, Exists
<1>6. GarbageExplained'
  <2>1. Leftover(u) = {} /\ \A v \in Uploads : v # u => Leftover(v)' = Leftover(v)
    BY <1>1 DEF Leftover, ObjectOf, NoUpload
  <2> QED BY <1>1, <2>1 DEF CoverInv, GarbageExplained, Exists
<1> QED BY <1>1, <1>2, <1>3, <1>4, <1>5, <1>6 DEF CoverInv, Phases

LEMMA NewObject ==
  ASSUME NEW x \in Upload, NEW o \in Objects
  PROVE  [x EXCEPT !.pc = "save", !.new = o] =
           [pc |-> "save", event |-> x.event, old |-> x.old, new |-> o]
<1> SUFFICES ASSUME NEW y, y = [x EXCEPT !.pc = "save", !.new = o]
             PROVE  y = [pc |-> "save", event |-> x.event, old |-> x.old, new |-> o]
  OBVIOUS
<1>1. y \in Upload /\ y.pc = "save" /\ y.event = x.event /\ y.old = x.old /\ y.new = o
  BY DEF Upload
<1>2. y = [pc |-> y.pc, event |-> y.event, old |-> y.old, new |-> y.new]
  BY <1>1 DEF Upload
<1> QED BY <1>1, <1>2

LEMMA PutCoverInv ==
  ASSUME CoverInv, NEW u \in Uploads, NEW o \in Objects, PutImage(u, o)
  PROVE  CoverInv'
<1>1. /\ UNCHANGED <<cover, attached, shared, astray, phase>>
      /\ upload[u].pc = "put" /\ upload[u].event \in Events /\ upload[u] \in Upload
      /\ upload[u].old \in Urls /\ o \notin Posters \cup named
      /\ stored' = stored \cup {o} /\ named' = named \cup {o}
  BY DEF PutImage, desk, lvars, CoverInv, CoversTypeOK, UploadFine, Upload
<1>2. \A v \in Uploads : upload'[v] = IF v = u
           THEN [pc |-> "save", event |-> upload[u].event, old |-> upload[u].old, new |-> o]
           ELSE upload[v]
  <2>1. \A v \in Uploads : upload'[v] = IF v = u
             THEN [upload[u] EXCEPT !.pc = "save", !.new = o] ELSE upload[v]
    BY DEF PutImage, CoverInv, CoversTypeOK
  <2> QED BY <1>1, <2>1, NewObject
<1>3. CoversTypeOK'
  <2>1. upload' \in [Uploads -> Upload]
    BY <1>1, <1>2 DEF CoverInv, CoversTypeOK, PutImage, Upload
  <2> QED BY <1>1, <2>1 DEF CoverInv, CoversTypeOK
<1>4. /\ \A e \in Events : cover[e] # o
      /\ \A v \in Uploads : upload[v].old # o /\ (Putting(v) => upload[v].new # o)
  BY <1>1 DEF CoverInv, UploadFine, ObjectOf, Putting
<1>5. \A v \in Uploads : UploadFine(v)'
  BY <1>1, <1>2, <1>4 DEF CoverInv, UploadFine, Putting, NoUpload
<1>6. \A v \in Uploads : OldCoverKept(v)'
  BY <1>1, <1>2 DEF CoverInv, OldCoverKept
<1>7. \A v, w \in Uploads : Putting(w)' =>
        /\ upload'[v].old = upload'[w].new => upload'[w].new \in shared'
        /\ (Putting(v)' /\ upload'[v].new = upload'[w].new) => v = w
  BY <1>1, <1>2, <1>4 DEF CoverInv, Putting
<1>8. UploadedCoversAreThere'
  BY <1>1 DEF CoverInv, UploadedCoversAreThere, Exists
<1>9. GarbageExplained'
  <2>1. /\ Leftover(u) = {} /\ o \in Leftover(u)'
        /\ \A v \in Uploads : v # u => Leftover(v)' = Leftover(v)
    BY <1>1, <1>2 DEF Leftover, ObjectOf
  <2> QED BY <1>1, <2>1 DEF CoverInv, GarbageExplained, Exists
<1> QED BY <1>1, <1>3, <1>5, <1>6, <1>7, <1>8, <1>9 DEF CoverInv, Phases

\* The row is written: its old cover, if the upload did not read it, is astray.
LEMMA SavedCoverInv ==
  ASSUME CoverInv, NEW u \in Uploads, SaveCover(u), Exists(upload[u].event)
  PROVE  CoverInv'
<1> DEFINE e == upload[u].event
           o == upload[u].new
<1>1. /\ UNCHANGED <<stored, named, attached, shared, phase>> /\ upload[u].pc = "save" /\ Putting(u)
      /\ e \in Events /\ o \in named /\ o # upload[u].old /\ o \in Objects /\ upload[u] \in Upload
      /\ astray' = astray \cup (ObjectOf(cover[e]) \ {upload[u].old})
  BY DEF SaveCover, desk, lvars, CoverInv, CoversTypeOK, UploadFine, Putting
<1>2. /\ \A f \in Events : cover'[f] = IF f = e THEN o ELSE cover[f]
      /\ \A v \in Uploads : upload'[v] = IF v = u
           THEN [pc |-> "clean", event |-> e, old |-> upload[u].old, new |-> o] ELSE upload[v]
  BY <1>1 DEF SaveCover, CoverInv, CoversTypeOK, Upload
<1>3. CoversTypeOK'
  <2>1. upload' \in [Uploads -> Upload] /\ cover' \in [Events -> Urls]
    BY <1>1, <1>2 DEF CoverInv, CoversTypeOK, SaveCover, Upload, Urls
  <2> QED BY <1>1, <2>1 DEF CoverInv, CoversTypeOK, ObjectOf
<1>4. /\ shared' \subseteq Posters \cup named'
      /\ \A f \in Events : ObjectOf(cover'[f]) \subseteq Posters \cup named'
      /\ \A f, g \in Events : (cover'[f] = cover'[g] /\ cover'[f] \in Objects \ shared') => f = g
  BY <1>1, <1>2 DEF CoverInv, UploadFine, ObjectOf
<1>5. \A v \in Uploads : UploadFine(v)'
  <2>1. UploadFine(u)'
    BY <1>1, <1>2 DEF CoverInv, UploadFine, Putting, NoUpload
  <2>2. ASSUME NEW v \in Uploads, v # u PROVE UploadFine(v)'
    BY <1>1, <1>2, <2>2 DEF CoverInv, UploadFine, Putting
  <2> QED BY <2>1, <2>2
<1>6. \A v \in Uploads : OldCoverKept(v)'
  <2>1. OldCoverKept(u)'
    BY <1>1, <1>2 DEF CoverInv, OldCoverKept
  <2>2. ASSUME NEW v \in Uploads, v # u PROVE OldCoverKept(v)'
    <3>1. upload[v].old = o => o \in shared
      BY <1>1 DEF CoverInv
    <3> QED BY <1>1, <1>2, <2>2, <3>1 DEF CoverInv, OldCoverKept
  <2> QED BY <2>1, <2>2
<1>7. \A v, w \in Uploads : Putting(w)' =>
        /\ upload'[v].old = upload'[w].new => upload'[w].new \in shared'
        /\ (Putting(v)' /\ upload'[v].new = upload'[w].new) => v = w
  BY <1>1, <1>2 DEF CoverInv, Putting
<1>8. UploadedCoversAreThere'
  BY <1>1, <1>2 DEF CoverInv, UploadedCoversAreThere, UploadFine, Exists, ObjectOf
<1>9. GarbageExplained'
  <2>1. /\ Leftover(u) = {o} /\ Leftover(u)' = ObjectOf(upload[u].old)
        /\ \A v \in Uploads : v # u => Leftover(v)' = Leftover(v)
    BY <1>1, <1>2 DEF Leftover, ObjectOf
  <2>2. ASSUME NEW q \in Objects, cover[e] = q
        PROVE  q \in astray' \/ q \in Leftover(u)'
    BY <1>1, <2>1, <2>2 DEF ObjectOf
  <2> QED BY <1>1, <1>2, <2>1, <2>2 DEF CoverInv, CoversTypeOK, GarbageExplained, Exists
<1> QED BY <1>1, <1>3, <1>4, <1>5, <1>6, <1>7, <1>8, <1>9 DEF CoverInv, Phases

\* The row was not written, or it was and the upload does not know: the new object goes.
LEMMA UnsavedCoverInv ==
  ASSUME CoverInv, NEW u \in Uploads, SaveFails(u) \/ (SaveCover(u) /\ ~Exists(upload[u].event))
  PROVE  CoverInv'
<1> DEFINE e == upload[u].event
           o == upload[u].new
<1>1. /\ UNCHANGED <<stored, named, attached, phase>> /\ upload[u].pc = "save" /\ Putting(u)
      /\ e \in Events /\ o \in named /\ o # upload[u].old /\ o \in Objects /\ upload[u] \in Upload
      /\ \/ UNCHANGED <<cover, shared, astray>>
         \/ /\ cover' = [cover EXCEPT ![e] = o] /\ shared' = shared \cup {o}
            /\ astray' = astray \cup ObjectOf(cover[e])
  BY DEF SaveFails, SaveCover, desk, lvars, CoverInv, CoversTypeOK, UploadFine, Putting
<1>2. \A v \in Uploads : upload'[v] = IF v = u
           THEN [pc |-> "undo", event |-> e, old |-> upload[u].old, new |-> o] ELSE upload[v]
  BY <1>1 DEF SaveFails, SaveCover, CoverInv, CoversTypeOK, Upload
<1>3. /\ shared \subseteq shared' /\ shared' \subseteq shared \cup {o}
      /\ astray \subseteq astray' /\ astray' \subseteq Objects
      /\ \A f \in Events :
           \/ cover'[f] = cover[f]
           \/ f = e /\ cover'[f] = o /\ o \in shared' /\ ObjectOf(cover[f]) \subseteq astray'
  BY <1>1 DEF CoverInv, CoversTypeOK, ObjectOf
<1>4. CoversTypeOK'
  <2>1. upload' \in [Uploads -> Upload] /\ cover' \in [Events -> Urls]
    BY <1>1, <1>2 DEF CoverInv, CoversTypeOK, SaveFails, SaveCover, Upload, Urls
  <2> QED BY <1>1, <1>3, <2>1 DEF CoverInv, CoversTypeOK
<1>5. /\ shared' \subseteq Posters \cup named'
      /\ \A f \in Events : ObjectOf(cover'[f]) \subseteq Posters \cup named'
      /\ \A f, g \in Events : (cover'[f] = cover'[g] /\ cover'[f] \in Objects \ shared') => f = g
  BY <1>1, <1>3 DEF CoverInv, ObjectOf
<1>6. \A v \in Uploads : UploadFine(v)' /\ OldCoverKept(v)'
  <2>1. UploadFine(u)' /\ OldCoverKept(u)'
    BY <1>1, <1>2, <1>3 DEF CoverInv, UploadFine, OldCoverKept, Putting, NoUpload
  <2>2. ASSUME NEW v \in Uploads, v # u PROVE UploadFine(v)' /\ OldCoverKept(v)'
    BY <1>1, <1>2, <1>3, <2>2 DEF CoverInv, UploadFine, OldCoverKept, Putting
  <2> QED BY <2>1, <2>2
<1>7. \A v, w \in Uploads : Putting(w)' =>
        /\ upload'[v].old = upload'[w].new => upload'[w].new \in shared'
        /\ (Putting(v)' /\ upload'[v].new = upload'[w].new) => v = w
  BY <1>1, <1>2, <1>3 DEF CoverInv, Putting
<1>8. UploadedCoversAreThere'
  BY <1>1, <1>3 DEF CoverInv, UploadedCoversAreThere, Exists, ObjectOf
<1>9. GarbageExplained'
  <2>1. \A v \in Uploads : Leftover(v)' = Leftover(v)
    BY <1>1, <1>2 DEF Leftover, ObjectOf
  <2>2. \A f \in Events, q \in Objects : (cover[f] = q /\ cover'[f] # q) => q \in astray'
    BY <1>3 DEF ObjectOf
  <2> QED BY <1>1, <1>3, <2>1, <2>2 DEF CoverInv, CoversTypeOK, GarbageExplained, Exists
<1> QED BY <1>1, <1>4, <1>5, <1>6, <1>7, <1>8, <1>9 DEF CoverInv, Phases

\* An upload ends: what it removed is shown by no row and awaited by no upload, and
\* what it leaves behind is astray.
LEMMA EndCoverInv ==
  ASSUME CoverInv, NEW u \in Uploads, upload' = [upload EXCEPT ![u] = NoUpload],
         UNCHANGED <<cover, named, attached, shared, phase>>,
         stored' \subseteq stored,
         \A e \in Events : Exists(e) => ObjectOf(cover[e]) \cap stored \subseteq stored' \cup shared,
         \A v \in Uploads : (v # u /\ upload[v].pc = "save" /\ upload[v].new \in stored) =>
           upload[v].new \in stored' \cup shared,
         astray \subseteq astray', astray' \subseteq Objects,
         Leftover(u) \cap stored' \subseteq astray'
  PROVE  CoverInv'
<1>1. \A v \in Uploads : upload'[v] = IF v = u THEN NoUpload ELSE upload[v]
  BY DEF CoverInv, CoversTypeOK
<1>2. CoversTypeOK'
  BY DEF CoverInv, CoversTypeOK, Upload, NoUpload, Urls
<1>3. ObjectOf(None) = {}
  BY CoverAssumption DEF ObjectOf
<1>4. \A v \in Uploads : UploadFine(v)' /\ OldCoverKept(v)'
  BY <1>1, <1>3, CoverAssumption DEF CoverInv, UploadFine, OldCoverKept, Putting, NoUpload
<1>5. \A v, w \in Uploads : Putting(w)' =>
        /\ upload'[v].old = upload'[w].new => upload'[w].new \in shared'
        /\ (Putting(v)' /\ upload'[v].new = upload'[w].new) => v = w
  BY <1>1, CoverAssumption DEF CoverInv, CoversTypeOK, UploadFine, Putting, NoUpload
<1>6. UploadedCoversAreThere'
  BY DEF CoverInv, UploadedCoversAreThere, Exists
<1>7. GarbageExplained'
  <2>1. \A v \in Uploads : v # u => Leftover(v)' = Leftover(v)
    BY <1>1 DEF Leftover, ObjectOf
  <2> QED BY <2>1 DEF CoverInv, GarbageExplained, Exists
<1> QED BY <1>2, <1>4, <1>5, <1>6, <1>7 DEF CoverInv, Phases

LEMMA UndoCoverInv ==
  ASSUME CoverInv, NEW u \in Uploads, UndoPut(u)
  PROVE  CoverInv'
<1>1. /\ UNCHANGED <<cover, named, attached, shared, astray, phase>> /\ Putting(u)
      /\ stored' = stored \ {upload[u].new} /\ upload' = [upload EXCEPT ![u] = NoUpload]
      /\ upload[u].pc = "undo"
  BY DEF UndoPut, desk, lvars, Putting
<1>2. \A e \in Events : ObjectOf(cover[e]) \cap stored \subseteq stored' \cup shared
  BY <1>1 DEF CoverInv, UploadFine, ObjectOf
<1>3. \A v \in Uploads : (v # u /\ upload[v].pc = "save" /\ upload[v].new \in stored) =>
        upload[v].new \in stored'
  BY <1>1 DEF CoverInv, Putting
<1>4. Leftover(u) \cap stored' = {}
  BY <1>1 DEF Leftover
<1> QED BY <1>1, <1>2, <1>3, <1>4, EndCoverInv DEF CoverInv, CoversTypeOK

LEMMA CleanCoverInv ==
  ASSUME CoverInv, NEW u \in Uploads, CleanOld(u)
  PROVE  CoverInv'
<1>1. /\ UNCHANGED <<cover, named, attached, shared, astray, phase>> /\ upload[u].pc = "clean"
      /\ stored' = stored \ ObjectOf(upload[u].old) /\ upload' = [upload EXCEPT ![u] = NoUpload]
  BY DEF CleanOld, desk, lvars, CoverInv, UploadFine, ObjectOf
<1>2. \A e \in Events : ObjectOf(cover[e]) \cap stored \subseteq stored' \cup shared
  BY <1>1 DEF CoverInv, OldCoverKept, ObjectOf
<1>3. \A v \in Uploads : (v # u /\ upload[v].pc = "save" /\ upload[v].new \in stored) =>
        upload[v].new \in stored' \cup shared
  BY <1>1 DEF CoverInv, Putting, ObjectOf
<1>4. Leftover(u) \cap stored' = {}
  BY <1>1 DEF Leftover
<1> QED BY <1>1, <1>2, <1>3, <1>4, EndCoverInv DEF CoverInv, CoversTypeOK

LEMMA LeftoverTyped ==
  ASSUME CoverInv, NEW u \in Uploads
  PROVE  Leftover(u) \subseteq Objects
  BY DEF CoverInv, CoversTypeOK, UploadFine, Leftover, ObjectOf

LEMMA ExpireCoverInv ==
  ASSUME CoverInv, NEW u \in Uploads, Expire(u)
  PROVE  CoverInv'
<1>1. Leftover(u) \subseteq Objects
  BY LeftoverTyped
<1> QED BY <1>1, EndCoverInv DEF Expire, lvars, CoverInv, CoversTypeOK

\* The object is in the bucket though the upload failed: it is new, and astray.
LEMMA StoredUnknown ==
  ASSUME CoverInv, NEW u \in Uploads, NEW o \in Objects, upload[u].pc = "put",
         o \notin Posters \cup named, upload' = [upload EXCEPT ![u] = NoUpload],
         UNCHANGED <<cover, attached, shared, phase>>,
         stored' = stored \cup {o}, named' = named \cup {o}, astray' = astray \cup {o}
  PROVE  CoverInv'
<1>1. \A v \in Uploads : upload'[v] = IF v = u THEN NoUpload ELSE upload[v]
  BY DEF CoverInv, CoversTypeOK
<1>2. CoversTypeOK'
  BY DEF CoverInv, CoversTypeOK, Upload, NoUpload, Urls
<1>3. ObjectOf(None) = {}
  BY CoverAssumption DEF ObjectOf
<1>4. \A v \in Uploads : UploadFine(v)' /\ OldCoverKept(v)'
  BY <1>1, <1>3, CoverAssumption DEF CoverInv, UploadFine, OldCoverKept, Putting, NoUpload
<1>5. \A v, w \in Uploads : Putting(w)' =>
        /\ upload'[v].old = upload'[w].new => upload'[w].new \in shared'
        /\ (Putting(v)' /\ upload'[v].new = upload'[w].new) => v = w
  BY <1>1, CoverAssumption DEF CoverInv, CoversTypeOK, UploadFine, Putting, NoUpload
<1>6. UploadedCoversAreThere'
  BY DEF CoverInv, UploadedCoversAreThere, Exists
<1>7. GarbageExplained'
  <2>1. /\ (stored' \cap named') \ astray' \subseteq (stored \cap named) \ astray
        /\ Leftover(u) = {} /\ \A v \in Uploads : v # u => Leftover(v)' = Leftover(v)
    BY <1>1 DEF Leftover, ObjectOf
  <2> QED BY <2>1 DEF CoverInv, GarbageExplained, Exists
<1> QED BY <1>2, <1>4, <1>5, <1>6, <1>7 DEF CoverInv, Phases

LEMMA PutFailsCoverInv ==
  ASSUME CoverInv, NEW u \in Uploads, NEW o \in Objects, PutFails(u, o)
  PROVE  CoverInv'
<1>1. /\ UNCHANGED <<cover, attached, shared, phase>> /\ upload[u].pc = "put"
      /\ o \notin Posters \cup named /\ upload' = [upload EXCEPT ![u] = NoUpload]
  BY DEF PutFails, lvars
<1>2. CASE UNCHANGED <<stored, named, astray>>
  <2>1. Leftover(u) = {}
    BY <1>1 DEF Leftover
  <2> QED BY <1>1, <1>2, <2>1, EndCoverInv DEF CoverInv, CoversTypeOK
<1>3. CASE stored' = stored \cup {o} /\ named' = named \cup {o} /\ astray' = astray \cup {o}
  BY <1>1, <1>3, StoredUnknown
<1> QED BY <1>2, <1>3 DEF PutFails

LEMMA RestartCoverInv ==
  ASSUME CoverInv, RestartApi
  PROVE  CoverInv'
<1>1. /\ UNCHANGED <<cover, named, shared, phase>> /\ attached' \in BOOLEAN
      /\ stored \subseteq stored' /\ stored' \subseteq stored \cup Posters
      /\ upload' = [u \in Uploads |-> NoUpload]
      /\ astray' = astray \cup UNION {Leftover(u) : u \in Uploads}
  BY DEF RestartApi, lvars
<1>2. CoversTypeOK'
  BY <1>1, LeftoverTyped, CoverAssumption DEF CoverInv, CoversTypeOK, Upload, NoUpload, Urls
<1>3. ObjectOf(None) = {}
  BY CoverAssumption DEF ObjectOf
<1>4. \A v \in Uploads : UploadFine(v)' /\ OldCoverKept(v)' /\ ~Putting(v)'
  BY <1>1, <1>3 DEF UploadFine, OldCoverKept, Putting, NoUpload
<1>5. UploadedCoversAreThere'
  BY <1>1 DEF CoverInv, UploadedCoversAreThere, Exists
<1>6. GarbageExplained'
  <2>1. stored' \cap named' \subseteq stored \cap named
    BY <1>1 DEF CoverInv, CoversTypeOK
  <2>2. \A u \in Uploads : Leftover(u) \subseteq astray'
    BY <1>1
  <2> QED BY <1>1, <2>1, <2>2 DEF CoverInv, GarbageExplained, Exists
<1> QED BY <1>1, <1>2, <1>4, <1>5, <1>6 DEF CoverInv, Phases

LEMMA CoverSteps == CoverInv /\ [CNext]_<<desk, cvars>> => CoverInv'
<1> SUFFICES ASSUME CoverInv, [CNext]_<<desk, cvars>> PROVE CoverInv'
  OBVIOUS
<1>1. ASSUME NEW e \in Events,
             \/ \E n \in Sizes, url \in KnownUrls : CreateCovered(e, n, url)
             \/ \E url \in KnownUrls : EditUrl(e, url)
             \/ DeleteCovered(e)
             \/ \E u \in Uploads : StartUpload(u, e)
      PROVE  CoverInv'
  BY <1>1, CreateCoverInv, EditCoverInv, DeleteCoverInv, StartCoverInv
<1>2. ASSUME NEW u \in Uploads,
             UploadStep(u) \/ \E o \in Objects : PutImage(u, o) \/ PutFails(u, o)
      PROVE  CoverInv'
  BY <1>2, SavedCoverInv, UnsavedCoverInv, UndoCoverInv, CleanCoverInv, ExpireCoverInv, PutCoverInv,
     PutFailsCoverInv DEF UploadStep
<1>3. CASE UNCHANGED <<desk, cvars>>
  BY <1>3 DEF desk, lvars, cvars, CoverInv, CoversTypeOK, Phases, UploadFine, OldCoverKept, Putting,
     ObjectOf, UploadedCoversAreThere, GarbageExplained, Leftover, Exists
<1> QED BY <1>1, <1>2, <1>3, RestartCoverInv DEF CNext

\* Whatever overlaps: the covers that were uploaded are there while they are shown.
THEOREM CoversKept == CSpec => []UploadedCoversAreThere
<1>1. CoverInv => UploadedCoversAreThere
  BY DEF CoverInv
<1> QED BY <1>1, CoverStarts, CoverSteps, PTL DEF CSpec

\* Every object nobody shows and nobody will remove has one of the known reasons.
THEOREM GarbageHasReason == CSpec => []GarbageExplained
<1>1. CoverInv => GarbageExplained
  BY DEF CoverInv
<1> QED BY <1>1, CoverStarts, CoverSteps, PTL DEF CSpec

\* Covers, uploads and stored objects are what they are taken for.
THEOREM CoversTyped == CSpec => []CoversTypeOK
<1>1. CoverInv => CoversTypeOK
  BY DEF CoverInv
<1> QED BY <1>1, CoverStarts, CoverSteps, PTL DEF CSpec

-----------------------------------------------------------------------------
(* Moderation: why the log tells what happened *)

\* A decision at its place: what was applied, written and mailed so far.
DecisionFine(d) ==
  /\ task[d].event \in Events => phase[task[d].event] # "none"
  /\ task[d].pc = "update" => task[d].event \in Events
  /\ task[d].pc \in {"new", "update"} => stamp[d] = 0 /\ d \notin applied
  /\ task[d].pc = "mail" => AfterLog(d) = "mail"
  /\ (d \in applied \ lost /\ Loggable(d)) => task[d].pc = "log" \/ stamp[d] > 0
  /\ (d \in applied \ lost /\ task[d].pc = "done" /\ AfterLog(d) = "mail") => d \in mailed

\* The decision r that rules event e alone: nobody else's row is missing, and once
\* r's row is there it is the newest.
Rules(r, e) ==
  /\ Writing(e) \subseteq {r}
  /\ task[r].pc # "log" => \A d \in Decisions : task[d].event = e => stamp[d] <= stamp[r]

RulingFine(e) ==
  ruling[e] # None =>
    /\ task[ruling[e]].event = e /\ task[ruling[e]].pc \in {"log", "mail", "done"}
    /\ (Exists(e) /\ ~crossed[e] /\ ruling[e] \notin lost) => Rules(ruling[e], e)

ModInv ==
  /\ Phases
  /\ ruling \in [Events -> Decisions \cup {None}]
  /\ stamp \in [Decisions -> Nat]
  /\ task \in [Decisions -> Task]
  /\ crossed \in [Events -> BOOLEAN] /\ applied \subseteq Decisions
  /\ \A d \in Decisions : DecisionFine(d)
  /\ \A e \in Events : RulingFine(e)

LEMMA ModerationStarts == MInit => ModInv
<1> SUFFICES ASSUME MInit PROVE ModInv
  OBVIOUS
<1>1. /\ phase = [e \in Events |-> "none"] /\ ruling = [e \in Events |-> None]
      /\ stamp = [d \in Decisions |-> 0] /\ applied = {} /\ crossed = [e \in Events |-> FALSE]
      /\ task = [d \in Decisions |-> [pc |-> "new", event |-> None, action |-> "none"]]
  BY DEF MInit, DeskInit, LInit
<1>2. \A d \in Decisions : DecisionFine(d)
  BY <1>1, DeskAssumption DEF DecisionFine
<1>3. \A e \in Events : RulingFine(e)
  BY <1>1 DEF RulingFine
<1> QED BY <1>1, <1>2, <1>3 DEF ModInv, Phases, Task

\* What a handler that moves on changes.
LEMMA GotoMoves ==
  ASSUME ModInv, NEW d \in Decisions, NEW pc \in {"log", "mail", "done"}, Goto(d, pc)
  PROVE  /\ task' \in [Decisions -> Task]
         /\ \A b \in Decisions : /\ task'[b].event = task[b].event /\ task'[b].action = task[b].action
                                 /\ task'[b].pc = IF b = d THEN pc ELSE task[b].pc
  BY DEF ModInv, Goto, Task

LEMMA OtherTasksFine ==
  ASSUME NEW b \in Decisions, DecisionFine(b),
         task'[b].pc = task[b].pc, task'[b].event = task[b].event, task'[b].action = task[b].action,
         stamp'[b] = stamp[b], phase' = phase, lost \subseteq lost', mailed \subseteq mailed',
         b \in applied' <=> b \in applied
  PROVE  DecisionFine(b)'
  BY DEF DecisionFine, Loggable, AfterLog, Exists

\* A handler that ends without having written a row loses its claim on the log.
LEMMA RulingsKept ==
  ASSUME ModInv, NEW d \in Decisions, UNCHANGED <<phase, ruling, crossed, stamp>>, lost \subseteq lost',
         \A b \in Decisions : task'[b].event = task[b].event /\ (b # d => task'[b].pc = task[b].pc),
         task'[d].pc \in {"mail", "done"}, task[d].pc = "log" => d \in lost'
  PROVE  \A e \in Events : RulingFine(e)'
<1> SUFFICES ASSUME NEW e \in Events, ruling[e] # None PROVE RulingFine(e)'
  BY DEF RulingFine
<1> DEFINE r == ruling[e]
<1>1. r \in Decisions /\ RulingFine(e)
  BY DEF ModInv
<1>2. Writing(e)' \subseteq Writing(e)
  BY DEF Writing
<1> QED BY <1>1, <1>2 DEF RulingFine, Rules, Exists

LEMMA SubmitModInv ==
  ASSUME ModInv, NEW e \in Events, NEW n \in Sizes, Submit(e, n)
  PROVE  ModInv'
<1>1. /\ UNCHANGED mvars /\ phase[e] = "none" /\ Phases'
      /\ \A f \in Events : phase'[f] = IF f = e THEN "open" ELSE phase[f]
  BY DEF Submit, Announce, ModInv, Phases
<1>2. \A d \in Decisions : DecisionFine(d)'
  BY <1>1 DEF ModInv, DecisionFine, Loggable, AfterLog, Exists, mvars
<1>3. \A f \in Events : RulingFine(f)'
  BY <1>1 DEF ModInv, RulingFine, DecisionFine, Rules, Writing, Exists, mvars
<1> QED BY <1>1, <1>2, <1>3 DEF ModInv, mvars

LEMMA WithdrawModInv ==
  ASSUME ModInv, NEW e \in Events, Withdraw(e)
  PROVE  ModInv'
<1>1. /\ UNCHANGED <<ruling, task, mailed, applied, lost, crossed>> /\ Phases'
      /\ \A f \in Events : phase'[f] = IF f = e THEN "closed" ELSE phase[f]
      /\ \A d \in Decisions : stamp'[d] = IF task[d].event = e THEN 0 ELSE stamp[d]
      /\ stamp' \in [Decisions -> Nat]
  BY DEF Withdraw, Close, ModInv, Phases
<1>2. \A d \in Decisions : DecisionFine(d)'
  BY <1>1 DEF ModInv, DecisionFine, Loggable, AfterLog, Exists
<1>3. ASSUME NEW f \in Events PROVE RulingFine(f)'
  BY <1>1 DEF ModInv, RulingFine, Rules, Writing, Exists
<1> QED BY <1>1, <1>2, <1>3 DEF ModInv

LEMMA ReceiveModInv ==
  ASSUME ModInv, NEW d \in Decisions, NEW e \in Events, NEW action \in {"approve", "reject"},
         Receive(d, e, action)
  PROVE  ModInv'
<1>1. /\ UNCHANGED <<ruling, stamp, mailed, applied, lost, crossed, phase>> /\ phase[e] = "open"
      /\ task[d].pc = "new" /\ task' \in [Decisions -> Task]
      /\ \A b \in Decisions : task'[b] = IF b = d THEN [pc |-> "update", event |-> e, action |-> action]
                                          ELSE task[b]
  BY DEF Receive, desk, lvars, ModInv, Task, Exists
<1>2. DecisionFine(d)'
  BY <1>1 DEF ModInv, DecisionFine
<1>3. \A b \in Decisions : DecisionFine(b)'
  BY <1>1, <1>2, OtherTasksFine DEF ModInv
<1>4. ASSUME NEW f \in Events PROVE RulingFine(f)'
  <2>1. Writing(f)' = Writing(f)
    BY <1>1 DEF Writing
  <2>2. stamp[d] = 0
    BY <1>1 DEF ModInv, DecisionFine
  <2> QED BY <1>1, <2>1, <2>2 DEF ModInv, RulingFine, Rules, Exists
<1> QED BY <1>1, <1>3, <1>4 DEF ModInv, Phases

LEMMA RoleModInv ==
  ASSUME ModInv, NEW d \in Decisions, ChangeRole(d)
  PROVE  ModInv'
<1>1. /\ UNCHANGED <<ruling, stamp, mailed, lost, crossed, phase>> /\ applied' = applied \cup {d}
      /\ task[d].pc = "new" /\ task' \in [Decisions -> Task]
      /\ \A b \in Decisions : task'[b] = IF b = d THEN [pc |-> "log", event |-> None, action |-> "role"]
                                          ELSE task[b]
  BY DEF ChangeRole, desk, lvars, ModInv, Task
<1>2. DecisionFine(d)'
  BY <1>1, DeskAssumption DEF ModInv, DecisionFine, AfterLog
<1>3. \A b \in Decisions : DecisionFine(b)'
  BY <1>1, <1>2, OtherTasksFine DEF ModInv
<1>4. ASSUME NEW f \in Events PROVE RulingFine(f)'
  <2>1. Writing(f)' = Writing(f)
    BY <1>1, DeskAssumption DEF Writing
  <2> QED BY <1>1, <2>1, DeskAssumption DEF ModInv, RulingFine, Rules, Exists
<1> QED BY <1>1, <1>3, <1>4 DEF ModInv, Phases

LEMMA DecideModInv ==
  ASSUME ModInv, NEW d \in Decisions, Decide(d)
  PROVE  ModInv'
<1> DEFINE e == task[d].event
<1>1. /\ UNCHANGED <<stamp, mailed, lost, phase>> /\ task[d].pc = "update"
      /\ d \notin applied /\ stamp[d] = 0 /\ e \in Events /\ \A b \in Decisions : DecisionFine(b)
  BY DEF Decide, desk, lvars, ModInv, DecisionFine
<1>2. CASE Exists(e) /\ e \in Events /\ Goto(d, "log")
           /\ ruling' = [ruling EXCEPT ![e] = d] /\ applied' = applied \cup {d}
           /\ crossed' = [crossed EXCEPT ![e] = Writing(e) # {}]
  <2>1. /\ task' \in [Decisions -> Task]
        /\ \A b \in Decisions : /\ task'[b].event = task[b].event /\ task'[b].action = task[b].action
                                /\ task'[b].pc = IF b = d THEN "log" ELSE task[b].pc
    BY <1>2, GotoMoves
  <2>2. DecisionFine(d)'
    BY <1>1, <1>2, <2>1 DEF DecisionFine, AfterLog
  <2>3. \A b \in Decisions : DecisionFine(b)'
    BY <1>1, <1>2, <2>1, <2>2, OtherTasksFine
  <2>4. /\ Writing(e)' = Writing(e) \cup {d}
        /\ \A f \in Events : f # e => Writing(f)' = Writing(f)
    BY <1>1, <2>1 DEF Writing
  <2>5. RulingFine(e)'
    BY <1>2, <2>1, <2>4 DEF ModInv, RulingFine, Rules
  <2>6. ASSUME NEW f \in Events, f # e PROVE RulingFine(f)'
    BY <1>1, <1>2, <2>1, <2>4, <2>6 DEF ModInv, RulingFine, Rules, Exists
  <2>7. ruling' \in [Events -> Decisions \cup {None}] /\ crossed' \in [Events -> BOOLEAN]
    BY <1>2 DEF ModInv
  <2> QED BY <1>1, <1>2, <2>1, <2>3, <2>5, <2>6, <2>7 DEF ModInv, Phases
<1>3. CASE UNCHANGED <<ruling, crossed, applied>> /\ Goto(d, "done")
  <2>1. /\ task' \in [Decisions -> Task]
        /\ \A b \in Decisions : /\ task'[b].event = task[b].event /\ task'[b].action = task[b].action
                                /\ task'[b].pc = IF b = d THEN "done" ELSE task[b].pc
    BY <1>3, GotoMoves
  <2>2. DecisionFine(d)'
    BY <1>1, <1>3, <2>1 DEF DecisionFine
  <2>3. \A b \in Decisions : DecisionFine(b)'
    BY <1>1, <1>3, <2>1, <2>2, OtherTasksFine
  <2>4. \A f \in Events : RulingFine(f)'
    BY <1>1, <1>3, <2>1, RulingsKept
  <2> QED BY <1>1, <1>3, <2>1, <2>3, <2>4 DEF ModInv, Phases
<1> QED BY <1>1, <1>2, <1>3 DEF Decide


LEMMA RecordModInv ==
  ASSUME ModInv, NEW d \in Decisions, Record(d)
  PROVE  ModInv'
<1>1. /\ UNCHANGED <<ruling, mailed, applied, lost, crossed, phase>> /\ task[d].pc = "log"
      /\ AfterLog(d) \in {"mail", "done"} /\ Goto(d, AfterLog(d))
      /\ \A b \in Decisions : DecisionFine(b)
  BY DEF Record, desk, lvars, ModInv, AfterLog
<1>2. PICK n \in 1 .. Cardinality(Decisions) :
        (\A b \in Decisions : stamp[b] < n) /\ stamp' = [stamp EXCEPT ![d] = n]
  BY DEF Record
<1>3. /\ stamp' \in [Decisions -> Nat] /\ n > 0 /\ n \in Nat
      /\ \A b \in Decisions : stamp'[b] = (IF b = d THEN n ELSE stamp[b]) /\ stamp'[b] <= n
  BY <1>2 DEF ModInv
<1>4. /\ task' \in [Decisions -> Task]
      /\ \A b \in Decisions : /\ task'[b].event = task[b].event /\ task'[b].action = task[b].action
                              /\ task'[b].pc = IF b = d THEN AfterLog(d) ELSE task[b].pc
  BY <1>1, GotoMoves
<1>5. DecisionFine(d)'
  BY <1>1, <1>3, <1>4 DEF DecisionFine, AfterLog
<1>6. \A b \in Decisions : DecisionFine(b)'
  BY <1>1, <1>3, <1>4, <1>5, OtherTasksFine
<1>7. ASSUME NEW f \in Events, ruling[f] # None PROVE RulingFine(f)'
  <2>1. ruling[f] \in Decisions /\ RulingFine(f)
    BY <1>7 DEF ModInv
  <2>2. Writing(f)' \subseteq Writing(f)
    BY <1>1, <1>4 DEF Writing
  <2>3. CASE task[d].event # f
    BY <1>1, <1>3, <1>4, <1>7, <2>1, <2>2, <2>3 DEF RulingFine, Rules, Exists
  <2>4. CASE task[d].event = f
    <3>1. d \in Writing(f)
      BY <1>1, <2>4 DEF Writing
    <3>2. Rules(ruling[f], f) => d = ruling[f]
      BY <3>1 DEF Rules
    <3> QED BY <1>1, <1>3, <1>4, <1>7, <2>1, <2>2, <3>2 DEF RulingFine, Rules, Exists
  <2> QED BY <2>3, <2>4
<1>8. \A f \in Events : RulingFine(f)'
  BY <1>1, <1>7 DEF RulingFine
<1> QED BY <1>1, <1>3, <1>4, <1>6, <1>8 DEF ModInv, Phases

LEMMA RecordFailsModInv ==
  ASSUME ModInv, NEW d \in Decisions, RecordFails(d)
  PROVE  ModInv'
<1>1. /\ UNCHANGED <<ruling, stamp, mailed, applied, crossed, phase>> /\ task[d].pc = "log"
      /\ lost' = lost \cup {d} /\ AfterLog(d) \in {"mail", "done"} /\ Goto(d, AfterLog(d))
      /\ \A b \in Decisions : DecisionFine(b)
  BY DEF RecordFails, lvars, ModInv, AfterLog
<1>2. /\ task' \in [Decisions -> Task]
      /\ \A b \in Decisions : /\ task'[b].event = task[b].event /\ task'[b].action = task[b].action
                              /\ task'[b].pc = IF b = d THEN AfterLog(d) ELSE task[b].pc
  BY <1>1, GotoMoves
<1>3. DecisionFine(d)'
  BY <1>1, <1>2 DEF DecisionFine, AfterLog
<1>4. \A b \in Decisions : DecisionFine(b)'
  BY <1>1, <1>2, <1>3, OtherTasksFine
<1>5. \A f \in Events : RulingFine(f)'
  BY <1>1, <1>2, RulingsKept
<1> QED BY <1>1, <1>2, <1>4, <1>5 DEF ModInv, Phases

LEMMA TellModInv ==
  ASSUME ModInv, NEW d \in Decisions, Tell(d)
  PROVE  ModInv'
<1>1. /\ UNCHANGED <<ruling, stamp, applied, crossed, phase>> /\ task[d].pc = "mail" /\ Goto(d, "done")
      /\ lost \subseteq lost' /\ mailed \subseteq mailed' /\ (d \in mailed' \/ d \in lost')
      /\ \A b \in Decisions : DecisionFine(b)
  BY DEF Tell, lvars, ModInv
<1>2. /\ task' \in [Decisions -> Task]
      /\ \A b \in Decisions : /\ task'[b].event = task[b].event /\ task'[b].action = task[b].action
                              /\ task'[b].pc = IF b = d THEN "done" ELSE task[b].pc
  BY <1>1, GotoMoves
<1>3. DecisionFine(d)'
  BY <1>1, <1>2 DEF DecisionFine, Loggable, Exists
<1>4. \A b \in Decisions : DecisionFine(b)'
  BY <1>1, <1>2, <1>3, OtherTasksFine
<1>5. \A f \in Events : RulingFine(f)'
  BY <1>1, <1>2, RulingsKept
<1> QED BY <1>1, <1>2, <1>4, <1>5 DEF ModInv, Phases

LEMMA CutShortModInv ==
  ASSUME ModInv, NEW d \in Decisions, CutShort(d)
  PROVE  ModInv'
<1> DEFINE e == task[d].event
<1>1. /\ UNCHANGED <<stamp, mailed, crossed, phase>> /\ task[d].pc \in {"update", "log", "mail"}
      /\ lost' = lost \cup {d} /\ Goto(d, "done") /\ \A b \in Decisions : DecisionFine(b)
  BY DEF CutShort, lvars, ModInv
<1>2. /\ task' \in [Decisions -> Task]
      /\ \A b \in Decisions : /\ task'[b].event = task[b].event /\ task'[b].action = task[b].action
                              /\ task'[b].pc = IF b = d THEN "done" ELSE task[b].pc
  BY <1>1, GotoMoves
<1>3. DecisionFine(d)'
  BY <1>1, <1>2 DEF DecisionFine
<1>4. /\ applied' \subseteq Decisions
      /\ \A b \in Decisions : b \in applied' <=> b \in applied \/ (b = d /\ applied' # applied)
  BY DEF CutShort, ModInv
<1>5. \A b \in Decisions : DecisionFine(b)'
  BY <1>1, <1>2, <1>3, <1>4, OtherTasksFine
<1>6. CASE UNCHANGED ruling
  <2>1. \A f \in Events : RulingFine(f)'
    BY <1>1, <1>2, <1>6, RulingsKept
  <2> QED BY <1>1, <1>2, <1>4, <1>5, <1>6, <2>1 DEF ModInv, Phases
<1>7. CASE task[d].pc = "update" /\ ruling' = [ruling EXCEPT ![e] = d]
  <2>1. e \in Events
    BY <1>1, <1>7 DEF DecisionFine
  <2>2. \A f \in Events : ruling'[f] = IF f = e THEN d ELSE ruling[f]
    BY <1>7 DEF ModInv
  <2>3. RulingFine(e)'
    BY <1>1, <1>2, <2>1, <2>2 DEF RulingFine
  <2>4. ASSUME NEW f \in Events, f # e PROVE RulingFine(f)'
    <3>1. Writing(f)' = Writing(f)
      BY <1>2, <1>7 DEF Writing
    <3> QED BY <1>1, <1>2, <1>7, <2>2, <2>4, <3>1 DEF ModInv, RulingFine, Rules, Exists
  <2>5. ruling' \in [Events -> Decisions \cup {None}]
    BY <1>7 DEF ModInv
  <2> QED BY <1>1, <1>2, <1>4, <1>5, <2>3, <2>4, <2>5 DEF ModInv, Phases
<1> QED BY <1>6, <1>7 DEF CutShort

LEMMA ModerationSteps == ModInv /\ [MNext]_<<desk, mvars>> => ModInv'
<1> SUFFICES ASSUME ModInv, [MNext]_<<desk, mvars>> PROVE ModInv'
  OBVIOUS
<1>1. ASSUME NEW e \in Events,
             \/ \E n \in Sizes : Submit(e, n)
             \/ Withdraw(e)
             \/ \E d \in Decisions, action \in {"approve", "reject"} : Receive(d, e, action)
      PROVE  ModInv'
  BY <1>1, SubmitModInv, WithdrawModInv, ReceiveModInv
<1>2. ASSUME NEW d \in Decisions,
             ChangeRole(d) \/ Decide(d) \/ Record(d) \/ RecordFails(d) \/ Tell(d) \/ CutShort(d)
      PROVE  ModInv'
  BY <1>2, RoleModInv, DecideModInv, RecordModInv, RecordFailsModInv, TellModInv, CutShortModInv
<1>3. CASE UNCHANGED <<desk, mvars>>
  BY <1>3 DEF desk, lvars, mvars, ModInv, Phases, DecisionFine, RulingFine, Rules, Writing, Loggable,
     AfterLog, Exists
<1> QED BY <1>1, <1>2, <1>3 DEF MNext

\* The log has no more places than decisions, and mails and losses are those of decisions.
LEMMA TrailTyped == ModInv /\ ModerationTypeOK /\ [MNext]_<<desk, mvars>> => ModerationTypeOK'
<1> SUFFICES ASSUME ModInv, ModerationTypeOK, [MNext]_<<desk, mvars>> PROVE ModerationTypeOK'
  OBVIOUS
<1>1. 0 \in 0 .. Cardinality(Decisions)
  BY DecisionsFinite, FS_CardinalityType
<1>2. stamp' \in [Decisions -> 0 .. Cardinality(Decisions)]
  <2>1. CASE \E d \in Decisions : Record(d)
    <3>1. PICK d \in Decisions, n \in 1 .. Cardinality(Decisions) : stamp' = [stamp EXCEPT ![d] = n]
      BY <2>1 DEF Record
    <3>2. n \in 0 .. Cardinality(Decisions)
      BY <1>1
    <3> QED BY <3>1, <3>2 DEF ModerationTypeOK
  <2>2. CASE \E e \in Events : Withdraw(e)
    BY <1>1, <2>2 DEF Withdraw, ModerationTypeOK
  <2>3. CASE UNCHANGED stamp
    BY <2>3 DEF ModerationTypeOK
  <2> QED BY <2>1, <2>2, <2>3 DEF MNext, Submit, Receive, ChangeRole, Decide, RecordFails, Tell,
     CutShort, mvars
<1>3. mailed' \subseteq Decisions /\ lost' \subseteq Decisions
  BY DEF ModerationTypeOK, MNext, Submit, Withdraw, Receive, ChangeRole, Decide, Record, RecordFails,
     Tell, CutShort, mvars
<1>4. ModInv'
  BY ModerationSteps
<1> QED BY <1>2, <1>3, <1>4 DEF ModInv, ModerationTypeOK

LEMMA TrailStarts == MInit => ModerationTypeOK
<1> SUFFICES ASSUME MInit PROVE ModerationTypeOK
  OBVIOUS
<1>1. ModInv
  BY ModerationStarts
<1>2. stamp = [d \in Decisions |-> 0] /\ mailed = {} /\ lost = {}
  BY DEF MInit
<1>3. 0 \in 0 .. Cardinality(Decisions)
  BY FS_CardinalityType, DecisionsFinite
<1> QED BY <1>1, <1>2, <1>3 DEF ModInv, ModerationTypeOK

\* The state of decisions keeps its types.
THEOREM ModerationTyped == MSpec => []ModerationTypeOK
  BY ModerationStarts, TrailStarts, ModerationSteps, TrailTyped, PTL DEF MSpec

\* Every decision that was applied is in the log and mailed, unless a step of it failed.
THEOREM TrailKept == MSpec => []TrailComplete
<1>1. ModInv => TrailComplete
  BY DEF ModInv, DecisionFine, TrailComplete
<1> QED BY <1>1, ModerationStarts, ModerationSteps, PTL DEF MSpec

\* The newest row of a quiet event's log is the decision its status comes from.
THEOREM NewestRowExplains == MSpec => []NewestRowRules
<1>1. ModInv => NewestRowRules
  BY DEF ModInv, RulingFine, Rules, Writing, NewestRowRules
<1> QED BY <1>1, ModerationStarts, ModerationSteps, PTL DEF MSpec

-----------------------------------------------------------------------------
(* Paged lists: a row is placed by the rows that lead it, those with a smaller *)
(* key where the list goes up and a larger one where it goes down.            *)

Ahead(up, rows, y, x) == IF up THEN rows[y].key < rows[x].key ELSE rows[y].key > rows[x].key

Leaders(up, rows, L, x) == {y \in L : Ahead(up, rows, y, x)}

Place(up, rows, L, x) == Cardinality(Leaders(up, rows, L, x))

Tied(rows, L, x) == \E y \in L \ {x} : rows[y].key = rows[x].key

\* What a query of n rows of L may answer.
TopOf(up, rows, L, n) ==
  {A \in SUBSET L :
     /\ Cardinality(A) = IF n < Cardinality(L) THEN n ELSE Cardinality(L)
     /\ \A x \in A, y \in L \ A : ~Ahead(up, rows, y, x)}

Keyed(rows) == \A x \in Rows : rows[x].key \in Nat

Up == view.list = "users"

\* While only rows join, a row that stayed and was not seen lies behind what was read,
\* or has a tie; while only rows leave, every row that was seen lies before.
PassFine(up, rows, L, r, st, left, joined) ==
  /\ st \subseteq L
  /\ ~left => \A x \in st \ r.seen : Tied(rows, L, x) \/ Place(up, rows, L, x) >= r.offset
  /\ ~joined => \A x \in r.seen \cap L : Place(up, rows, L, x) < r.offset

PassInv ==
  /\ ListingsTypeOK
  /\ reader.offset = 0 => reader.seen = {} /\ reader.twice = {}
  /\ (reader.offset > 0 /\ ~reader.over) =>
       PassFine(Up, row, Listed(row), reader, stayed, shrunk, grown)

LEMMA FiniteRows ==
  ASSUME NEW L \in SUBSET Rows
  PROVE  IsFiniteSet(L) /\ Cardinality(L) \in Nat
  BY ListingAssumption, FS_Subset, FS_CardinalityType

LEMMA RowsWithin ==
  ASSUME NEW L \in SUBSET Rows, NEW M \in SUBSET L
  PROVE  Cardinality(M) <= Cardinality(L) /\ (Cardinality(M) = Cardinality(L) => M = L)
  BY FiniteRows, FS_Subset

LEMMA LeadersAreRows ==
  ASSUME NEW up, NEW rows, NEW L \in SUBSET Rows, NEW x
  PROVE  Leaders(up, rows, L, x) \in SUBSET Rows /\ Place(up, rows, L, x) \in Nat
<1>1. Leaders(up, rows, L, x) \in SUBSET Rows
  BY DEF Leaders
<1> QED BY <1>1, FiniteRows DEF Place

\* What one page tells about a row x of the list: it is not skipped when what leads
\* it was read, not shown again when less led it, and once shown it lies before.
LEMMA PageTells ==
  ASSUME NEW up, NEW rows, Keyed(rows), NEW L \in SUBSET Rows, NEW o \in Nat, NEW n \in Nat,
         NEW A \in TopOf(up, rows, L, o), NEW S \in TopOf(up, rows, L \ A, n), NEW x \in L
  PROVE  /\ (x \notin S /\ ~Tied(rows, L, x) /\ Place(up, rows, L, x) >= o) =>
              Cardinality(S) = n /\ Place(up, rows, L, x) >= o + n
         /\ (x \in S /\ Place(up, rows, L, x) < o) => Tied(rows, L, x)
         /\ x \in S => Place(up, rows, L, x) < o + n
<1> PICK B : B = Leaders(up, rows, L, x)
  OBVIOUS
<1>1. /\ A \in SUBSET L /\ A \in SUBSET Rows /\ Cardinality(A) <= o
      /\ \A y \in A, z \in L \ A : ~Ahead(up, rows, z, y)
  BY FiniteRows DEF TopOf
<1>2. /\ S \in SUBSET (L \ A) /\ S \in SUBSET Rows /\ Cardinality(S) <= n
      /\ \A y \in S, z \in (L \ A) \ S : ~Ahead(up, rows, z, y)
  BY FiniteRows DEF TopOf
<1>3. /\ B \in SUBSET Rows /\ B \in SUBSET L /\ Cardinality(B) \in Nat
      /\ Place(up, rows, L, x) = Cardinality(B) /\ x \notin B
  <2>1. x \in Rows /\ rows[x].key \in Nat /\ ~Ahead(up, rows, x, x)
    BY DEF Keyed, Ahead
  <2> QED BY <2>1, FiniteRows DEF Leaders, Place
<1>4. Cardinality(A) \in Nat /\ Cardinality(S) \in Nat /\ IsFiniteSet(A) /\ IsFiniteSet(S)
  BY <1>1, <1>2, FiniteRows
<1>5. Cardinality(A \cup S) = Cardinality(A) + Cardinality(S) /\ A \cup S \in SUBSET Rows
  <2>1. A \cap S = {}
    BY <1>2
  <2>2. Cardinality(A \cup S) = Cardinality(A) + Cardinality(S) - Cardinality(A \cap S)
    BY <1>4, FS_Union
  <2>3. Cardinality(A \cap S) = 0
    BY <2>1, FS_EmptySet
  <2> QED BY <1>1, <1>2, <1>4, <2>2, <2>3
<1>6. ASSUME x \notin A PROVE Cardinality(A) = o
  <2>1. Cardinality(A) # Cardinality(L)
    BY <1>1, <1>6, RowsWithin
  <2> QED BY <2>1, FiniteRows DEF TopOf
<1>7. ASSUME x \notin A, x \notin S PROVE Cardinality(S) = n
  <2>1. L \ A \in SUBSET Rows /\ S \in SUBSET (L \ A) /\ S # L \ A
    BY <1>2, <1>7
  <2>2. Cardinality(S) # Cardinality(L \ A)
    BY <2>1, RowsWithin
  <2> QED BY <2>1, <2>2, FiniteRows DEF TopOf
\* Who is not in it is led by all of it, but for ties.
<1>8. ASSUME ~Tied(rows, L, x), NEW y \in L, y # x, ~Ahead(up, rows, x, y) PROVE y \in B
  <2>1. rows[y].key \in Nat /\ rows[x].key \in Nat
    BY DEF Keyed
  <2>2. rows[y].key # rows[x].key
    BY <1>8 DEF Tied
  <2>3. Ahead(up, rows, y, x)
    BY <1>8, <2>1, <2>2 DEF Ahead
  <2> QED BY <2>3 DEF Leaders
<1>9. ASSUME x \in A PROVE Cardinality(B) < o
  <2>1. B \in SUBSET A /\ B # A
    BY <1>1, <1>3, <1>9 DEF Leaders
  <2>2. Cardinality(B) <= Cardinality(A) /\ Cardinality(B) # Cardinality(A)
    BY <1>1, <2>1, RowsWithin
  <2> QED BY <1>1, <1>3, <1>4, <2>2
<1>10. ASSUME x \notin S, ~Tied(rows, L, x), Cardinality(B) >= o
       PROVE  Cardinality(S) = n /\ Cardinality(B) >= o + n
  <2>1. x \notin A
    BY <1>3, <1>9, <1>10
  <2>2. A \cup S \in SUBSET B
    <3>1. \A y \in A : y \in L /\ y # x /\ ~Ahead(up, rows, x, y)
      BY <1>1, <2>1
    <3>2. \A y \in S : y \in L /\ y # x /\ ~Ahead(up, rows, x, y)
      BY <1>2, <1>10, <2>1
    <3> QED BY <1>8, <1>10, <3>1, <3>2
  <2>3. Cardinality(A \cup S) <= Cardinality(B)
    BY <1>3, <2>2, RowsWithin
  <2> QED BY <1>3, <1>5, <1>6, <1>7, <1>10, <2>1, <2>3
<1>11. ASSUME x \in S, ~Tied(rows, L, x) PROVE Cardinality(B) >= o
  <2>1. x \notin A
    BY <1>2, <1>11
  <2>2. A \in SUBSET B
    BY <1>1, <1>8, <1>11, <2>1
  <2>3. Cardinality(A) <= Cardinality(B)
    BY <1>3, <2>2, RowsWithin
  <2> QED BY <1>6, <2>1, <2>3
<1>12. ASSUME x \in S PROVE Cardinality(B) < o + n
  <2>1. B \in SUBSET (A \cup S) /\ B # A \cup S
    BY <1>1, <1>2, <1>3, <1>12 DEF Leaders
  <2>2. Cardinality(B) <= Cardinality(A \cup S) /\ Cardinality(B) # Cardinality(A \cup S)
    BY <1>5, <2>1, RowsWithin
  <2> QED BY <1>1, <1>2, <1>3, <1>4, <1>5, <2>2
<1> QED BY <1>3, <1>10, <1>11, <1>12

\* More rows with the same keys: nobody's place gets better and no tie is lost.
LEMMA MoreRows ==
  ASSUME NEW up, NEW a, NEW b, NEW M \in SUBSET Rows, NEW L \in SUBSET M,
         \A y \in L : a[y].key = b[y].key, NEW x \in L
  PROVE  /\ Place(up, a, L, x) <= Place(up, b, M, x)
         /\ Tied(a, L, x) => Tied(b, M, x)
<1>1. Leaders(up, a, L, x) \in SUBSET Leaders(up, b, M, x)
  BY DEF Leaders, Ahead
<1>2. Place(up, a, L, x) <= Place(up, b, M, x)
  BY <1>1, LeadersAreRows, RowsWithin DEF Place
<1>3. Tied(a, L, x) => Tied(b, M, x)
  BY DEF Tied
<1> QED BY <1>2, <1>3

LEMMA PassStart == ListInit => PassInv
<1> SUFFICES ASSUME ListInit PROVE PassInv
  OBVIOUS
<1>1. ListingsTypeOK
  BY DEF ListInit, ListingsTypeOK, Row, ReaderAtStart
<1> QED BY <1>1 DEF ListInit, PassInv, ReaderAtStart

LEMMA WriteStep == ASSUME PassInv, NEW x \in Rows, NEW r \in Row, ~reader.over, Write(x, r) PROVE PassInv'
<1> PICK new : new = [row EXCEPT ![x] = r]
  OBVIOUS
<1>1. /\ row \in [Rows -> Row] /\ new \in [Rows -> Row] /\ new[x] = r
      /\ \A y \in Rows \ {x} : new[y] = row[y]
  BY DEF PassInv, ListingsTypeOK
<1>2. PICK L, M : L = Listed(row) /\ M = Listed(new)
  OBVIOUS
<1>3. L \in SUBSET Rows /\ M \in SUBSET Rows /\ \A y \in Rows \ {x} : y \in L <=> y \in M
  BY <1>1, <1>2 DEF Listed
<1>4. /\ row' = new /\ view' = view /\ reader' = reader /\ Up' = Up /\ Listed(row)' = M
  BY <1>2 DEF Write, Up, Listed, Fits
<1>5. PICK out, in : /\ out = ((x \in L /\ x \notin M) \/ row[x].key # r.key)
                     /\ in = ((x \notin L /\ x \in M) \/ row[x].key # r.key)
  OBVIOUS
<1>6. reader.offset > 0 => /\ stayed' = IF out THEN stayed \ {x} ELSE stayed
                           /\ shrunk' = (shrunk \/ (out /\ x \in L))
                           /\ grown' = (grown \/ (in /\ x \in M))
  BY <1>2, <1>5 DEF Write
<1>7. ~(reader.offset > 0) => UNCHANGED <<stayed, shrunk, grown>>
  BY DEF Write
<1>8. ListingsTypeOK'
  <2>1. stayed' \subseteq Rows /\ shrunk' \in BOOLEAN /\ grown' \in BOOLEAN
    BY <1>6, <1>7 DEF PassInv, ListingsTypeOK
  <2>2. view \in View /\ View' = View
    BY DEF PassInv, ListingsTypeOK, View, PublicView, MineView, QueueView, UsersView, LogsView
  <2> QED BY <1>1, <1>4, <2>1, <2>2 DEF PassInv, ListingsTypeOK
<1>9. ASSUME reader.offset > 0 PROVE PassFine(Up, new, M, reader, stayed', shrunk', grown')
  <2>1. PassFine(Up, row, L, reader, stayed, shrunk, grown)
    BY <1>2, <1>9 DEF PassInv
  <2>2. stayed' \subseteq M /\ stayed' \subseteq stayed
    BY <1>3, <1>5, <1>6, <1>9, <2>1 DEF PassFine
  <2>3. reader.offset \in Nat
    BY DEF PassInv, ListingsTypeOK
  <2>4. ASSUME ~shrunk', NEW z \in stayed' \ reader.seen
        PROVE  Tied(new, M, z) \/ Place(Up, new, M, z) >= reader.offset
    <3>1. z \in L /\ (Tied(row, L, z) \/ Place(Up, row, L, z) >= reader.offset)
      BY <1>6, <1>9, <2>1, <2>2, <2>4 DEF PassFine
    <3>2. x \notin L \/ (x \in M /\ row[x].key = new[x].key)
      BY <1>1, <1>5, <1>6, <1>9, <2>4
    <3>3. L \in SUBSET M /\ \A y \in L : row[y].key = new[y].key
      BY <1>1, <1>3, <3>2
    <3>4. /\ Place(Up, row, L, z) <= Place(Up, new, M, z)
          /\ Tied(row, L, z) => Tied(new, M, z)
      BY <1>3, <3>1, <3>3, MoreRows
    <3>5. Place(Up, row, L, z) \in Nat /\ Place(Up, new, M, z) \in Nat
      BY <1>3, LeadersAreRows
    <3> QED BY <2>3, <3>1, <3>4, <3>5
  <2>5. ASSUME ~grown', NEW z \in reader.seen \cap M PROVE Place(Up, new, M, z) < reader.offset
    <3>1. x \notin M \/ (x \in L /\ row[x].key = new[x].key)
      BY <1>1, <1>5, <1>6, <1>9, <2>5
    <3>2. M \in SUBSET L /\ \A y \in M : new[y].key = row[y].key
      BY <1>1, <1>3, <3>1
    <3>3. Place(Up, row, L, z) < reader.offset
      BY <1>6, <1>9, <2>1, <2>5, <3>2 DEF PassFine
    <3>4. Place(Up, new, M, z) <= Place(Up, row, L, z)
      BY <1>3, <3>2, MoreRows
    <3>5. Place(Up, row, L, z) \in Nat /\ Place(Up, new, M, z) \in Nat
      BY <1>3, LeadersAreRows
    <3> QED BY <2>3, <3>3, <3>4, <3>5
  <2> QED BY <2>2, <2>4, <2>5 DEF PassFine
<1> QED BY <1>4, <1>8, <1>9 DEF PassInv

LEMMA HeadsAreTop ==
  ASSUME NEW set, NEW n PROVE Heads(set, n) = TopOf(Up, row, set, n)
  BY DEF Heads, TopOf, Precedes, Ahead, Up

\* A page that is read: S after the rows A that were skipped.
PageRead(A, S, n) ==
  /\ n = PageSize(view.limit) /\ n \in Nat /\ n > 0
  /\ A \in TopOf(Up, row, Listed(row), reader.offset)
  /\ S \in TopOf(Up, row, Listed(row) \ A, n) /\ S \in SUBSET Listed(row)
  /\ reader' = [offset |-> reader.offset + n, seen |-> reader.seen \cup S,
                twice |-> reader.twice \cup (reader.seen \cap S), over |-> Cardinality(S) < n]

LEMMA PageIsRead ==
  ASSUME PassInv, ReadPage PROVE \E A \in SUBSET Rows, S \in SUBSET Rows, n \in Nat : PageRead(A, S, n)
<1> PICK n : n = PageSize(view.limit)
  OBVIOUS
<1>1. n \in Nat /\ n > 0
  <2>1. view.limit \in Limits
    BY DEF PassInv, ListingsTypeOK, View, PublicView, MineView, QueueView, UsersView, LogsView
  <2> QED BY <2>1, ListingAssumption DEF PageSize
<1>2. PICK S \in Pages(reader.offset, n) :
        reader' = [offset |-> reader.offset + n, seen |-> reader.seen \cup S,
                   twice |-> reader.twice \cup (reader.seen \cap S), over |-> Cardinality(S) < n]
  BY DEF ReadPage
<1>3. PICK A \in Heads(Listed(row), reader.offset) : S \in Heads(Listed(row) \ A, n)
  BY <1>2 DEF Pages
<1>4. A \in TopOf(Up, row, Listed(row), reader.offset) /\ S \in TopOf(Up, row, Listed(row) \ A, n)
  BY <1>3, HeadsAreTop
<1>5. A \in SUBSET Rows /\ S \in SUBSET Rows /\ S \in SUBSET Listed(row)
  BY <1>4 DEF TopOf, Listed
<1> QED BY <1>1, <1>2, <1>4, <1>5 DEF PageRead

\* What the reader knows before a page is read, the first one included.
BeforePage(L, st, left, joined) ==
  /\ st \subseteq L
  /\ ~left => \A x \in st \ reader.seen : Tied(row, L, x) \/ Place(Up, row, L, x) >= reader.offset
  /\ ~joined => \A x \in reader.seen \cap L : Place(Up, row, L, x) < reader.offset

LEMMA FirstPage ==
  ASSUME PassInv, ~reader.over, ReadPage
  PROVE  BeforePage(Listed(row), stayed', shrunk', grown')
<1>1. reader.offset \in Nat
  BY DEF PassInv, ListingsTypeOK
<1>2. CASE reader.offset = 0
  <2>1. stayed' = Listed(row) /\ reader.seen = {}
    BY <1>2 DEF ReadPage, PassInv
  <2>2. \A x \in Listed(row) : Place(Up, row, Listed(row), x) >= 0
    BY LeadersAreRows DEF Listed
  <2> QED BY <1>2, <2>1, <2>2 DEF BeforePage
<1>3. CASE reader.offset > 0
  <2>1. UNCHANGED <<stayed, shrunk, grown>>
    BY <1>1, <1>3 DEF ReadPage
  <2> QED BY <1>3, <2>1 DEF PassInv, PassFine, BeforePage
<1> QED BY <1>1, <1>2, <1>3

\* PageTells of the page that is read.
LEMMA ReaderTold ==
  ASSUME PassInv, NEW A, NEW S, NEW n, PageRead(A, S, n), NEW x \in Listed(row)
  PROVE  /\ (x \notin S /\ ~Tied(row, Listed(row), x) /\ Place(Up, row, Listed(row), x) >= reader.offset) =>
              Cardinality(S) = n /\ Place(Up, row, Listed(row), x) >= reader.offset + n
         /\ (x \in S /\ Place(Up, row, Listed(row), x) < reader.offset) => Tied(row, Listed(row), x)
         /\ x \in S => Place(Up, row, Listed(row), x) < reader.offset + n
<1> PICK up, L, o : up = Up /\ L = Listed(row) /\ o = reader.offset
  OBVIOUS
<1>1. Keyed(row)
  <2>1. ASSUME NEW y \in Rows PROVE row[y].key \in Nat
    <3>1. row[y] \in Row
      BY DEF PassInv, ListingsTypeOK
    <3>2. row[y].key \in Keys \cup {0}
      BY <3>1 DEF Row
    <3>3. Keys \cup {0} \subseteq Nat
      BY ListingAssumption
    <3> QED BY <3>2, <3>3
  <2> QED BY <2>1 DEF Keyed
<1>2. L \in SUBSET Rows /\ o \in Nat /\ n \in Nat
  BY DEF Listed, PassInv, ListingsTypeOK, PageRead
<1>3. A \in TopOf(up, row, L, o) /\ S \in TopOf(up, row, L \ A, n) /\ x \in L
  BY DEF PageRead
<1> QED BY <1>1, <1>2, <1>3, PageTells

LEMMA ReadPageStep == ASSUME PassInv, ~reader.over, ReadPage PROVE PassInv'
<1> PICK A \in SUBSET Rows, S \in SUBSET Rows, n \in Nat : PageRead(A, S, n)
  BY PageIsRead
<1> PICK L : L = Listed(row)
  OBVIOUS
<1>1. /\ row' = row /\ view' = view /\ Up' = Up /\ Listed(row)' = L /\ L \in SUBSET Rows
  BY DEF ReadPage, Up, Listed, Fits
<1>2. /\ reader.offset \in Nat /\ n > 0 /\ reader'.offset = reader.offset + n
      /\ reader'.seen = reader.seen \cup S /\ reader'.over = (Cardinality(S) < n)
      /\ reader' \in [offset : Nat, seen : SUBSET Rows, twice : SUBSET Rows, over : BOOLEAN]
  BY DEF PageRead, PassInv, ListingsTypeOK
<1>3. ListingsTypeOK'
  <2>1. stayed' \subseteq Rows /\ shrunk' \in BOOLEAN /\ grown' \in BOOLEAN
    BY DEF ReadPage, PassInv, ListingsTypeOK, Listed
  <2>2. view \in View /\ View' = View
    BY DEF PassInv, ListingsTypeOK, View, PublicView, MineView, QueueView, UsersView, LogsView
  <2> QED BY <1>1, <1>2, <2>1, <2>2 DEF PassInv, ListingsTypeOK
<1>4. BeforePage(L, stayed', shrunk', grown')
  BY FirstPage
<1>5. PassFine(Up, row, L, reader', stayed', shrunk', grown')
  <2>1. ASSUME ~shrunk', NEW x \in stayed' \ reader'.seen
        PROVE  Tied(row, L, x) \/ Place(Up, row, L, x) >= reader'.offset
    <3>1. x \in L /\ x \notin S /\ (Tied(row, L, x) \/ Place(Up, row, L, x) >= reader.offset)
      BY <1>2, <1>4, <2>1 DEF BeforePage
    <3> QED BY <1>2, <3>1, ReaderTold
  <2>2. ASSUME ~grown', NEW x \in reader'.seen \cap L PROVE Place(Up, row, L, x) < reader'.offset
    <3>1. x \in S \/ Place(Up, row, L, x) < reader.offset
      BY <1>2, <1>4, <2>2 DEF BeforePage
    <3>2. Place(Up, row, L, x) \in Nat
      BY <1>1, LeadersAreRows
    <3>3. x \in S => Place(Up, row, L, x) < reader.offset + n
      BY <2>2, ReaderTold
    <3> QED BY <1>2, <3>1, <3>2, <3>3
  <2> QED BY <1>4, <2>1, <2>2 DEF PassFine, BeforePage
<1>6. reader'.offset # 0
  BY <1>2
<1> QED BY <1>1, <1>3, <1>5, <1>6 DEF PassInv

LEMMA ListingsStep == PassInv /\ [ListNext]_<<desk, listvars>> => PassInv'
<1> SUFFICES ASSUME PassInv, [ListNext]_<<desk, listvars>> PROVE PassInv'
  OBVIOUS
<1>1. CASE UNCHANGED <<desk, listvars>>
  BY <1>1 DEF listvars, PassInv, ListingsTypeOK, PassFine, Up, Listed, Fits,
              View, PublicView, MineView, QueueView, UsersView, LogsView
<1>2. CASE ListNext
  <2>1. ~reader.over /\ row \in [Rows -> Row] /\ view \in View
    BY <1>2 DEF ListNext, PassInv, ListingsTypeOK
  <2>2. ASSUME NEW x \in Rows, NEW k \in Keys, NEW tag \in Tags, Insert(x, k, tag) PROVE PassInv'
    <3>1. [is |-> "here", key |-> k, tag |-> tag] \in Row
      BY <2>2 DEF Row, Tags, Status
    <3> QED BY <2>1, <2>2, <3>1, WriteStep DEF Insert
  <2>3. ASSUME NEW x \in Rows, NEW k \in Keys, Reschedule(x, k) PROVE PassInv'
    <3>1. [row[x] EXCEPT !.key = k] \in Row
      BY <2>1 DEF Row
    <3> QED BY <2>1, <2>3, <3>1, WriteStep DEF Reschedule
  <2>4. ASSUME NEW x \in Rows, NEW st \in Status, Judge(x, st) PROVE PassInv'
    <3>1. [row[x] EXCEPT !.tag = st] \in Row
      BY <2>1 DEF Row
    <3> QED BY <2>1, <2>4, <3>1, WriteStep DEF Judge
  <2>5. ASSUME NEW x \in Rows, Drop(x) PROVE PassInv'
    <3>1. [is |-> "gone", key |-> 0, tag |-> None] \in Row
      BY DEF Row
    <3> QED BY <2>1, <2>5, <3>1, WriteStep DEF Drop
  <2>6. CASE ReadPage
    BY <2>1, <2>6, ReadPageStep
  <2> QED BY <1>2, <2>2, <2>3, <2>4, <2>5, <2>6 DEF ListNext
<1> QED BY <1>1, <1>2

\* The invariant of a pass through a list.
THEOREM ListingsInvariance == ListSpec => []PassInv
  BY PassStart, ListingsStep, PTL DEF ListSpec

\* A row is skipped or shown twice only for the reasons named, in lists of any length,
\* with pages of any size and any changes between them.
THEOREM PassIsExplained == ListSpec => PassExplained
<1>1. PassInv /\ [ListNext]_<<desk, listvars>> =>
        [/\ (~reader.over /\ reader'.over) =>
               (shrunk' \/ \A x \in stayed' \ reader'.seen : Ties(x))
         /\ \A x \in reader'.twice \ reader.twice : grown \/ Ties(x)]_<<desk, listvars>>
  <2> SUFFICES ASSUME PassInv, ListNext
               PROVE  /\ (~reader.over /\ reader'.over) =>
                           (shrunk' \/ \A x \in stayed' \ reader'.seen : Ties(x))
                      /\ \A x \in reader'.twice \ reader.twice : grown \/ Ties(x)
    OBVIOUS
  <2>1. CASE reader' = reader
    BY <2>1
  <2>2. CASE reader' # reader
    <3>1. ReadPage /\ ~reader.over
      <4>1. ASSUME NEW x, NEW r, Write(x, r) PROVE FALSE
        BY <2>2, <4>1 DEF Write
      <4> QED BY <4>1 DEF ListNext, Insert, Judge, Reschedule, Drop
    <3> PICK A \in SUBSET Rows, S \in SUBSET Rows, n \in Nat : PageRead(A, S, n)
      BY <3>1, PageIsRead
    <3>2. BeforePage(Listed(row), stayed', shrunk', grown')
      BY <3>1, FirstPage
    <3>3. /\ reader'.seen = reader.seen \cup S /\ reader'.over = (Cardinality(S) < n)
          /\ reader'.twice = reader.twice \cup (reader.seen \cap S)
          /\ S \in SUBSET Listed(row) /\ Listed(row) \in SUBSET Rows
      BY DEF PageRead, Listed
    <3>4. \A x \in Listed(row) : Tied(row, Listed(row), x) <=> Ties(x)
      BY DEF Tied, Ties
    <3>5. ASSUME reader'.over, ~shrunk', NEW x \in stayed' \ reader'.seen PROVE Ties(x)
      <4>1. x \in Listed(row) /\ x \notin S
            /\ (Tied(row, Listed(row), x) \/ Place(Up, row, Listed(row), x) >= reader.offset)
        BY <3>2, <3>3, <3>5 DEF BeforePage
      <4>2. Cardinality(S) # n
        <5>1. Cardinality(S) \in Nat /\ Cardinality(S) < n
          BY <3>3, <3>5, FiniteRows
        <5> QED BY <5>1
      <4> QED BY <3>4, <4>1, <4>2, ReaderTold
    <3>6. ASSUME ~grown, NEW x \in reader'.twice \ reader.twice PROVE Ties(x)
      <4>1. x \in reader.seen /\ x \in S /\ x \in Listed(row)
        BY <3>3, <3>6
      <4>2. ~grown'
        <5>1. reader.offset # 0
          BY <4>1 DEF PassInv
        <5> QED BY <3>1, <3>6, <5>1 DEF ReadPage
      <4>3. Place(Up, row, Listed(row), x) < reader.offset
        BY <3>2, <4>1, <4>2 DEF BeforePage
      <4> QED BY <3>4, <4>1, <4>3, ReaderTold
    <3> QED BY <3>5, <3>6
  <2> QED BY <2>1, <2>2
<1> QED BY <1>1, ListingsInvariance, PTL DEF ListSpec, PassExplained
=============================================================================
