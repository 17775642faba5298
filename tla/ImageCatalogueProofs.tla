------------------------ MODULE ImageCatalogueProofs ------------------------
(***************************************************************************)
(* Theorems about ImageCatalogue, for every set of files, of requests in   *)
(* flight together and of operations.                                      *)
(*                                                                         *)
(* A row that a request has read may be written much later.  So what holds *)
(* of every row of the table has to hold of every row a request holds, and *)
(* Sound says so.                                                          *)
(*                                                                         *)
(* What an answer promises is reached step by step.  Stages says, for each *)
(* request nobody has interfered with, how far it has come; a step of      *)
(* another request either leaves the disk and the table alone, or the      *)
(* request is no longer one nobody has interfered with.                    *)
(*                                                                         *)
(* When requests do not overlap, what a request has read is still so when  *)
(* it writes; Steady says at which step it relies on what.                 *)
(***************************************************************************)
EXTENDS ImageCatalogue, TLAPS

\* A row whose boot method fits what it says of its boot files, or is one that
\* PUT /api/images carries.
Agrees(row) ==
    row.method \in NeedBootFiles /\ ~row.extracted => row.method \in MethodEdits

\* The steps of requests that are about one file.
Named == Steps \ {"idle", "answered", "sync", "detect_list", "detect",
                  "scan_list", "scan_delete", "scan_dir"}

Sound(q) ==
    /\ q \in Request
    /\ \A f \in Files : Agrees(q.rows[f])
    /\ q.pc \in Named => q.f \in Files

Tables ==
    /\ file \in [Files -> FileStates]
    /\ dir \in [Files -> DirStates]
    /\ image \in [Files -> Row]
    /\ \A f \in Files : Agrees(image[f])

InFlight ==
    /\ req \in [Requests -> Request]
    /\ \A r \in Requests : Sound(req[r])

Inv == Tables /\ InFlight /\ alone \in [Requests -> BOOLEAN]

-----------------------------------------------------------------------------
(* Rows and requests that the actions build.                               *)

\* The rows of the table that no request has edited.
LEMMA RowsTyped ==
    /\ NoRow \in Row /\ Agrees(NoRow)
    /\ \A b \in BOOLEAN : NewRow(b) \in Row /\ Agrees(NewRow(b))
BY CatalogueAssumption DEF NoRow, NewRow, Row, Agrees, NeedBootFiles

\* An idle slot.
LEMMA IdleSound == Sound(Idle) /\ Idle \in Request
BY RowsTyped DEF Sound, Idle, Request, Steps, OpNames, Columns, Named, Readers

\* A request that arrives with a file.
LEMMA BeginSound ==
    ASSUME NEW s \in Steps, NEW op \in OpNames, NEW f \in Files,
           NEW form \in {"", "true", "false"}, NEW b \in BOOLEAN
    PROVE  /\ Sound([Idle EXCEPT !.pc = s, !.op = op, !.f = f, !.fresh = b])
           /\ Sound([Idle EXCEPT !.pc = s, !.op = op, !.f = f, !.form = form,
                                 !.fresh = b])
BY IdleSound DEF Sound, Request, Idle

\* A request that has read the row of its file.
LEMMA ReaderSound ==
    ASSUME NEW s \in Steps, NEW op \in OpNames, NEW f \in Files,
           NEW row \in Row, Agrees(row), NEW sets \in SUBSET Columns,
           NEW reader \in Readers
    PROVE  /\ Sound([Idle EXCEPT !.pc = s, !.op = op, !.f = f, !.rows[f] = row])
           /\ Sound([Idle EXCEPT !.pc = s, !.op = op, !.f = f, !.rows[f] = row,
                                 !.reader = reader])
           /\ Sound([Idle EXCEPT !.pc = s, !.op = op, !.f = f, !.rows[f] = row,
                                 !.sets = sets])
<1> DEFINE rows == [Idle.rows EXCEPT ![f] = row]
<1>1. rows \in [Files -> Row] /\ \A g \in Files : Agrees(rows[g])
  BY RowsTyped DEF Idle
<1>2. Sound([Idle EXCEPT !.pc = s, !.op = op, !.f = f, !.rows = rows])
  <2> HIDE DEF rows
  <2> QED BY <1>1, IdleSound DEF Sound, Request
<1>3. Sound([Idle EXCEPT !.pc = s, !.op = op, !.f = f, !.rows = rows,
                         !.sets = sets])
  <2> HIDE DEF rows
  <2> QED BY <1>1, IdleSound DEF Sound, Request
<1>4. Sound([Idle EXCEPT !.pc = s, !.op = op, !.f = f, !.rows = rows,
                         !.reader = reader])
  <2> HIDE DEF rows
  <2> QED BY <1>1, IdleSound DEF Sound, Request
<1> QED BY <1>2, <1>3, <1>4

\* A request that goes on to another step, with an error or without.
LEMMA GotoSound ==
    ASSUME NEW q, Sound(q), NEW s \in Steps, s \in Named => q.f \in Files
    PROVE  /\ Sound([q EXCEPT !.pc = s])
           /\ Sound([q EXCEPT !.pc = s, !.linked = TRUE])
           /\ Sound([q EXCEPT !.pc = s, !.err = TRUE])
           /\ Sound([q EXCEPT !.pc = s, !.op = "ExtractFailed"])
BY DEF Sound, Request, OpNames

\* A request that has read a row, or edited the one it holds.
LEMMA EditSound ==
    ASSUME NEW q, Sound(q), q.f \in Files, NEW s \in Steps,
           NEW row \in Row, Agrees(row), NEW sets \in SUBSET Columns
    PROVE  /\ Sound([q EXCEPT !.pc = s, !.rows[q.f] = row])
           /\ Sound([q EXCEPT !.pc = s, !.rows[q.f] = row, !.sets = sets])
BY DEF Sound, Request

\* A request that has treated one of its files.
LEMMA LoopSound ==
    ASSUME NEW q, Sound(q), NEW S \in SUBSET Files, NEW s \in Steps, s \notin Named
    PROVE  /\ Sound([q EXCEPT !.todo = S])
           /\ Sound([q EXCEPT !.todo = S, !.err = TRUE])
           /\ Sound([q EXCEPT !.pc = s, !.todo = S])
BY DEF Sound, Request

\* An extraction that goes on with another reader, or ends.
LEMMA ExtractSound ==
    ASSUME NEW q, Sound(q), q.f \in Files, NEW reader \in Readers, NEW w \in BOOLEAN,
           NEW row \in Row, Agrees(row), NEW sets \in SUBSET Columns
    PROVE  /\ Sound([q EXCEPT !.pc = "extract_boot", !.reader = reader])
           /\ Sound([q EXCEPT !.pc = "save", !.windows = w, !.rows[q.f] = row,
                              !.sets = sets])
BY DEF Sound, Request, Steps

\* A scan that has deleted a row.
LEMMA ScanSound ==
    ASSUME NEW q, Sound(q), NEW g \in Files, NEW S \in SUBSET Files
    PROVE  Sound([q EXCEPT !.pc = "scan_dir", !.at = g, !.todo = S])
BY DEF Sound, Request, Steps, Named

\* What an extraction that has succeeded makes of its request.
LEMMA ExtractDoneIs ==
    ASSUME InFlight, NEW r \in Requests, req[r].f \in Files, NEW w \in BOOLEAN,
           ExtractDone(r, w)
    PROVE  \E n :
              /\ req' = [req EXCEPT ![r] = n] /\ req'[r] = n /\ Sound(n)
              /\ n.pc = "save" /\ n.op = req[r].op /\ n.f = req[r].f
              /\ n.windows = w /\ n.linked = req[r].linked
              /\ n.sets = {"extracted", "method", "sanboot"}
              /\ n.rows[req[r].f].extracted /\ n.rows[req[r].f].method = "kernel"
              /\ \A c \in Columns \ {"extracted", "method", "sanboot"} :
                    n.rows[req[r].f][c] = req[r].rows[req[r].f][c]
<1> DEFINE q == req[r]
           f == req[r].f
           sets == {"extracted", "method", "sanboot"}
<1>1. q \in Request /\ Sound(q) /\ q.rows[f] \in Row
  BY DEF InFlight, Sound, Request
<1>2. PICK s \in BOOLEAN :
              req' = [req EXCEPT ![r].pc = "save", ![r].windows = w,
                                 ![r].rows[f] = Extracted(@, s), ![r].sets = sets]
  BY DEF ExtractDone
<1> DEFINE row == Extracted(q.rows[f], s)
           n == [q EXCEPT !.pc = "save", !.windows = w, !.rows[f] = row, !.sets = sets]
<1>3. req' = [req EXCEPT ![r] = n]
  BY <1>2
<1>4. /\ row \in Row /\ Agrees(row) /\ row.extracted /\ row.method = "kernel"
      /\ \A c \in Columns \ sets : row[c] = q.rows[f][c]
  BY <1>1, CatalogueAssumption DEF Extracted, Row, Agrees, Columns
<1>5. sets \in SUBSET Columns
  BY DEF Columns
<1>6. "" \in Readers
  BY DEF Readers
<1> HIDE DEF row
<1>7. Sound(n)
  <2> HIDE DEF sets
  <2> QED BY <1>1, <1>4, <1>5, <1>6, ExtractSound
<1>8. /\ n.pc = "save" /\ n.op = q.op /\ n.f = f /\ n.windows = w /\ n.rows[f] = row
      /\ n.linked = q.linked /\ n.sets = sets
  BY <1>1 DEF Request
<1> HIDE DEF n
<1>9. req'[r] = n
  BY <1>3 DEF InFlight
<1> QED BY <1>3, <1>4, <1>7, <1>8, <1>9

\* A request whose file has been removed.
LEMMA UnlinkedSound ==
    ASSUME InFlight, NEW f \in Files
    PROVE  /\ Unlinked(f) \in [Requests -> Request]
           /\ \A r \in Requests : Sound(Unlinked(f)[r])
           /\ \A r \in Requests : Unlinked(f)[r].f = req[r].f
<1>1. ASSUME NEW r \in Requests
      PROVE  Unlinked(f)[r] \in Request /\ Sound(Unlinked(f)[r])
             /\ Unlinked(f)[r].f = req[r].f
  <2> DEFINE b == req[r].linked /\ req[r].f # f
  <2>1. b \in BOOLEAN
    OBVIOUS
  <2>2. Unlinked(f)[r] = [req[r] EXCEPT !.linked = b]
    BY DEF Unlinked
  <2>3. req[r] \in Request /\ Sound(req[r])
    BY DEF InFlight
  <2> HIDE DEF b
  <2>4. [req[r] EXCEPT !.linked = b] \in Request
    BY <2>1, <2>3 DEF Request
  <2>5. Sound([req[r] EXCEPT !.linked = b])
    BY <2>3, <2>4 DEF Sound, Request
  <2>6. [req[r] EXCEPT !.linked = b].f = req[r].f
    BY <2>3 DEF Request
  <2> QED BY <2>2, <2>4, <2>5, <2>6
<1>2. Unlinked(f) = [r \in Requests |-> Unlinked(f)[r]]
  BY DEF Unlinked
<1> QED BY <1>1, <1>2

\* What a request in flight holds.
LEMMA RequestTyped ==
    ASSUME InFlight, NEW r \in Requests
    PROVE  /\ req[r] \in Request
           /\ Sound(req[r])
           /\ req[r].pc \in Steps
           /\ req[r].pc \in Named => req[r].f \in Files
           /\ \A f \in Files : req[r].rows[f] \in Row /\ Agrees(req[r].rows[f])
           /\ req[r].walk \in SUBSET Files
           /\ req[r].todo \in SUBSET Files
BY DEF InFlight, Sound, Request

\* One request changes, the others do not.
LEMMA SlotSound ==
    ASSUME InFlight, NEW r \in Requests, NEW q, Sound(q),
           req' = [req EXCEPT ![r] = q]
    PROVE  InFlight'
BY DEF InFlight, Sound

-----------------------------------------------------------------------------
(* Statements.                                                             *)

\* A Save keeps every row of the table in agreement with itself.
LEMMA SavedSound ==
    ASSUME Tables, NEW f \in Files, NEW row \in Row, Agrees(row), Saved(f, row)
    PROVE  image' \in [Files -> Row] /\ \A g \in Files : Agrees(image'[g])
<1>1. [row EXCEPT !.enabled = TRUE, !.sanboot = TRUE] \in Row
  BY DEF Row
<1>2. Agrees([row EXCEPT !.enabled = TRUE, !.sanboot = TRUE])
  BY DEF Row, Agrees
<1> QED BY <1>1, <1>2 DEF Saved, Tables

\* So does SyncImages.
LEMMA SyncedSound ==
    ASSUME NEW row \in Row, Agrees(row)
    PROVE  Synced(row) \in Row /\ Agrees(Synced(row))
BY RowsTyped DEF Synced

-----------------------------------------------------------------------------

\* The empty catalogue.
LEMMA InvInit == Init => Inv
BY RowsTyped, IdleSound DEF Init, Inv, Tables, InFlight, FileStates, DirStates

-----------------------------------------------------------------------------
(* Steps.                                                                  *)

\* A request arrives: it has read the row of its file, or nothing at all.
LEMMA ArrivalSound ==
    ASSUME Inv, NEW r \in Requests, Arrival(r)
    PROVE  Tables' /\ InFlight'
<1> USE DEF Inv
<1>1. \A f \in Files : image[f] \in Row /\ Agrees(image[f])
                         /\ (~image[f].row) \in BOOLEAN
  BY DEF Tables
<1>2. ASSUME NEW op \in OpNames, Walk(r, op)
      PROVE  Tables' /\ InFlight'
  <2>1. OnDisk \in SUBSET Files
    BY DEF OnDisk
  <2>2. Sound([Idle EXCEPT !.pc = "sync", !.op = op, !.walk = OnDisk, !.todo = OnDisk])
    BY <2>1, IdleSound DEF Sound, Idle, Request, Steps, Named
  <2> QED BY <1>2, <2>2, SlotSound DEF Walk, Tables
<1>3. ASSUME NEW op \in OpNames, NEW f \in Files, NEW row \in Row, Agrees(row),
             NEW sets \in SUBSET Columns, ReadThenSave(r, op, f, row, sets)
      PROVE  Tables' /\ InFlight'
  <2>1. Sound([Idle EXCEPT !.pc = "save", !.op = op, !.f = f, !.rows[f] = row,
                           !.sets = sets])
    BY <1>3, ReaderSound DEF Steps, Readers
  <2> QED BY <1>3, <2>1, SlotSound DEF ReadThenSave, Tables
<1>4. CASE ListImages(r)
  BY <1>2, <1>4 DEF ListImages, OpNames
<1>5. CASE ScanImages(r)
  BY <1>2, <1>5 DEF ScanImages, OpNames
<1>6. ASSUME NEW f \in Files, NEW form \in {"", "true", "false"},
             UploadImage(r, f, form)
      PROVE  Tables' /\ InFlight'
  <2>1. Sound([Idle EXCEPT !.pc = "upload_create", !.op = "UploadImage", !.f = f,
                           !.form = form, !.fresh = ~image[f].row])
    <3> DEFINE b == ~image[f].row
    <3>1. b \in BOOLEAN
      BY <1>1
    <3>2. "upload_create" \in Steps /\ "UploadImage" \in OpNames
      BY DEF Steps, OpNames
    <3> HIDE DEF b
    <3>3. Sound([Idle EXCEPT !.pc = "upload_create", !.op = "UploadImage", !.f = f,
                             !.form = form, !.fresh = b])
      BY <3>1, <3>2, BeginSound
    <3> QED BY <3>3 DEF b
  <2> QED BY <1>6, <2>1, SlotSound DEF UploadImage, Tables
<1>7. ASSUME NEW f \in Files, NEW op \in OpNames, NEW s \in Steps, Begin(r, op, s, f)
      PROVE  InFlight'
  <2>1. Sound([Idle EXCEPT !.pc = s, !.op = op, !.f = f, !.fresh = ~image[f].row])
    BY <1>1, BeginSound
  <2>2. req' = [req EXCEPT ![r] = [Idle EXCEPT !.pc = s, !.op = op, !.f = f,
                                              !.fresh = ~image[f].row]]
    BY <1>7 DEF Begin
  <2> QED BY <2>1, <2>2, SlotSound
<1>8. ASSUME NEW f \in Files, DownloadISO(r, f)
      PROVE  Tables' /\ InFlight'
  BY <1>7, <1>8 DEF DownloadISO, Steps, OpNames, Tables
<1>9. ASSUME NEW f \in Files, UpdateImage(r, f)
      PROVE  Tables' /\ InFlight'
  <2>1. ASSUME NEW b \in BOOLEAN
        PROVE  /\ [image[f] EXCEPT !.enabled = b] \in Row
               /\ [image[f] EXCEPT !.public = b] \in Row
               /\ Agrees([image[f] EXCEPT !.enabled = b])
               /\ Agrees([image[f] EXCEPT !.public = b])
    BY <1>1 DEF Row, Agrees
  <2>2. ASSUME NEW m \in MethodEdits
        PROVE  /\ [image[f] EXCEPT !.method = m] \in Row
               /\ Agrees([image[f] EXCEPT !.method = m])
    BY <1>1, CatalogueAssumption DEF Row, Agrees
  <2> QED BY <1>3, <1>9, <2>1, <2>2 DEF UpdateImage, OpNames, Columns
<1>10. ASSUME NEW f \in Files, NEW m \in Methods, SetBootMethod(r, f, m)
       PROVE  Tables' /\ InFlight'
  <2>1. /\ [image[f] EXCEPT !.method = m] \in Row
        /\ Agrees([image[f] EXCEPT !.method = m])
    BY <1>1, <1>10 DEF Row, Agrees, SetBootMethod
  <2> QED BY <1>3, <1>10, <2>1 DEF SetBootMethod, OpNames, Columns
<1>11. ASSUME NEW f \in Files, RedetectImage(r, f)
       PROVE  Tables' /\ InFlight'
  <2>1. ASSUME NEW s \in BOOLEAN
        PROVE  /\ [image[f] EXCEPT !.sanboot = s] \in Row
               /\ Agrees([image[f] EXCEPT !.sanboot = s])
    BY <1>1 DEF Row, Agrees
  <2> QED BY <1>3, <1>11, <2>1 DEF RedetectImage, OpNames, Columns
<1>12. ASSUME NEW f \in Files, UpdateAutoInstallScript(r, f) \/ PatchImageSMB(r, f)
       PROVE  Tables' /\ InFlight'
  BY <1>1, <1>3, <1>12 DEF UpdateAutoInstallScript, PatchImageSMB, OpNames, Columns
<1>13. ASSUME NEW f \in Files, DownloadNetboot(r, f) \/ ExtractImage(r, f)
       PROVE  Tables' /\ InFlight'
  <2>1. ASSUME NEW s \in Steps, NEW op \in OpNames
        PROVE  Sound([Idle EXCEPT !.pc = s, !.op = op, !.f = f, !.rows[f] = image[f]])
    BY <1>1, ReaderSound DEF Readers
  <2>2. CASE DownloadNetboot(r, f)
    <3>1. Sound([Idle EXCEPT !.pc = "netboot_copy", !.op = "DownloadNetboot", !.f = f,
                             !.rows[f] = image[f]])
      BY <2>1 DEF Steps, OpNames
    <3> QED BY <2>2, <3>1, SlotSound DEF DownloadNetboot, Tables
  <2>3. CASE ExtractImage(r, f)
    <3>1. PICK reader \in {"iso9660", "udf_first"} :
                  req' = [req EXCEPT ![r] = [Idle EXCEPT !.pc = "extract_boot",
                            !.op = "ExtractImage", !.f = f, !.rows[f] = image[f],
                            !.reader = reader]]
      BY <2>3 DEF ExtractImage
    <3>2. "extract_boot" \in Steps /\ "ExtractImage" \in OpNames /\ reader \in Readers
      BY DEF Steps, OpNames, Readers
    <3>3. Sound([Idle EXCEPT !.pc = "extract_boot", !.op = "ExtractImage", !.f = f,
                             !.rows[f] = image[f], !.reader = reader])
      BY <1>1, <3>2, ReaderSound
    <3> QED BY <2>3, <3>1, <3>3, SlotSound DEF ExtractImage, Tables
  <2> QED BY <1>13, <2>2, <2>3
<1>14. ASSUME NEW f \in Files, DeleteImage(r, f)
       PROVE  Tables' /\ InFlight'
  BY <1>7, <1>14 DEF DeleteImage, Steps, OpNames, Tables
<1>15. ASSUME NEW f \in Files, DeleteImageFile(r, f)
       PROVE  Tables' /\ InFlight'
  <2>1. Tables'
    BY <1>15 DEF DeleteImageFile, Tables, FileStates, DirStates, Without
  <2>2. CASE req' = Unlinked(f)
    BY <2>1, <2>2, UnlinkedSound DEF InFlight
  <2>3. CASE UNCHANGED req
    BY <2>1, <2>3 DEF InFlight
  <2>4. CASE Begin(r, "DeleteImageFile", "reset_get", f)
    <3>1. "reset_get" \in Steps /\ "DeleteImageFile" \in OpNames
      BY DEF Steps, OpNames
    <3> QED BY <2>1, <2>4, <3>1, <1>7
  <2> QED BY <1>15, <2>1, <2>2, <2>3, <2>4 DEF DeleteImageFile
<1> QED BY <1>4, <1>5, <1>6, <1>8, <1>9, <1>10, <1>11, <1>12, <1>13, <1>14, <1>15
         DEF Arrival

\* A request takes a step of its own.
LEMMA StepSound ==
    ASSUME Inv, NEW r \in Requests, RequestStep(r)
    PROVE  Tables' /\ InFlight'
<1> USE DEF Inv
<1> DEFINE q == req[r]
           f == req[r].f
<1>1. /\ q \in Request /\ Sound(q) /\ q.pc \in Steps
      /\ q.pc \in Named => f \in Files
      /\ \A g \in Files : q.rows[g] \in Row /\ Agrees(q.rows[g])
      /\ q.todo \in SUBSET Files
  BY RequestTyped
<1>2. \A g \in Files : image[g] \in Row /\ Agrees(image[g])
  BY DEF Tables
<1>3. ASSUME NEW s \in Steps, s \in Named => f \in Files, Goto(r, s)
      PROVE  InFlight'
  <2>1. Sound([q EXCEPT !.pc = s])
    BY <1>1, <1>3, GotoSound
  <2>2. req' = [req EXCEPT ![r] = [q EXCEPT !.pc = s]]
    BY <1>3 DEF Goto
  <2> QED BY <2>1, <2>2, SlotSound
<1>4. ASSUME Finish(r)
      PROVE  InFlight'
  BY <1>4, IdleSound, SlotSound DEF Finish
<1>5. ASSUME NEW s \in Steps, f \in Files, CreateFile(r, s), UNCHANGED <<dir, image>>
      PROVE  Tables' /\ InFlight'
  <2>1. Sound([q EXCEPT !.pc = s, !.linked = TRUE])
    BY <1>1, <1>5, GotoSound
  <2>2. req' = [req EXCEPT ![r] = [q EXCEPT !.pc = s, !.linked = TRUE]]
    BY <1>5 DEF CreateFile
  <2>3. Tables'
    BY <1>5 DEF CreateFile, Tables, FileStates
  <2> QED BY <2>1, <2>2, <2>3, SlotSound
<1>6. ASSUME NEW s \in Steps, f \in Files, file' = FileCopied(r), Goto(r, s),
             UNCHANGED <<dir, image>>
      PROVE  Tables' /\ InFlight'
  <2>1. Tables'
    BY <1>6 DEF FileCopied, Tables, FileStates
  <2> QED BY <1>3, <1>6, <2>1
<1>7. ASSUME NEW g \in Files, image' = [image EXCEPT ![g] = Synced(@)],
             UNCHANGED <<file, dir>>
      PROVE  Tables'
  <2>1. Synced(image[g]) \in Row /\ Agrees(Synced(image[g]))
    BY <1>2, SyncedSound
  <2> QED BY <1>7, <2>1 DEF Tables
<1>8. ASSUME NEW S \in SUBSET Files, req' = [req EXCEPT ![r].todo = S]
      PROVE  InFlight'
  <2>1. "idle" \in Steps /\ "idle" \notin Named
    BY DEF Steps, Named
  <2>2. Sound([q EXCEPT !.todo = S])
    BY <1>1, <2>1, LoopSound
  <2>3. req' = [req EXCEPT ![r] = [q EXCEPT !.todo = S]]
    BY <1>8
  <2> QED BY <2>2, <2>3, SlotSound
<1>9. ASSUME NEW s \in Steps, f \in Files, NEW row \in Row, Agrees(row),
             NEW sets \in SUBSET Columns,
             \/ req' = [req EXCEPT ![r].pc = s, ![r].rows[f] = row]
             \/ req' = [req EXCEPT ![r].pc = s, ![r].rows[f] = row, ![r].sets = sets]
      PROVE  InFlight'
  <2>1. /\ Sound([q EXCEPT !.pc = s, !.rows[q.f] = row])
        /\ Sound([q EXCEPT !.pc = s, !.rows[q.f] = row, !.sets = sets])
    BY <1>1, <1>9, EditSound
  <2>2. \/ req' = [req EXCEPT ![r] = [q EXCEPT !.pc = s, !.rows[q.f] = row]]
        \/ req' = [req EXCEPT ![r] = [q EXCEPT !.pc = s, !.rows[q.f] = row,
                                               !.sets = sets]]
    BY <1>9
  <2> QED BY <2>1, <2>2, SlotSound
<1> HIDE DEF q, f
<1>10. CASE UploadCreate(r) \/ DownloadCreate(r)
  BY <1>1, <1>5, <1>10 DEF UploadCreate, DownloadCreate, At, Steps, Named, q, f
<1>11. CASE UploadCopied(r) \/ DownloadCopied(r)
  BY <1>1, <1>6, <1>11 DEF UploadCopied, DownloadCopied, At, Steps, Named, q, f
<1>12. CASE UploadGet(r)
  <2>1. f \in Files
    BY <1>1, <1>12 DEF UploadGet, At, Steps, Named, q, f
  <2>2. Tables'
    BY <1>12 DEF UploadGet, Tables
  <2>3. CASE image[f].row
    <3> DEFINE sets == {"enabled"} \cup (IF q.form = "" THEN {} ELSE {"public"})
               row == Reuploaded(image[f], q.form)
    <3>1. sets \in SUBSET Columns
      BY DEF Columns
    <3>2. (q.form = "true") \in BOOLEAN
      OBVIOUS
    <3>3. row \in Row /\ Agrees(row)
      BY <1>2, <2>1, <3>2 DEF Reuploaded, Row, Agrees
    <3>4. req' = [req EXCEPT ![r].pc = "upload_save", ![r].rows[f] = row,
                             ![r].sets = sets]
      BY <1>12, <2>3 DEF UploadGet, q, f
    <3>5. "upload_save" \in Steps
      BY DEF Steps
    <3> HIDE DEF sets, row
    <3> QED BY <2>1, <2>2, <3>1, <3>3, <3>4, <3>5, <1>9
  <2>4. CASE ~image[f].row
    BY <1>3, <1>12, <2>1, <2>2, <2>4 DEF UploadGet, Steps, f
  <2> QED BY <2>3, <2>4
<1>13. CASE UploadInsert(r)
  <2>1. f \in Files
    BY <1>1, <1>13 DEF UploadInsert, At, Steps, Named, q, f
  <2>2. CASE /\ image' = [image EXCEPT ![f] = NewRow(q.form = "true")]
             /\ Goto(r, "answered")
             /\ UNCHANGED <<file, dir>>
    <3>1. (q.form = "true") \in BOOLEAN
      OBVIOUS
    <3>2. NewRow(q.form = "true") \in Row /\ Agrees(NewRow(q.form = "true"))
      BY <3>1, RowsTyped
    <3>3. Tables'
      BY <2>1, <2>2, <3>2 DEF Tables
    <3> QED BY <1>3, <2>1, <2>2, <3>3 DEF Steps
  <2>3. CASE /\ file' = [file EXCEPT ![f] = "absent"]
             /\ req' = [Unlinked(f) EXCEPT ![r] = Idle]
             /\ UNCHANGED <<dir, image>>
    <3>1. Tables'
      BY <2>1, <2>3 DEF Tables, FileStates
    <3>2. InFlight'
      BY <2>1, <2>3, UnlinkedSound, IdleSound DEF InFlight
    <3> QED BY <3>1, <3>2
  <2> QED BY <1>13, <2>2, <2>3 DEF UploadInsert, q, f
<1>14. CASE DownloadSync(r)
  <2>1. f \in Files
    BY <1>1, <1>14 DEF DownloadSync, At, Steps, Named, q, f
  <2> QED BY <1>3, <1>7, <1>14, <2>1 DEF DownloadSync, Steps, f
<1>15. CASE DownloadGet(r)
  <2>1. f \in Files
    BY <1>1, <1>15 DEF DownloadGet, At, Steps, Named, q, f
  <2>2. Tables'
    BY <1>15 DEF DownloadGet, Tables
  <2>3. CASE req' = [req EXCEPT ![r].pc = "save", ![r].rows[f] = image[f]]
    <3>1. "save" \in Steps
      BY DEF Steps
    <3>2. {} \in SUBSET Columns
      OBVIOUS
    <3> QED BY <1>2, <1>9, <2>1, <2>2, <2>3, <3>1, <3>2
  <2> QED BY <1>4, <1>15, <2>2, <2>3 DEF DownloadGet, f
<1>16. CASE SyncImages(r)
  <2>1. CASE /\ Goto(r, IF q.op = "ScanImages" THEN "scan_list" ELSE "detect_list")
             /\ UNCHANGED <<file, dir, image>>
    <3>1. Tables'
      BY <2>1 DEF Tables
    <3> QED BY <1>3, <2>1, <3>1 DEF Steps, Named
  <2>2. ASSUME NEW g \in q.todo,
               image' = [image EXCEPT ![g] = Synced(@)],
               req' = [req EXCEPT ![r].todo = @ \ {g}],
               UNCHANGED <<file, dir>>
        PROVE  Tables' /\ InFlight'
    <3>1. g \in Files /\ q.todo \ {g} \in SUBSET Files
      BY <1>1, <2>2
    <3>2. req' = [req EXCEPT ![r].todo = q.todo \ {g}]
      BY <2>2 DEF q
    <3> QED BY <1>7, <1>8, <2>2, <3>1, <3>2
  <2> QED BY <1>16, <2>1, <2>2 DEF SyncImages, q
<1>17. CASE DetectList(r)
  <2> DEFINE S == {g \in Files : image[g].row /\ ~image[g].extracted}
             n == [q EXCEPT !.pc = "detect", !.rows = image,
                            !.sets = {"extracted", "method"}, !.todo = S]
  <2>1. S \in SUBSET Files
    OBVIOUS
  <2>2. req' = [req EXCEPT ![r] = n]
    BY <1>17 DEF DetectList, q
  <2> HIDE DEF S
  <2>3. image \in [Files -> Row]
    BY DEF Tables
  <2>4. n \in Request
    BY <1>1, <2>1, <2>3 DEF Request, Steps, Columns
  <2>5. n.rows = image /\ n.pc = "detect"
    BY <1>1 DEF Request
  <2> HIDE DEF n
  <2>6. Sound(n)
    BY <1>2, <2>4, <2>5 DEF Sound, Named
  <2>7. Tables'
    BY <1>17 DEF DetectList, Tables
  <2> QED BY <2>2, <2>6, <2>7, SlotSound
<1>18. ASSUME NEW g \in q.todo, req' = [req EXCEPT ![r].todo = @ \ {g}]
       PROVE  InFlight'
  <2>1. q.todo \ {g} \in SUBSET Files
    BY <1>1
  <2>2. req' = [req EXCEPT ![r].todo = q.todo \ {g}]
    BY <1>18 DEF q
  <2> QED BY <1>8, <2>1, <2>2
<1>19. CASE DetectManualExtractions(r)
  <2>1. CASE Goto(r, "answered") /\ UNCHANGED <<file, dir, image>>
    <3>1. Tables'
      BY <2>1 DEF Tables
    <3> QED BY <1>3, <2>1, <3>1 DEF Steps, Named
  <2>2. ASSUME NEW g \in q.todo,
               \/ Saved(g, [q.rows[g] EXCEPT !.extracted = TRUE, !.method = "kernel"])
               \/ UNCHANGED image,
               req' = [req EXCEPT ![r].todo = @ \ {g}],
               UNCHANGED <<file, dir>>
        PROVE  Tables' /\ InFlight'
    <3> DEFINE row == [q.rows[g] EXCEPT !.extracted = TRUE, !.method = "kernel"]
    <3>1. g \in Files
      BY <1>1, <2>2
    <3>2. row \in Row /\ Agrees(row)
      BY <1>1, <3>1, CatalogueAssumption DEF Row, Agrees
    <3>3. CASE Saved(g, row)
      <4> HIDE DEF row
      <4>1. image' \in [Files -> Row] /\ \A h \in Files : Agrees(image'[h])
        BY <3>1, <3>2, <3>3, SavedSound
      <4> QED BY <1>18, <2>2, <4>1 DEF Tables
    <3>4. CASE UNCHANGED image
      BY <1>18, <2>2, <3>4 DEF Tables
    <3> QED BY <2>2, <3>3, <3>4
  <2> QED BY <1>19, <2>1, <2>2 DEF DetectManualExtractions, q
<1>20. CASE ScanList(r)
  <2> DEFINE S == {g \in Files \ q.walk : image[g].row}
  <2>1. S \in SUBSET Files
    OBVIOUS
  <2>2. req' = [req EXCEPT ![r] = [q EXCEPT !.pc = "scan_delete", !.todo = S]]
    BY <1>20 DEF ScanList, q
  <2> HIDE DEF S
  <2>3. "scan_delete" \in Steps /\ "scan_delete" \notin Named
    BY DEF Steps, Named
  <2>4. Sound([q EXCEPT !.pc = "scan_delete", !.todo = S])
    BY <1>1, <2>1, <2>3, LoopSound
  <2>5. Tables'
    BY <1>20 DEF ScanList, Tables
  <2> QED BY <2>2, <2>4, <2>5, SlotSound
<1>21. CASE ScanDelete(r)
  <2>1. CASE Goto(r, "answered") /\ UNCHANGED <<file, dir, image>>
    <3>1. Tables'
      BY <2>1 DEF Tables
    <3> QED BY <1>3, <2>1, <3>1 DEF Steps, Named
  <2>2. ASSUME NEW g \in q.todo,
               image' = [image EXCEPT ![g] = NoRow],
               req' = [req EXCEPT ![r].pc = "scan_dir", ![r].at = g, ![r].todo = @ \ {g}],
               UNCHANGED <<file, dir>>
        PROVE  Tables' /\ InFlight'
    <3>1. g \in Files /\ q.todo \ {g} \in SUBSET Files
      BY <1>1, <2>2
    <3>2. Tables'
      BY <2>2, <3>1, RowsTyped DEF Tables
    <3>3. req' = [req EXCEPT ![r] = [q EXCEPT !.pc = "scan_dir", !.at = g,
                                              !.todo = q.todo \ {g}]]
      BY <2>2 DEF q
    <3>4. Sound([q EXCEPT !.pc = "scan_dir", !.at = g, !.todo = q.todo \ {g}])
      BY <1>1, <3>1, ScanSound
    <3> QED BY <3>2, <3>3, <3>4, SlotSound
  <2>3. ASSUME NEW g \in q.todo, req' = [req EXCEPT ![r].todo = @ \ {g}],
               UNCHANGED <<file, dir, image>>
        PROVE  Tables' /\ InFlight'
    BY <1>18, <2>3 DEF Tables
  <2> QED BY <1>21, <2>1, <2>2, <2>3 DEF ScanDelete, q
<1>22. ASSUME NEW s \in Steps, f \in Files, Goto(r, s), UNCHANGED <<file, image>>,
              NEW d \in DirStates, dir' = [dir EXCEPT ![f] = d]
       PROVE  Tables' /\ InFlight'
  <2>1. Tables'
    BY <1>22 DEF Tables
  <2> QED BY <1>3, <1>22, <2>1
<1>23. ASSUME f \in Files
       PROVE  dir[f] \in DirStates
  BY <1>23 DEF Tables
<1>24. CASE NetbootCopy(r)
  <2>1. f \in Files
    BY <1>1, <1>24 DEF NetbootCopy, At, Steps, Named, q, f
  <2>2. PICK d \in DirStates : dir' = [dir EXCEPT ![f] = d]
    BY <1>23, <1>24, <2>1 DEF NetbootCopy, WithBootFiles, DirStates, f
  <2> QED BY <1>22, <1>24, <2>1, <2>2 DEF NetbootCopy, Steps
<1>25. CASE ExtractBootFiles(r) \/ ExtractBsdtar(r)
  <2>1. f \in Files
    BY <1>1, <1>25 DEF ExtractBootFiles, ExtractBsdtar, At, Steps, Named, q, f
  <2>2. PICK d \in DirStates : dir' = [dir EXCEPT ![f] = d]
    BY <1>23, <1>25, <2>1 DEF ExtractBootFiles, ExtractBsdtar, ContentsWritten, WithContents,
                              WithBootFiles, DirStates, f
  <2>3. "extract_contents" \in Steps /\ "extract_copy" \in Steps
    BY DEF Steps
  <2> QED BY <1>22, <1>25, <2>1, <2>2, <2>3 DEF ExtractBootFiles, ExtractBsdtar
<1>26. CASE ExtractContents(r) \/ ExtractWindows(r) \/ ExtractCopy(r)
  <2>1. f \in Files
    BY <1>1, <1>26 DEF ExtractContents, ExtractWindows, ExtractCopy, At, Steps, Named, q, f
  <2>2. Tables'
    BY <1>26, <2>1 DEF ExtractContents, ExtractWindows, ExtractCopy, ContentsWritten,
                       WithContents, WithBootFiles, Tables, DirStates, f
  <2>3. PICK w \in BOOLEAN : ExtractDone(r, w)
    BY <1>26 DEF ExtractContents, ExtractWindows, ExtractCopy
  <2>4. PICK n : req' = [req EXCEPT ![r] = n] /\ Sound(n)
    BY <2>1, <2>3, ExtractDoneIs DEF f, Inv
  <2> QED BY <2>2, <2>4, SlotSound
<1>33. CASE ScanRemoveDir(r)
  <2>1. Goto(r, "scan_delete") /\ UNCHANGED <<file, image>>
    BY <1>33 DEF ScanRemoveDir
  <2>2. PICK d : dir' = [dir EXCEPT ![q.at] = d] /\ (q.at \in Files => d \in DirStates)
    BY <1>33 DEF ScanRemoveDir, Tables, DirStates, q
  <2>3. Tables'
    BY <2>1, <2>2 DEF Tables
  <2> QED BY <1>3, <2>1, <2>3 DEF Steps, Named
<1>27. CASE SaveImage(r)
  <2>1. f \in Files
    BY <1>1, <1>27 DEF SaveImage, Steps, Named, q, f
  <2>2. Saved(f, q.rows[f])
    BY <1>27 DEF SaveImage, q, f
  <2>3. image' \in [Files -> Row] /\ \A h \in Files : Agrees(image'[h])
    BY <1>1, <2>1, <2>2, SavedSound
  <2>4. Tables'
    BY <1>27, <2>3 DEF SaveImage, Tables
  <2> QED BY <1>3, <1>27, <2>4 DEF SaveImage, Steps, Named
<1>28. CASE DeleteFile(r)
  <2>1. f \in Files
    BY <1>1, <1>28 DEF DeleteFile, At, Steps, Named, q, f
  <2>2. Tables'
    BY <1>28, <2>1 DEF DeleteFile, Tables, FileStates, f
  <2> DEFINE u == Unlinked(f)
  <2>3. /\ u \in [Requests -> Request]
        /\ \A p \in Requests : Sound(u[p])
        /\ u[r].f \in Files
    BY <2>1, UnlinkedSound DEF f
  <2>4. req' = [u EXCEPT ![r] = [u[r] EXCEPT !.pc = "delete_dir"]]
    BY <1>28 DEF DeleteFile, f
  <2> HIDE DEF u
  <2>5. "delete_dir" \in Steps
    BY DEF Steps
  <2>6. Sound([u[r] EXCEPT !.pc = "delete_dir"])
    BY <2>3, <2>5, GotoSound
  <2>7. InFlight'
    BY <2>3, <2>4, <2>6 DEF InFlight, Sound
  <2> QED BY <2>2, <2>7
<1>29. CASE DeleteDir(r)
  <2>1. f \in Files
    BY <1>1, <1>29 DEF DeleteDir, At, Steps, Named, q, f
  <2> QED BY <1>22, <1>29, <2>1 DEF DeleteDir, Steps, DirStates, f
<1>30. CASE DeleteImageRow(r)
  <2>1. f \in Files
    BY <1>1, <1>30 DEF DeleteImageRow, At, Steps, Named, q, f
  <2>2. Tables'
    BY <1>30, <2>1, RowsTyped DEF DeleteImageRow, Tables, f
  <2> QED BY <1>3, <1>30, <2>2 DEF DeleteImageRow, Steps, Named
<1>31. CASE ResetGet(r)
  <2>1. f \in Files
    BY <1>1, <1>31 DEF ResetGet, At, Steps, Named, q, f
  <2>2. Tables'
    BY <1>31 DEF ResetGet, Tables
  <2> DEFINE row == [image[f] EXCEPT !.extracted = FALSE, !.method = "sanboot"]
             sets == {"extracted", "method"}
  <2>3. row \in Row /\ Agrees(row)
    BY <1>2, <2>1, CatalogueAssumption DEF Row, Agrees, NeedBootFiles
  <2>4. sets \in SUBSET Columns
    BY DEF Columns
  <2>5. CASE req' = [req EXCEPT ![r].pc = "save", ![r].rows[f] = row, ![r].sets = sets]
    <3>1. "save" \in Steps
      BY DEF Steps
    <3> HIDE DEF row, sets
    <3> QED BY <1>9, <2>1, <2>2, <2>3, <2>4, <2>5, <3>1
  <2> QED BY <1>4, <1>31, <2>2, <2>5 DEF ResetGet, f
<1>32. CASE Answer(r)
  BY <1>4, <1>32 DEF Answer, Tables
<1> QED BY <1>10, <1>11, <1>12, <1>13, <1>14, <1>15, <1>16, <1>17, <1>19, <1>20,
           <1>21, <1>24, <1>25, <1>26, <1>27, <1>28, <1>29, <1>30, <1>31, <1>32, <1>33
         DEF RequestStep

\* A step of a request fails.
LEMMA ErrorSound ==
    ASSUME Inv, NEW r \in Requests, RequestError(r)
    PROVE  Tables' /\ InFlight'
<1> USE DEF Inv
<1> DEFINE q == req[r]
           f == req[r].f
           removes == q.pc \in {"upload_copy", "upload_insert", "upload_save",
                                "download_copy"}
<1>1. Sound(q) /\ q.pc \in Steps /\ (q.pc \in Named => f \in Files)
  BY RequestTyped
<1>2. removes => f \in Files
  BY <1>1 DEF Named, Steps
<1>3. Tables'
  BY <1>2 DEF RequestError, Tables, FileStates
<1>4. ASSUME NEW s \in Steps, s \in Named => f \in Files,
             \/ req' = [req EXCEPT ![r].pc = s, ![r].err = TRUE]
             \/ req' = [req EXCEPT ![r].pc = s, ![r].op = "ExtractFailed"]
      PROVE  InFlight'
  <2>1. /\ Sound([q EXCEPT !.pc = s, !.err = TRUE])
        /\ Sound([q EXCEPT !.pc = s, !.op = "ExtractFailed"])
    BY <1>1, <1>4, GotoSound
  <2>2. \/ req' = [req EXCEPT ![r] = [q EXCEPT !.pc = s, !.err = TRUE]]
        \/ req' = [req EXCEPT ![r] = [q EXCEPT !.pc = s, !.op = "ExtractFailed"]]
    BY <1>4
  <2> QED BY <2>1, <2>2, SlotSound
<1>5. CASE removes
  <2>1. req' = [Unlinked(f) EXCEPT ![r] = Idle]
    BY <1>5 DEF RequestError
  <2> QED BY <1>2, <1>3, <1>5, <2>1, UnlinkedSound, IdleSound DEF InFlight
<1>6. CASE q.pc \in {"upload_get", "download_sync", "extract_boot", "extract_contents",
                     "extract_copy", "delete_file", "delete_dir"}
  <2>1. f \in Files
    BY <1>1, <1>6 DEF Named, Steps
  <2>a. CASE req' = [req EXCEPT ![r].pc = "extract_boot", ![r].reader = NextReader(@)]
    <3> DEFINE reader == NextReader(q.reader)
    <3>1. reader \in Readers
      BY DEF NextReader, Readers
    <3>2. req' = [req EXCEPT ![r] = [q EXCEPT !.pc = "extract_boot", !.reader = reader]]
      BY <2>a
    <3> HIDE DEF reader
    <3>3. Sound([q EXCEPT !.pc = "extract_boot", !.reader = reader])
      BY <1>1, <2>1, <3>1, RowsTyped, ExtractSound
    <3> QED BY <1>3, <3>2, <3>3, SlotSound
  <2>b. CASE req' # [req EXCEPT ![r].pc = "extract_boot", ![r].reader = NextReader(@)]
    <3>1. PICK s \in {"upload_insert", "download_get", "save", "delete_dir",
                      "delete_row"} :
                \/ req' = [req EXCEPT ![r].pc = s, ![r].err = TRUE]
                \/ req' = [req EXCEPT ![r].pc = s, ![r].op = "ExtractFailed"]
      BY <1>6, <2>b DEF RequestError
    <3>2. s \in Steps
      BY DEF Steps
    <3> QED BY <1>3, <1>4, <2>1, <3>1, <3>2
  <2> QED BY <2>a, <2>b
<1>7. CASE q.pc \in {"sync", "detect_list", "scan_list"}
  <2>1. PICK s \in {"scan_list", "detect_list", "answered"} :
              req' = [req EXCEPT ![r].pc = s, ![r].err = TRUE]
    BY <1>7 DEF RequestError
  <2>2. s \in Steps /\ s \notin Named
    BY DEF Steps, Named
  <2> QED BY <1>3, <1>4, <2>1, <2>2
<1>8. CASE /\ ~removes
           /\ q.pc \notin {"upload_get", "download_sync", "extract_boot",
                           "extract_contents", "extract_copy", "delete_file", "delete_dir"}
           /\ q.pc \notin {"sync", "detect_list", "scan_list"}
  <2>1. req' = [req EXCEPT ![r] = Idle]
    BY <1>8 DEF RequestError
  <2> QED BY <1>3, <2>1, IdleSound, SlotSound
<1> QED BY <1>5, <1>6, <1>7, <1>8

\* One file of a listing or a scan fails.
LEMMA LoopErrorSound ==
    ASSUME Inv, NEW r \in Requests, LoopError(r)
    PROVE  Tables' /\ InFlight'
<1> USE DEF Inv
<1>1. PICK f \in req[r].todo : req' = [req EXCEPT ![r].todo = @ \ {f}, ![r].err = TRUE]
  BY DEF LoopError
<1>2. Sound(req[r]) /\ req[r].todo \ {f} \in SUBSET Files
  BY RequestTyped
<1>3. "idle" \in Steps /\ "idle" \notin Named
  BY DEF Steps, Named
<1>4. Sound([req[r] EXCEPT !.todo = req[r].todo \ {f}, !.err = TRUE])
  BY <1>2, <1>3, LoopSound
<1>5. req' = [req EXCEPT ![r] = [req[r] EXCEPT !.todo = req[r].todo \ {f}, !.err = TRUE]]
  BY <1>1
<1>6. Tables'
  BY DEF LoopError, Tables
<1> QED BY <1>4, <1>5, <1>6, SlotSound

\* The process ends and the next one starts.
LEMMA RestartSound ==
    ASSUME Inv, Restart
    PROVE  Tables' /\ InFlight'
<1> USE DEF Inv
<1>1. InFlight'
  BY IdleSound DEF Restart, InFlight
<1>2. \A f \in Files : /\ image[f] \in Row /\ Agrees(image[f])
                       /\ Synced(image[f]) \in Row /\ Agrees(Synced(image[f]))
  BY SyncedSound DEF Tables
<1>3. Tables'
  BY <1>2 DEF Restart, Tables
<1> QED BY <1>1, <1>3

\* Every step of the catalogue keeps the invariant.
LEMMA InvNext == Inv /\ [Next]_vars => Inv'
<1> SUFFICES ASSUME Inv, [Next]_vars
             PROVE  Inv'
  OBVIOUS
<1>1. CASE Next
  <2>1. alone' \in [Requests -> BOOLEAN]
    BY <1>1 DEF Next, StillAlone
  <2>2. ASSUME NEW f \in Files, CopyISO(f) \/ ExtractByHand(f)
        PROVE  Tables' /\ InFlight'
    <3>1. Tables'
      BY <2>2 DEF CopyISO, ExtractByHand, Inv, Tables, FileStates, DirStates
    <3>2. InFlight'
      BY <2>2 DEF CopyISO, ExtractByHand, Inv, InFlight
    <3> QED BY <3>1, <3>2
  <2>3. Tables' /\ InFlight'
    BY <1>1, <2>2, ArrivalSound, StepSound, ErrorSound, LoopErrorSound, RestartSound
       DEF Next
  <2> QED BY <2>1, <2>3 DEF Inv
<1>2. CASE UNCHANGED vars
  BY <1>2 DEF vars, Inv, Tables, InFlight
<1> QED BY <1>1, <1>2

-----------------------------------------------------------------------------
(* What the answers promise.  A request that is alone has come as far as   *)
(* its stage says; every other step leaves it where it is, or it is no     *)
(* longer alone.                                                           *)

\* A file that is being written under its name is there.
Links ==
    \A r \in Requests :
       req[r].linked => req[r].f \in Files /\ file[req[r].f] # "absent"

\* How far an upload has come that nobody has interfered with.
UploadStage(r) ==
    LET q == req[r]
        f == req[r].f
        known == q.fresh = ~image[f].row
    IN  q.pc # "idle" /\ q.op = "UploadImage" =>
          \/ q.pc = "upload_create" /\ file[f] = "absent" /\ known
          \/ q.pc = "upload_copy" /\ file[f] = "partial" /\ q.linked /\ known
          \/ q.pc = "upload_get" /\ file[f] = "complete" /\ known
          \/ q.pc = "upload_insert" /\ file[f] = "complete"
          \/ /\ q.pc = "upload_save" /\ file[f] = "complete" /\ ~q.fresh
             /\ q.rows[f].row /\ q.rows[f].enabled
             /\ q.form # "" => q.rows[f].public = (q.form = "true")
          \/ /\ q.pc = "answered" /\ file[f] = "complete"
             /\ image[f].row /\ image[f].enabled
             /\ q.form # "" \/ q.fresh => image[f].public = (q.form = "true")

\* What an extraction leaves in its directory.
Unpacked(d, windows) == HasContents(d) /\ (windows \/ HasBootFiles(d))

\* How far an extraction has come.
ExtractStage(r) ==
    LET q == req[r]
        f == req[r].f
    IN  q.pc # "idle" /\ q.op = "ExtractImage" =>
          \/ q.pc = "extract_boot"
          \/ q.pc = "extract_contents" /\ HasBootFiles(dir[f])
          \/ q.pc = "extract_copy"
          \/ /\ q.pc = "save" /\ Unpacked(dir[f], q.windows)
             /\ q.rows[f].extracted /\ q.rows[f].method = "kernel"
          \/ /\ q.pc = "answered" /\ Unpacked(dir[f], q.windows)
             /\ image[f].extracted /\ image[f].method = "kernel"

\* How far the deletion of an image and its files has come.
DeleteStage(r) ==
    LET q == req[r]
        f == req[r].f
    IN  q.pc # "idle" /\ q.op = "DeleteWithFile" =>
          \/ q.pc = "delete_file"
          \/ q.pc = "delete_dir" /\ (q.err \/ file[f] = "absent")
          \/ q.pc = "delete_row" /\ (q.err \/ (file[f] = "absent" /\ dir[f] = "none"))
          \/ /\ q.pc = "answered"
             /\ q.err \/ (file[f] = "absent" /\ dir[f] = "none" /\ ~image[f].row)

\* How far a scan has come: the ISOs it has met have rows, and the rows it has
\* not met an ISO for are the ones it has still to delete.
ScanStage(r) ==
    LET q == req[r]
    IN  q.pc # "idle" /\ q.op = "ScanImages" =>
          \/ /\ q.pc = "sync" /\ q.walk = OnDisk
             /\ \A g \in OnDisk \ q.todo : image[g].row
          \/ /\ q.pc = "scan_list"
             /\ q.err \/ (q.walk = OnDisk /\ \A g \in OnDisk : image[g].row)
          \/ /\ q.pc \in {"scan_delete", "scan_dir"}
             /\ q.err \/ \A g \in Files : /\ g \in OnDisk => image[g].row /\ g \notin q.todo
                                          /\ g \notin OnDisk /\ image[g].row => g \in q.todo
          \/ /\ q.pc = "answered"
             /\ q.err \/ \A g \in Files : image[g].row <=> g \in OnDisk


AllStages(r) == UploadStage(r) /\ ExtractStage(r) /\ DeleteStage(r) /\ ScanStage(r)

\* A step takes the request r no less far than its answer asks for.
Kept(r) == AllStages(r) => AllStages(r)'

Stages == \A r \in Requests : alone[r] => AllStages(r)

\* The other requests go on as they were, except that a writer may lose the
\* name of its file.
Apart(r) ==
    \A s \in Requests \ {r} :
       \/ req'[s] = req[s]
       \/ /\ req'[s] = [req[s] EXCEPT !.linked = FALSE]
          /\ req[s].f \in Files /\ file'[req[s].f] = "absent"

\* Only the requests about the file f lose its name.
LEMMA UnlinkedIs ==
    ASSUME InFlight, NEW f \in Files, NEW s \in Requests
    PROVE  Unlinked(f)[s] = IF req[s].f = f THEN [req[s] EXCEPT !.linked = FALSE]
                            ELSE req[s]
<1> DEFINE b == req[s].linked /\ req[s].f # f
<1>1. Unlinked(f)[s] = [req[s] EXCEPT !.linked = b] /\ req[s] \in Request
  BY DEF Unlinked, InFlight
<1>2. req[s].linked \in BOOLEAN
  BY <1>1 DEF Request
<1>3. b = IF req[s].f = f THEN FALSE ELSE req[s].linked
  BY <1>2
<1> HIDE DEF b
<1>4. [req[s] EXCEPT !.linked = req[s].linked] = req[s]
  BY <1>1 DEF Request
<1> QED BY <1>1, <1>3, <1>4

\* A step that changes the request r only, and removes no file.
LEMMA SlotApart ==
    ASSUME InFlight, Links, NEW r \in Requests, NEW q, req' = [req EXCEPT ![r] = q],
           \A g \in Files : file'[g] = "absent" => file[g] = "absent",
           q.linked => q.f \in Files /\ file'[q.f] # "absent"
    PROVE  Apart(r) /\ Links' /\ req'[r] = q
<1>1. req'[r] = q /\ \A s \in Requests \ {r} : req'[s] = req[s]
  BY DEF InFlight
<1>2. ASSUME NEW s \in Requests, req'[s].linked
      PROVE  req'[s].f \in Files /\ file'[req'[s].f] # "absent"
  BY <1>1, <1>2 DEF Links
<1> QED BY <1>1, <1>2 DEF Apart, Links

\* A step that removes a file.
LEMMA DropApart ==
    ASSUME InFlight, Tables, Links, NEW r \in Requests, NEW q, NEW f \in Files,
           req' = [Unlinked(f) EXCEPT ![r] = q], file' = [file EXCEPT ![f] = "absent"],
           q.linked => q.f \in Files /\ q.f # f /\ file[q.f] # "absent"
    PROVE  Apart(r) /\ Links' /\ req'[r] = q
<1>1. req'[r] = q
  BY DEF Unlinked
<1>2. \A s \in Requests \ {r} : req'[s] = Unlinked(f)[s]
  BY DEF Unlinked
<1>3. file'[f] = "absent" /\ \A g \in Files : g # f => file'[g] = file[g]
  BY DEF Tables
<1>4. Apart(r)
  BY <1>2, <1>3, UnlinkedIs DEF Apart
<1>5. ASSUME NEW s \in Requests, req'[s].linked
      PROVE  req'[s].f \in Files /\ file'[req'[s].f] # "absent"
  <2>1. CASE s = r
    BY <1>1, <1>3, <1>5, <2>1
  <2>2. CASE s # r
    <3>1. req[s] \in Request
      BY DEF InFlight
    <3>2. req[s].f # f
      <4>1. SUFFICES ASSUME req[s].f = f
                     PROVE  ~req'[s].linked
        BY <1>5
      <4>2. req'[s] = [req[s] EXCEPT !.linked = FALSE]
        BY <1>2, <2>2, <4>1, UnlinkedIs
      <4> QED BY <3>1, <4>2 DEF Request
    <3>3. req'[s] = req[s]
      BY <1>2, <2>2, <3>2, UnlinkedIs
    <3> QED BY <1>3, <1>5, <3>2, <3>3 DEF Links
  <2> QED BY <2>1, <2>2
<1> QED BY <1>1, <1>4, <1>5 DEF Links

\* Requests whose answers promise nothing.
Watched == {"UploadImage", "ExtractImage", "DeleteWithFile", "ScanImages"}

\* Their steps have nothing to keep.
LEMMA NoPromise ==
    ASSUME NEW r \in Requests, req'[r].pc = "idle" \/ req'[r].op \notin Watched
    PROVE  AllStages(r)' /\ Kept(r)
BY DEF Kept, AllStages, UploadStage, ExtractStage, DeleteStage, ScanStage, Watched

-----------------------------------------------------------------------------
(* Arrivals.                                                               *)

\* A request that arrives is at the beginning of its work.
LEMMA ArrivalStages ==
    ASSUME Inv, Links, NEW r \in Requests, Arrival(r)
    PROVE  Apart(r) /\ Links' /\ AllStages(r)'
<1>0. Tables /\ InFlight
  BY DEF Inv
<1>1. ASSUME NEW q, ~q.linked, UNCHANGED file, req' = [req EXCEPT ![r] = q]
      PROVE  Apart(r) /\ Links' /\ req'[r] = q
  BY <1>0, <1>1, SlotApart
<1>2. ASSUME NEW op \in {"ListImages", "ScanImages"}, Walk(r, op)
      PROVE  Apart(r) /\ Links' /\ AllStages(r)'
  <2> DEFINE q == [Idle EXCEPT !.pc = "sync", !.op = op, !.walk = OnDisk, !.todo = OnDisk]
  <2>1. ~q.linked /\ q.pc = "sync" /\ q.op = op /\ q.walk = OnDisk /\ q.todo = OnDisk
    BY DEF Idle
  <2>2. UNCHANGED <<file, dir, image>> /\ req' = [req EXCEPT ![r] = q]
    BY <1>2 DEF Walk
  <2> HIDE DEF q
  <2>3. Apart(r) /\ Links' /\ req'[r] = q
    BY <1>1, <2>1, <2>2
  <2>4. OnDisk' = OnDisk
    BY <2>2 DEF OnDisk
  <2>5. AllStages(r)'
    BY <2>1, <2>3, <2>4 DEF AllStages, UploadStage, ExtractStage, DeleteStage, ScanStage
  <2> QED BY <2>3, <2>5
<1>3. ASSUME NEW q, ~q.linked, q.op \notin Watched, UNCHANGED file,
             req' = [req EXCEPT ![r] = q]
      PROVE  Apart(r) /\ Links' /\ AllStages(r)'
  BY <1>1, <1>3, NoPromise
<1>4. ASSUME NEW op, NEW f, NEW row, NEW sets, op \notin Watched,
             ReadThenSave(r, op, f, row, sets)
      PROVE  Apart(r) /\ Links' /\ AllStages(r)'
  <2> DEFINE q == [Idle EXCEPT !.pc = "save", !.op = op, !.f = f, !.rows[f] = row,
                               !.sets = sets]
  <2>1. ~q.linked /\ q.op \notin Watched
    BY <1>4 DEF Idle
  <2>2. UNCHANGED file /\ req' = [req EXCEPT ![r] = q]
    BY <1>4 DEF ReadThenSave
  <2> HIDE DEF q
  <2> QED BY <1>3, <2>1, <2>2
<1>5. CASE ListImages(r) \/ ScanImages(r)
  BY <1>2, <1>5 DEF ListImages, ScanImages
<1>6. ASSUME NEW f \in Files, NEW form \in {"", "true", "false"}, UploadImage(r, f, form)
      PROVE  Apart(r) /\ Links' /\ AllStages(r)'
  <2> DEFINE q == [Idle EXCEPT !.pc = "upload_create", !.op = "UploadImage", !.f = f,
                               !.form = form, !.fresh = ~image[f].row]
  <2>1. ~q.linked /\ q.pc = "upload_create" /\ q.op = "UploadImage" /\ q.f = f
        /\ q.fresh = ~image[f].row
    BY DEF Idle
  <2>2. UNCHANGED <<file, dir, image>> /\ req' = [req EXCEPT ![r] = q] /\ file[f] = "absent"
    BY <1>6 DEF UploadImage
  <2> HIDE DEF q
  <2>3. Apart(r) /\ Links' /\ req'[r] = q
    BY <1>1, <2>1, <2>2
  <2>4. AllStages(r)'
    BY <2>1, <2>2, <2>3 DEF AllStages, UploadStage, ExtractStage, DeleteStage, ScanStage
  <2> QED BY <2>3, <2>4
<1>7. ASSUME NEW f \in Files, NEW op, NEW s, Begin(r, op, s, f), UNCHANGED file,
             op \notin Watched \/ (op = "DeleteWithFile" /\ s = "delete_file")
      PROVE  Apart(r) /\ Links' /\ AllStages(r)'
  <2> DEFINE q == [Idle EXCEPT !.pc = s, !.op = op, !.f = f, !.fresh = ~image[f].row]
  <2>1. ~q.linked /\ q.pc = s /\ q.op = op
    BY DEF Idle
  <2>2. req' = [req EXCEPT ![r] = q]
    BY <1>7 DEF Begin
  <2> HIDE DEF q
  <2>3. Apart(r) /\ Links' /\ req'[r] = q
    BY <1>1, <1>7, <2>1, <2>2
  <2>4. CASE op \notin Watched
    BY <2>1, <2>3, <2>4, NoPromise
  <2>5. CASE op = "DeleteWithFile" /\ s = "delete_file"
    BY <2>1, <2>3, <2>5 DEF AllStages, UploadStage, ExtractStage, DeleteStage, ScanStage
  <2> QED BY <1>7, <2>3, <2>4, <2>5
<1>8. ASSUME NEW f \in Files, DownloadISO(r, f) \/ DeleteImage(r, f)
      PROVE  Apart(r) /\ Links' /\ AllStages(r)'
  BY <1>7, <1>8 DEF DownloadISO, DeleteImage, Watched
<1>9. ASSUME NEW f \in Files,
             \/ UpdateImage(r, f) \/ \E m \in Methods : SetBootMethod(r, f, m)
             \/ RedetectImage(r, f) \/ UpdateAutoInstallScript(r, f) \/ PatchImageSMB(r, f)
      PROVE  Apart(r) /\ Links' /\ AllStages(r)'
  BY <1>4, <1>9 DEF UpdateImage, SetBootMethod, RedetectImage, UpdateAutoInstallScript,
                    PatchImageSMB, Watched
<1>10. ASSUME NEW f \in Files, DownloadNetboot(r, f)
       PROVE  Apart(r) /\ Links' /\ AllStages(r)'
  <2> DEFINE q == [Idle EXCEPT !.pc = "netboot_copy", !.op = "DownloadNetboot", !.f = f,
                               !.rows[f] = image[f]]
  <2>1. ~q.linked /\ q.op \notin Watched
    BY DEF Idle, Watched
  <2>2. UNCHANGED file /\ req' = [req EXCEPT ![r] = q]
    BY <1>10 DEF DownloadNetboot
  <2> HIDE DEF q
  <2> QED BY <1>3, <2>1, <2>2
<1>11. ASSUME NEW f \in Files, ExtractImage(r, f)
       PROVE  Apart(r) /\ Links' /\ AllStages(r)'
  <2>0. PICK reader :
              req' = [req EXCEPT ![r] = [Idle EXCEPT !.pc = "extract_boot",
                        !.op = "ExtractImage", !.f = f, !.rows[f] = image[f],
                        !.reader = reader]]
    BY <1>11 DEF ExtractImage
  <2> DEFINE q == [Idle EXCEPT !.pc = "extract_boot", !.op = "ExtractImage", !.f = f,
                               !.rows[f] = image[f], !.reader = reader]
  <2>1. ~q.linked /\ q.pc = "extract_boot" /\ q.op = "ExtractImage"
    BY DEF Idle
  <2>2. UNCHANGED file /\ req' = [req EXCEPT ![r] = q]
    BY <1>11, <2>0 DEF ExtractImage
  <2> HIDE DEF q
  <2>3. Apart(r) /\ Links' /\ req'[r] = q
    BY <1>1, <2>1, <2>2
  <2>4. AllStages(r)'
    BY <2>1, <2>3 DEF AllStages, UploadStage, ExtractStage, DeleteStage, ScanStage
  <2> QED BY <2>3, <2>4
<1>12. ASSUME NEW f \in Files, DeleteImageFile(r, f)
       PROVE  Apart(r) /\ Links' /\ AllStages(r)'
  <2>0. req[r] \in Request /\ req[r].pc = "idle"
    BY <1>0, <1>12 DEF DeleteImageFile, Arrives, At, InFlight
  <2>1. CASE file' = [file EXCEPT ![f] = "absent"] /\ req' = Unlinked(f)
    <3> DEFINE q == Unlinked(f)[r]
    <3>1. q = IF req[r].f = f THEN [req[r] EXCEPT !.linked = FALSE] ELSE req[r]
      BY <1>0, UnlinkedIs
    <3>2. req' = [Unlinked(f) EXCEPT ![r] = q]
      BY <2>1 DEF Unlinked
    <3>3. q.pc = "idle" /\ (q.linked => q.f \in Files /\ q.f # f /\ file[q.f] # "absent")
      BY <2>0, <3>1 DEF Request, Links
    <3> HIDE DEF q
    <3> QED BY <1>0, <2>1, <3>2, <3>3, DropApart, NoPromise
  <2>2. CASE UNCHANGED <<file, req>>
    <3>1. req' = [req EXCEPT ![r] = req[r]]
      BY <1>0, <2>2 DEF InFlight
    <3>2. req[r].linked => req[r].f \in Files /\ file'[req[r].f] # "absent"
      BY <2>2 DEF Links
    <3> QED BY <1>0, <2>0, <2>2, <3>1, <3>2, SlotApart, NoPromise
  <2>3. CASE Begin(r, "DeleteImageFile", "reset_get", f) /\ UNCHANGED file
    BY <1>7, <2>3 DEF Watched
  <2> QED BY <1>12, <2>1, <2>2, <2>3 DEF DeleteImageFile
<1> QED BY <1>5, <1>6, <1>8, <1>9, <1>10, <1>11, <1>12 DEF Arrival

\* The request r goes on and keeps its file's name, or becomes idle; no file
\* is removed.
LEMMA MovesApart ==
    ASSUME InFlight, Links, NEW r \in Requests, NEW n, req' = [req EXCEPT ![r] = n],
           \A g \in Files : file'[g] = "absent" => file[g] = "absent",
           n.linked => req[r].linked /\ n.f = req[r].f
    PROVE  Apart(r) /\ Links' /\ req'[r] = n
<1>1. n.linked => n.f \in Files /\ file'[n.f] # "absent"
  BY DEF Links
<1> QED BY <1>1, SlotApart

\* A request that only goes on to another step.
LEMMA GotoApart ==
    ASSUME InFlight, Links, NEW r \in Requests, NEW s, Goto(r, s),
           \A g \in Files : file'[g] = "absent" => file[g] = "absent"
    PROVE  /\ Apart(r) /\ Links'
           /\ req'[r] = [req[r] EXCEPT !.pc = s]
           /\ req'[r].pc = s /\ req'[r].op = req[r].op /\ req'[r].f = req[r].f
           /\ req'[r].form = req[r].form /\ req'[r].fresh = req[r].fresh
           /\ req'[r].rows = req[r].rows /\ req'[r].walk = req[r].walk
           /\ req'[r].todo = req[r].todo /\ req'[r].linked = req[r].linked
           /\ req'[r].err = req[r].err /\ req'[r].windows = req[r].windows
<1> DEFINE n == [req[r] EXCEPT !.pc = s]
<1>1. req[r] \in Request /\ req' = [req EXCEPT ![r] = n]
  BY DEF InFlight, Goto
<1>2. /\ n.pc = s /\ n.op = req[r].op /\ n.f = req[r].f
      /\ n.form = req[r].form /\ n.fresh = req[r].fresh
      /\ n.rows = req[r].rows /\ n.walk = req[r].walk
      /\ n.todo = req[r].todo /\ n.linked = req[r].linked
      /\ n.err = req[r].err /\ n.windows = req[r].windows
  BY <1>1 DEF Request
<1> HIDE DEF n
<1>3. Apart(r) /\ Links' /\ req'[r] = n
  BY <1>1, <1>2, MovesApart
<1> QED BY <1>2, <1>3 DEF n

\* A request that is done.
LEMMA FinishApart ==
    ASSUME InFlight, Links, NEW r \in Requests, Finish(r), UNCHANGED file
    PROVE  Apart(r) /\ Links' /\ Kept(r)
<1>1. Apart(r) /\ Links' /\ req'[r] = Idle
  BY MovesApart DEF Finish, Idle
<1>2. Idle.pc = "idle"
  BY DEF Idle
<1> QED BY <1>1, <1>2, NoPromise

\* What the step a request is at says of the kind of request it is.
LEMMA OpAt ==
    ASSUME NEW r \in Requests, AllStages(r), req[r].pc # "idle", req[r].op \in Watched
    PROVE  /\ req[r].op = "UploadImage" => UploadStage(r)
           /\ req[r].pc \in {"upload_create", "upload_copy", "upload_get", "upload_insert",
                             "upload_save"} => req[r].op = "UploadImage"
           /\ req[r].pc \in {"extract_boot", "extract_contents", "extract_copy", "save"} =>
                 req[r].op = "ExtractImage"
           /\ req[r].pc \in {"delete_file", "delete_dir", "delete_row"} =>
                 req[r].op = "DeleteWithFile"
           /\ req[r].pc \in {"sync", "scan_list", "scan_delete", "scan_dir"} =>
                 req[r].op = "ScanImages"
           /\ req[r].pc \notin {"download_create", "download_copy", "download_sync",
                                "download_get", "detect_list", "detect", "netboot_copy",
                                "reset_get"}
BY DEF AllStages, UploadStage, ExtractStage, DeleteStage, ScanStage, Watched

-----------------------------------------------------------------------------
(* Uploads.                                                                *)

\* The steps of an upload, until the row is saved.  A name that is not there has
\* no writer, so the file is this upload's own.
LEMMA UploadStages ==
    ASSUME Inv, Links, NEW r \in Requests,
           UploadCreate(r) \/ UploadCopied(r) \/ UploadGet(r) \/ UploadInsert(r)
    PROVE  Apart(r) /\ Links' /\ Kept(r)
<1> DEFINE q == req[r]
           f == req[r].f
<1>1. Tables /\ InFlight /\ q \in Request /\ Sound(q)
  BY RequestTyped DEF Inv
<1>2. f \in Files
  BY <1>1 DEF UploadCreate, UploadCopied, UploadGet, UploadInsert, At, Sound, Named, Steps
<1>3. file[f] \in FileStates /\ image[f] \in Row
  BY <1>1, <1>2 DEF Tables
<1>4. AllStages(r) => q.op = "UploadImage" \/ q.op \notin Watched
  BY OpAt DEF UploadCreate, UploadCopied, UploadGet, UploadInsert, At
<1>5. ASSUME req'[r].op = q.op, AllStages(r) /\ q.op = "UploadImage" => UploadStage(r)'
      PROVE  Kept(r)
  BY <1>4, <1>5, NoPromise DEF Kept, AllStages, ExtractStage, DeleteStage, ScanStage
<1>6. CASE UploadCreate(r)
  <2> DEFINE n == [q EXCEPT !.pc = "upload_copy", !.linked = TRUE]
             new == IF Writers(f) = {} THEN "partial" ELSE "mixed"
  <2>1. /\ n.pc = "upload_copy" /\ n.op = q.op /\ n.f = f /\ n.linked
        /\ n.fresh = q.fresh
    BY <1>1 DEF Request
  <2>2. /\ req' = [req EXCEPT ![r] = n] /\ UNCHANGED <<dir, image>>
        /\ file' = [file EXCEPT ![f] = new]
    BY <1>6 DEF UploadCreate, CreateFile
  <2>3. new # "absent"
    OBVIOUS
  <2>4. new = "partial" \/ file[f] # "absent"
    BY DEF Writers, Links
  <2> HIDE DEF n, new
  <2>5. file'[f] = new /\ \A g \in Files : file'[g] = "absent" => file[g] = "absent"
    BY <1>1, <1>2, <2>2, <2>3 DEF Tables
  <2>6. Apart(r) /\ Links' /\ req'[r] = n
    BY <1>1, <1>2, <2>1, <2>2, <2>3, <2>5, SlotApart
  <2>7. AllStages(r) /\ q.op = "UploadImage" =>
           file[f] = "absent" /\ q.fresh = ~image[f].row
    BY <1>6 DEF UploadCreate, At, AllStages, UploadStage
  <2>8. AllStages(r) /\ q.op = "UploadImage" => UploadStage(r)'
    BY <2>1, <2>2, <2>4, <2>5, <2>6, <2>7 DEF UploadStage
  <2> QED BY <1>5, <2>1, <2>6, <2>8
<1>7. CASE UploadCopied(r)
  <2>1. /\ Goto(r, "upload_get") /\ UNCHANGED <<dir, image>> /\ q.pc = "upload_copy"
        /\ file' = [file EXCEPT ![f] =
                       IF q.linked /\ @ = "partial" THEN "complete" ELSE @]
    BY <1>7 DEF UploadCopied, At, FileCopied
  <2>2. /\ \A g \in Files : file'[g] = "absent" => file[g] = "absent"
        /\ q.linked /\ file[f] = "partial" => file'[f] = "complete"
    BY <1>1, <1>2, <2>1 DEF Tables
  <2>3. /\ Apart(r) /\ Links' /\ req'[r].pc = "upload_get" /\ req'[r].op = q.op
        /\ req'[r].f = f /\ req'[r].fresh = q.fresh
    <3>1. InFlight /\ Goto(r, "upload_get")
          /\ \A g \in Files : file'[g] = "absent" => file[g] = "absent"
      BY <1>1, <2>1, <2>2
    <3> QED BY <3>1, GotoApart
  <2>4. AllStages(r) /\ q.op = "UploadImage" => /\ file[f] = "partial" /\ q.linked
                                /\ q.fresh = ~image[f].row
    BY <2>1 DEF AllStages, UploadStage
  <2>5. AllStages(r) /\ q.op = "UploadImage" => UploadStage(r)'
    BY <2>1, <2>2, <2>3, <2>4 DEF UploadStage
  <2> QED BY <1>5, <2>3, <2>5
<1>8. CASE UploadGet(r)
  <2>1. q.pc = "upload_get" /\ UNCHANGED <<file, dir, image>>
    BY <1>8 DEF UploadGet, At
  <2>2. AllStages(r) /\ q.op = "UploadImage" =>
           file[f] = "complete" /\ q.fresh = ~image[f].row
    BY <2>1 DEF AllStages, UploadStage
  <2>3. CASE image[f].row
    <3> DEFINE row == Reuploaded(image[f], q.form)
               sets == {"enabled"} \cup (IF q.form = "" THEN {} ELSE {"public"})
               n == [q EXCEPT !.pc = "upload_save", !.rows[f] = row, !.sets = sets]
    <3>1. req' = [req EXCEPT ![r] = n]
      BY <1>8, <2>3 DEF UploadGet
    <3>2. /\ row.row /\ row.enabled
          /\ q.form # "" => row.public = (q.form = "true")
      BY <1>3, <2>3 DEF Reuploaded, Row
    <3> HIDE DEF row, sets
    <3>3. /\ n.pc = "upload_save" /\ n.op = q.op /\ n.f = f /\ n.fresh = q.fresh
          /\ n.rows[f] = row /\ n.form = q.form /\ n.linked = q.linked
      BY <1>1, <1>2 DEF Request
    <3> HIDE DEF n
    <3>4. Apart(r) /\ Links' /\ req'[r] = n
      BY <1>1, <2>1, <3>1, <3>3, MovesApart
    <3>5. AllStages(r) /\ q.op = "UploadImage" => UploadStage(r)'
      BY <2>1, <2>2, <2>3, <3>2, <3>3, <3>4 DEF UploadStage
    <3> QED BY <1>5, <3>3, <3>4, <3>5
  <2>4. CASE ~image[f].row
    <3>1. Goto(r, "upload_insert")
      BY <1>8, <2>4 DEF UploadGet
    <3>2. /\ Apart(r) /\ Links' /\ req'[r].pc = "upload_insert" /\ req'[r].op = q.op
          /\ req'[r].f = f /\ req'[r].fresh = q.fresh
      BY <1>1, <2>1, <3>1, GotoApart
    <3>3. AllStages(r) /\ q.op = "UploadImage" => UploadStage(r)'
      BY <2>1, <2>2, <3>2 DEF UploadStage
    <3> QED BY <1>5, <3>2, <3>3
  <2> QED BY <2>3, <2>4
<1>9. CASE UploadInsert(r)
  <2>1. q.pc = "upload_insert" /\ UNCHANGED dir
    BY <1>9 DEF UploadInsert, At
  <2>2. CASE /\ image' = [image EXCEPT ![f] = NewRow(q.form = "true")]
             /\ Goto(r, "answered")
             /\ UNCHANGED file
    <3>1. /\ Apart(r) /\ Links' /\ req'[r].pc = "answered" /\ req'[r].op = q.op
          /\ req'[r].f = f /\ req'[r].fresh = q.fresh /\ req'[r].form = q.form
      BY <1>1, <2>2, GotoApart
    <3>2. image'[f] = NewRow(q.form = "true")
      BY <1>1, <1>2, <2>2 DEF Tables
    <3>3. /\ image'[f].row /\ image'[f].enabled
          /\ image'[f].public = (q.form = "true")
      BY <3>2 DEF NewRow
    <3>4. AllStages(r) /\ q.op = "UploadImage" => file[f] = "complete"
      BY <2>1 DEF AllStages, UploadStage
    <3>5. AllStages(r) /\ q.op = "UploadImage" => UploadStage(r)'
      BY <2>2, <3>1, <3>3, <3>4 DEF UploadStage
    <3> QED BY <1>5, <3>1, <3>5
  <2>3. CASE /\ file' = [file EXCEPT ![f] = "absent"]
             /\ req' = [Unlinked(f) EXCEPT ![r] = Idle]
    <3>1. ~Idle.linked /\ Idle.pc = "idle"
      BY DEF Idle
    <3> QED BY <1>1, <1>2, <2>3, <3>1, DropApart, NoPromise DEF Kept
  <2> QED BY <1>9, <2>2, <2>3 DEF UploadInsert
<1> QED BY <1>6, <1>7, <1>8, <1>9

-----------------------------------------------------------------------------
(* Extractions and saves.                                                  *)

\* The steps of an extraction, and the save of the row that any handler has read.
LEMMA ExtractStages ==
    ASSUME Inv, Links, NEW r \in Requests,
           \/ ExtractBootFiles(r) \/ ExtractBsdtar(r) \/ ExtractContents(r)
           \/ ExtractWindows(r) \/ ExtractCopy(r) \/ SaveImage(r)
    PROVE  Apart(r) /\ Links' /\ Kept(r)
<1> USE DEF ExtractBootFiles, ExtractBsdtar, ExtractContents, ExtractWindows, ExtractCopy,
            SaveImage
<1> DEFINE q == req[r]
           f == req[r].f
<1>1. Tables /\ InFlight /\ q \in Request /\ Sound(q)
  BY RequestTyped DEF Inv
<1>2. f \in Files
  BY <1>1 DEF At, Sound, Named, Steps
<1>3. UNCHANGED file
  OBVIOUS
<1>4. dir[f] \in DirStates /\ image[f] \in Row /\ q.rows[f] \in Row
  BY <1>1, <1>2 DEF Tables, Request
<1>5. CASE ExtractBootFiles(r) \/ ExtractBsdtar(r)
  <2>1. PICK s \in {"extract_contents", "extract_copy"} :
              /\ q.pc = "extract_boot" /\ Goto(r, s)
              /\ s = "extract_contents" => dir' = [dir EXCEPT ![f] = WithBootFiles(@)]
    BY <1>5 DEF At
  <2>2. s = "extract_contents" => HasBootFiles(dir'[f])
    BY <1>1, <1>2, <2>1 DEF Tables, HasBootFiles, WithBootFiles
  <2>3. InFlight /\ Goto(r, s) /\ UNCHANGED file
    BY <1>1, <1>3, <2>1
  <2>4. /\ Apart(r) /\ Links' /\ req'[r].pc = s /\ req'[r].op = q.op
        /\ req'[r].f = f
    BY <2>3, GotoApart
  <2>5. AllStages(r) => q.op = "ExtractImage" \/ q.op \notin Watched
    BY <2>1, OpAt
  <2>6. CASE AllStages(r) /\ q.op = "ExtractImage"
    BY <2>2, <2>4, <2>6 DEF Kept, AllStages, UploadStage, ExtractStage, DeleteStage, ScanStage
  <2> QED BY <2>4, <2>5, <2>6, NoPromise DEF Kept
<1>6. CASE ExtractContents(r) \/ ExtractWindows(r) \/ ExtractCopy(r)
  <2>1. PICK w \in BOOLEAN :
              /\ ExtractDone(r, w)
              /\ q.pc \in {"extract_boot", "extract_contents", "extract_copy"}
              /\ \/ q.pc = "extract_contents" /\ ContentsWritten(r)
                 \/ w /\ ContentsWritten(r)
                 \/ HasContents(dir[f]) /\ dir' = [dir EXCEPT ![f] = WithBootFiles(@)]
    BY <1>6 DEF At
  <2>2. (q.pc = "extract_contents" => HasBootFiles(dir[f])) => Unpacked(dir'[f], w)
    BY <1>1, <1>2, <2>1 DEF Tables, ContentsWritten, WithContents, WithBootFiles,
                            HasContents, HasBootFiles, Unpacked
  <2>3. PICK n : /\ req' = [req EXCEPT ![r] = n] /\ req'[r] = n
                 /\ n.pc = "save" /\ n.op = q.op /\ n.f = f /\ n.windows = w
                 /\ n.linked = q.linked
                 /\ n.rows[f].extracted /\ n.rows[f].method = "kernel"
    BY <1>1, <1>2, <2>1, ExtractDoneIs
  <2>4. Apart(r) /\ Links'
    BY <1>1, <1>3, <2>3, MovesApart
  <2>5. AllStages(r) => q.op = "ExtractImage" \/ q.op \notin Watched
    BY <2>1, OpAt
  <2>6. CASE AllStages(r) /\ q.op = "ExtractImage"
    <3>1. q.pc = "extract_contents" => HasBootFiles(dir[f])
      BY <2>6 DEF AllStages, ExtractStage
    <3>2. Unpacked(dir'[req'[r].f], req'[r].windows)
      BY <2>2, <2>3, <3>1
    <3>3. /\ req'[r].pc = "save" /\ req'[r].op = "ExtractImage"
          /\ req'[r].rows[req'[r].f].extracted
          /\ req'[r].rows[req'[r].f].method = "kernel"
      BY <2>3, <2>6
    <3> HIDE DEF ExtractBootFiles, ExtractBsdtar, ExtractContents, ExtractWindows,
                 ExtractCopy, SaveImage
    <3>4. ExtractStage(r)'
      BY <3>2, <3>3 DEF ExtractStage
    <3>5. UploadStage(r)' /\ DeleteStage(r)' /\ ScanStage(r)'
      BY <3>3 DEF UploadStage, DeleteStage, ScanStage
    <3>6. AllStages(r)'
      BY <3>4, <3>5 DEF AllStages
    <3> QED BY <2>4, <3>6 DEF Kept
  <2> QED BY <2>3, <2>4, <2>5, <2>6, NoPromise DEF Kept
<1>7. CASE SaveImage(r)
  <2>1. /\ q.pc \in {"save", "upload_save"} /\ Goto(r, "answered") /\ UNCHANGED dir
        /\ Saved(f, q.rows[f])
    BY <1>7 DEF SaveImage
  <2>2. InFlight /\ Goto(r, "answered") /\ UNCHANGED file
    BY <1>1, <1>3, <2>1
  <2>3. /\ Apart(r) /\ Links' /\ req'[r].pc = "answered" /\ req'[r].op = q.op
        /\ req'[r].f = f /\ req'[r].form = q.form /\ req'[r].fresh = q.fresh
        /\ req'[r].windows = q.windows
    BY <2>2, GotoApart
  <2>4. image'[f] = IF image[f].row THEN q.rows[f]
                    ELSE [q.rows[f] EXCEPT !.enabled = TRUE, !.sanboot = TRUE]
    BY <1>1, <1>2, <2>1 DEF Tables, Saved
  <2>5. /\ image'[f].row = q.rows[f].row /\ image'[f].public = q.rows[f].public
        /\ image'[f].extracted = q.rows[f].extracted
        /\ image'[f].method = q.rows[f].method
        /\ q.rows[f].enabled => image'[f].enabled
    BY <1>4, <2>4 DEF Row
  <2>6. CASE AllStages(r) /\ q.op = "UploadImage"
    <3>1. /\ file[f] = "complete" /\ ~q.fresh /\ q.rows[f].row /\ q.rows[f].enabled
          /\ q.form # "" => q.rows[f].public = (q.form = "true")
      BY <2>1, <2>6 DEF AllStages, UploadStage
    <3> QED BY <1>3, <2>3, <2>5, <2>6, <3>1
            DEF Kept, AllStages, UploadStage, ExtractStage, DeleteStage, ScanStage
  <2>7. CASE AllStages(r) /\ q.op = "ExtractImage"
    <3>1. /\ Unpacked(dir[f], q.windows)
          /\ q.rows[f].extracted /\ q.rows[f].method = "kernel"
      BY <2>1, <2>7 DEF AllStages, ExtractStage
    <3> QED BY <2>1, <2>3, <2>5, <2>7, <3>1
            DEF Kept, AllStages, UploadStage, ExtractStage, DeleteStage, ScanStage
  <2>8. AllStages(r) => q.op \in {"UploadImage", "ExtractImage"} \/ q.op \notin Watched
    BY <2>1, OpAt
  <2> QED BY <2>3, <2>6, <2>7, <2>8, NoPromise DEF Kept
<1> QED BY <1>5, <1>6, <1>7

-----------------------------------------------------------------------------
(* Deletions.                                                              *)

\* The file, the directory and the row go one after the other.
LEMMA DeleteStages ==
    ASSUME Inv, Links, NEW r \in Requests,
           DeleteFile(r) \/ DeleteDir(r) \/ DeleteImageRow(r)
    PROVE  Apart(r) /\ Links' /\ Kept(r)
<1> DEFINE q == req[r]
           f == req[r].f
<1>1. Tables /\ InFlight /\ q \in Request /\ Sound(q)
  BY RequestTyped DEF Inv
<1>2. f \in Files
  BY <1>1 DEF DeleteFile, DeleteDir, DeleteImageRow, At, Sound, Named, Steps
<1>3. AllStages(r) => q.op = "DeleteWithFile" \/ q.op \notin Watched
  BY OpAt DEF DeleteFile, DeleteDir, DeleteImageRow, At
<1>4. ASSUME req'[r].op = q.op, AllStages(r) /\ q.op = "DeleteWithFile" => DeleteStage(r)'
      PROVE  Kept(r)
  BY <1>3, <1>4, NoPromise DEF Kept, AllStages, UploadStage, ExtractStage, ScanStage
<1>5. CASE DeleteFile(r)
  <2> DEFINE u == Unlinked(f)
             n == [u[r] EXCEPT !.pc = "delete_dir"]
  <2>1. /\ file' = [file EXCEPT ![f] = "absent"] /\ req' = [u EXCEPT ![r] = n]
    BY <1>5 DEF DeleteFile
  <2>2. u[r] = [q EXCEPT !.linked = FALSE]
    BY <1>1, <1>2, UnlinkedIs
  <2> HIDE DEF u
  <2>3. n.pc = "delete_dir" /\ n.op = q.op /\ n.f = f /\ ~n.linked
    BY <1>1, <2>2 DEF Request
  <2> HIDE DEF n
  <2>4. Apart(r) /\ Links' /\ req'[r] = n
    BY <1>1, <1>2, <2>1, <2>3, DropApart DEF u
  <2>5. file'[f] = "absent"
    BY <1>1, <1>2, <2>1 DEF Tables
  <2>6. DeleteStage(r)'
    BY <2>3, <2>4, <2>5 DEF DeleteStage
  <2> QED BY <1>4, <2>3, <2>4, <2>6
<1>6. CASE DeleteDir(r)
  <2>1. /\ q.pc = "delete_dir" /\ Goto(r, "delete_row") /\ UNCHANGED <<file, image>>
        /\ dir' = [dir EXCEPT ![f] = "none"]
    BY <1>6 DEF DeleteDir, At
  <2>2. /\ Apart(r) /\ Links' /\ req'[r].pc = "delete_row" /\ req'[r].op = q.op
        /\ req'[r].f = f /\ req'[r].err = q.err
    BY <1>1, <2>1, GotoApart
  <2>3. dir'[f] = "none"
    BY <1>1, <1>2, <2>1 DEF Tables
  <2>4. AllStages(r) /\ q.op = "DeleteWithFile" => q.err \/ file[f] = "absent"
    BY <2>1 DEF AllStages, DeleteStage
  <2>5. AllStages(r) /\ q.op = "DeleteWithFile" => DeleteStage(r)'
    BY <2>1, <2>2, <2>3, <2>4 DEF DeleteStage
  <2> QED BY <1>4, <2>2, <2>5
<1>7. CASE DeleteImageRow(r)
  <2>1. /\ q.pc = "delete_row" /\ Goto(r, "answered") /\ UNCHANGED <<file, dir>>
        /\ image' = [image EXCEPT ![f] = NoRow]
    BY <1>7 DEF DeleteImageRow, At
  <2>2. /\ Apart(r) /\ Links' /\ req'[r].pc = "answered" /\ req'[r].op = q.op
        /\ req'[r].f = f /\ req'[r].err = q.err
    BY <1>1, <2>1, GotoApart
  <2>3. image'[f] = NoRow
    BY <1>1, <1>2, <2>1 DEF Tables
  <2>4. ~image'[f].row
    BY <2>3 DEF NoRow
  <2>5. AllStages(r) /\ q.op = "DeleteWithFile" =>
           q.err \/ (file[f] = "absent" /\ dir[f] = "none")
    BY <2>1 DEF AllStages, DeleteStage
  <2>6. AllStages(r) /\ q.op = "DeleteWithFile" => DeleteStage(r)'
    BY <2>1, <2>2, <2>4, <2>5 DEF DeleteStage
  <2> QED BY <1>4, <2>2, <2>6
<1> QED BY <1>5, <1>6, <1>7

-----------------------------------------------------------------------------
(* Listings and scans.                                                     *)

\* A request that has treated one of its files, with an error or without.
LEMMA TodoApart ==
    ASSUME InFlight, Links, NEW r \in Requests, NEW T, UNCHANGED file,
           \/ req' = [req EXCEPT ![r].todo = T]
           \/ req' = [req EXCEPT ![r].todo = T, ![r].err = TRUE]
    PROVE  /\ Apart(r) /\ Links'
           /\ req'[r].pc = req[r].pc /\ req'[r].op = req[r].op
           /\ req'[r].walk = req[r].walk /\ req'[r].todo = T
           /\ req'[r].err = req[r].err \/ req'[r].err
<1>1. req[r] \in Request
  BY DEF InFlight
<1>2. ASSUME NEW n, req' = [req EXCEPT ![r] = n], n.pc = req[r].pc, n.op = req[r].op,
             n.f = req[r].f, n.walk = req[r].walk, n.todo = T, n.linked = req[r].linked,
             n.err = req[r].err \/ n.err
      PROVE  /\ Apart(r) /\ Links'
             /\ req'[r].pc = req[r].pc /\ req'[r].op = req[r].op
             /\ req'[r].walk = req[r].walk /\ req'[r].todo = T
             /\ req'[r].err = req[r].err \/ req'[r].err
  <2>1. /\ req' = [req EXCEPT ![r] = n] /\ (n.linked => req[r].linked /\ n.f = req[r].f)
        /\ \A g \in Files : file'[g] = "absent" => file[g] = "absent"
    BY <1>2
  <2>2. Apart(r) /\ Links' /\ req'[r] = n
    BY <2>1, MovesApart
  <2> QED BY <1>2, <2>2
<1>3. CASE req' = [req EXCEPT ![r].todo = T]
  <2> DEFINE n == [req[r] EXCEPT !.todo = T]
  <2>1. /\ req' = [req EXCEPT ![r] = n] /\ n.pc = req[r].pc /\ n.op = req[r].op
        /\ n.f = req[r].f /\ n.walk = req[r].walk /\ n.todo = T /\ n.linked = req[r].linked
        /\ n.err = req[r].err
    BY <1>1, <1>3 DEF Request
  <2> HIDE DEF n
  <2> QED BY <1>2, <2>1
<1>4. CASE req' = [req EXCEPT ![r].todo = T, ![r].err = TRUE]
  <2> DEFINE n == [req[r] EXCEPT !.todo = T, !.err = TRUE]
  <2>1. /\ req' = [req EXCEPT ![r] = n] /\ n.pc = req[r].pc /\ n.op = req[r].op
        /\ n.f = req[r].f /\ n.walk = req[r].walk /\ n.todo = T /\ n.linked = req[r].linked
        /\ n.err
    BY <1>1, <1>4 DEF Request
  <2> HIDE DEF n
  <2> QED BY <1>2, <2>1
<1> QED BY <1>3, <1>4

\* A scan registers what it has walked and deletes what it has not.
LEMMA ScanStages ==
    ASSUME Inv, Links, NEW r \in Requests,
           SyncImages(r) \/ ScanList(r) \/ ScanDelete(r) \/ ScanRemoveDir(r)
    PROVE  Apart(r) /\ Links' /\ Kept(r)
<1> DEFINE q == req[r]
<1>1. Tables /\ InFlight /\ q \in Request /\ q.todo \in SUBSET Files
  BY RequestTyped DEF Inv
<1>2. UNCHANGED file /\ OnDisk' = OnDisk /\ OnDisk \in SUBSET Files
  BY DEF SyncImages, ScanList, ScanDelete, ScanRemoveDir, OnDisk
<1>3. AllStages(r) => q.op = "ScanImages" \/ q.op \notin Watched
  BY OpAt DEF SyncImages, ScanList, ScanDelete, ScanRemoveDir, At
<1>4. ASSUME req'[r].op = q.op, AllStages(r) /\ q.op = "ScanImages" => ScanStage(r)'
      PROVE  Kept(r)
  BY <1>3, <1>4, NoPromise DEF Kept, AllStages, UploadStage, ExtractStage, DeleteStage
<1>5. CASE SyncImages(r)
  <2>1. q.pc = "sync"
    BY <1>5 DEF SyncImages, At
  <2>2. AllStages(r) /\ q.op = "ScanImages" =>
           q.walk = OnDisk /\ \A g \in OnDisk \ q.todo : image[g].row
    BY <2>1 DEF AllStages, ScanStage
  <2>3. CASE /\ q.todo = {} /\ UNCHANGED image
             /\ Goto(r, IF q.op = "ScanImages" THEN "scan_list" ELSE "detect_list")
    <3> DEFINE s == IF q.op = "ScanImages" THEN "scan_list" ELSE "detect_list"
    <3>1. InFlight /\ UNCHANGED file /\ Goto(r, s)
      BY <1>1, <1>2, <2>3
    <3>2. q.op = "ScanImages" => s = "scan_list"
      OBVIOUS
    <3> HIDE DEF s
    <3>3. /\ Apart(r) /\ Links' /\ req'[r].pc = s /\ req'[r].op = q.op
          /\ req'[r].walk = q.walk
      BY <3>1, GotoApart
    <3>4. AllStages(r) /\ q.op = "ScanImages" => ScanStage(r)'
      BY <1>2, <2>2, <2>3, <3>2, <3>3 DEF ScanStage
    <3> QED BY <1>4, <3>3, <3>4
  <2>4. ASSUME NEW g \in q.todo, image' = [image EXCEPT ![g] = Synced(@)],
               req' = [req EXCEPT ![r].todo = @ \ {g}]
        PROVE  Apart(r) /\ Links' /\ Kept(r)
    <3> DEFINE T == q.todo \ {g}
    <3>1. InFlight /\ UNCHANGED file /\ req' = [req EXCEPT ![r].todo = T]
      BY <1>1, <1>2, <2>4
    <3>2. \A h \in Files : h = g \/ image'[h] = image[h]
      BY <1>1, <2>4 DEF Tables
    <3>3. image'[g] = Synced(image[g])
      BY <1>1, <2>4 DEF Tables
    <3>4. image'[g].row
      BY <3>3 DEF Synced, NewRow
    <3>5. ASSUME NEW h \in OnDisk \ T, AllStages(r), q.op = "ScanImages"
          PROVE  image'[h].row
      BY <1>2, <2>2, <3>2, <3>4, <3>5
    <3> HIDE DEF T
    <3>6. /\ Apart(r) /\ Links' /\ req'[r].pc = q.pc /\ req'[r].op = q.op
          /\ req'[r].walk = q.walk /\ req'[r].todo = T
      BY <3>1, TodoApart
    <3>7. AllStages(r) /\ q.op = "ScanImages" => ScanStage(r)'
      BY <1>2, <2>1, <2>2, <3>5, <3>6 DEF ScanStage
    <3> QED BY <1>4, <3>6, <3>7
  <2> QED BY <1>5, <2>3, <2>4 DEF SyncImages
<1>6. CASE ScanList(r)
  <2> DEFINE S == {g \in Files \ q.walk : image[g].row}
             n == [q EXCEPT !.pc = "scan_delete", !.todo = S]
  <2>1. q.pc = "scan_list" /\ UNCHANGED image /\ req' = [req EXCEPT ![r] = n]
    BY <1>6 DEF ScanList, At
  <2>2. \A g \in Files : g \in S <=> g \notin q.walk /\ image[g].row
    OBVIOUS
  <2> HIDE DEF S
  <2>3. /\ n.pc = "scan_delete" /\ n.op = q.op /\ n.f = q.f /\ n.todo = S /\ n.err = q.err
        /\ n.linked = q.linked
    BY <1>1 DEF Request
  <2> HIDE DEF n
  <2>4. Apart(r) /\ Links' /\ req'[r] = n
    BY <1>1, <1>2, <2>1, <2>3, MovesApart
  <2>5. AllStages(r) /\ q.op = "ScanImages" =>
           q.err \/ (q.walk = OnDisk /\ \A g \in OnDisk : image[g].row)
    BY <2>1 DEF AllStages, ScanStage
  <2>6. AllStages(r) /\ q.op = "ScanImages" => ScanStage(r)'
    BY <1>2, <2>1, <2>2, <2>3, <2>4, <2>5 DEF ScanStage
  <2> QED BY <1>4, <2>3, <2>4, <2>6
<1>7. CASE ScanDelete(r)
  <2>1. q.pc = "scan_delete"
    BY <1>7 DEF ScanDelete, At
  <2>2. AllStages(r) /\ q.op = "ScanImages" =>
           q.err \/ \A g \in Files : /\ g \in OnDisk => image[g].row /\ g \notin q.todo
                                     /\ g \notin OnDisk /\ image[g].row => g \in q.todo
    BY <2>1 DEF AllStages, ScanStage
  <2>3. CASE q.todo = {} /\ Goto(r, "answered") /\ UNCHANGED image
    <3>1. InFlight /\ UNCHANGED file /\ Goto(r, "answered")
      BY <1>1, <1>2, <2>3
    <3>2. /\ Apart(r) /\ Links' /\ req'[r].pc = "answered" /\ req'[r].op = q.op
          /\ req'[r].err = q.err
      BY <3>1, GotoApart
    <3>3. AllStages(r) /\ q.op = "ScanImages" =>
             q.err \/ \A g \in Files : image[g].row <=> g \in OnDisk
      <4>1. image \in [Files -> Row]
        BY <1>1 DEF Tables
      <4>2. \A g \in Files : image[g].row \in BOOLEAN
        BY <4>1 DEF Row
      <4> QED BY <2>2, <2>3, <4>2
    <3>4. AllStages(r) /\ q.op = "ScanImages" => ScanStage(r)'
      BY <1>2, <2>3, <3>2, <3>3 DEF ScanStage
    <3> QED BY <1>4, <3>2, <3>4
  <2>4. ASSUME NEW g \in q.todo, NEW s \in {"scan_delete", "scan_dir"}, NEW n,
               \A h \in Files : h # g => image'[h] = image[h],
               ~image'[g].row,
               req' = [req EXCEPT ![r] = n],
               n.pc = s, n.op = q.op, n.f = q.f, n.linked = q.linked, n.err = q.err,
               n.todo = q.todo \ {g}
        PROVE  Apart(r) /\ Links' /\ Kept(r)
    <3> DEFINE T == q.todo \ {g}
    <3>1. Apart(r) /\ Links' /\ req'[r] = n
      BY <1>1, <1>2, <2>4, MovesApart
    <3>2. ASSUME NEW h \in Files, AllStages(r), q.op = "ScanImages", ~q.err
          PROVE  /\ h \in OnDisk => image'[h].row /\ h \notin T
                 /\ h \notin OnDisk /\ image'[h].row => h \in T
      BY <1>2, <2>2, <2>4, <3>2
    <3> HIDE DEF T
    <3>3. AllStages(r) /\ q.op = "ScanImages" => ScanStage(r)'
      BY <1>2, <2>1, <2>4, <3>1, <3>2 DEF ScanStage, T
    <3> QED BY <1>4, <2>4, <3>1, <3>3
  <2>5. ASSUME NEW g \in q.todo, image' = [image EXCEPT ![g] = NoRow],
               req' = [req EXCEPT ![r].pc = "scan_dir", ![r].at = g, ![r].todo = @ \ {g}]
        PROVE  Apart(r) /\ Links' /\ Kept(r)
    <3> DEFINE n == [q EXCEPT !.pc = "scan_dir", !.at = g, !.todo = q.todo \ {g}]
    <3>1. req' = [req EXCEPT ![r] = n]
      BY <2>5
    <3>2. /\ n.pc = "scan_dir" /\ n.op = q.op /\ n.f = q.f /\ n.linked = q.linked
          /\ n.err = q.err /\ n.todo = q.todo \ {g}
      BY <1>1 DEF Request
    <3>3. ~image'[g].row /\ \A h \in Files : h # g => image'[h] = image[h]
      BY <1>1, <2>5 DEF Tables, NoRow
    <3> HIDE DEF n
    <3> QED BY <2>4, <3>1, <3>2, <3>3
  <2>6. ASSUME NEW g \in q.todo, ~image[g].row, UNCHANGED image,
               req' = [req EXCEPT ![r].todo = @ \ {g}]
        PROVE  Apart(r) /\ Links' /\ Kept(r)
    <3> DEFINE n == [q EXCEPT !.todo = q.todo \ {g}]
    <3>1. req' = [req EXCEPT ![r] = n]
      BY <2>6
    <3>2. /\ n.pc = "scan_delete" /\ n.op = q.op /\ n.f = q.f /\ n.linked = q.linked
          /\ n.err = q.err /\ n.todo = q.todo \ {g}
      BY <1>1, <2>1 DEF Request
    <3> HIDE DEF n
    <3> QED BY <2>4, <2>6, <3>1, <3>2
  <2> QED BY <1>7, <2>3, <2>5, <2>6 DEF ScanDelete
<1>8. CASE ScanRemoveDir(r)
  <2>1. q.pc = "scan_dir" /\ Goto(r, "scan_delete") /\ UNCHANGED image
    BY <1>8 DEF ScanRemoveDir, At
  <2>2. InFlight /\ UNCHANGED file /\ Goto(r, "scan_delete")
    BY <1>1, <1>2, <2>1
  <2>3. /\ Apart(r) /\ Links' /\ req'[r].pc = "scan_delete" /\ req'[r].op = q.op
        /\ req'[r].err = q.err /\ req'[r].todo = q.todo
    BY <2>2, GotoApart
  <2>4. AllStages(r) /\ q.op = "ScanImages" => ScanStage(r)'
    BY <1>2, <2>1, <2>3 DEF AllStages, ScanStage
  <2> QED BY <1>4, <2>3, <2>4
<1> QED BY <1>5, <1>6, <1>7, <1>8

-----------------------------------------------------------------------------
(* Requests whose answers promise nothing, and answers.                    *)

\* The steps of the other requests.
LEMMA OtherStages ==
    ASSUME Inv, Links, NEW r \in Requests,
           \/ DownloadCreate(r) \/ DownloadCopied(r) \/ DownloadSync(r) \/ DownloadGet(r)
           \/ DetectList(r) \/ DetectManualExtractions(r) \/ NetbootCopy(r) \/ ResetGet(r)
           \/ Answer(r)
    PROVE  Apart(r) /\ Links' /\ Kept(r)
<1> DEFINE q == req[r]
           f == req[r].f
           Plain == AllStages(r) => q.op \notin Watched
<1>1. Tables /\ InFlight /\ q \in Request /\ Sound(q)
  BY RequestTyped DEF Inv
<1>2. Plain \/ Answer(r)
  BY OpAt DEF DownloadCreate, DownloadCopied, DownloadSync, DownloadGet, DetectList,
              DetectManualExtractions, NetbootCopy, ResetGet, At
<1>3. CASE Answer(r)
  BY <1>1, <1>3, FinishApart DEF Answer
<1>4. ASSUME NEW s, Goto(r, s), \A g \in Files : file'[g] = "absent" => file[g] = "absent",
             Plain
      PROVE  Apart(r) /\ Links' /\ Kept(r)
  <2>1. Apart(r) /\ Links' /\ req'[r].op = q.op
    BY <1>1, <1>4, GotoApart
  <2> QED BY <1>4, <2>1, NoPromise DEF Kept
<1>5. ASSUME NEW n, req' = [req EXCEPT ![r] = n], UNCHANGED file,
             n.op = q.op, n.f = q.f, n.linked = q.linked, Plain
      PROVE  Apart(r) /\ Links' /\ Kept(r)
  <2>1. Apart(r) /\ Links' /\ req'[r] = n
    BY <1>1, <1>5, MovesApart
  <2> QED BY <1>5, <2>1, NoPromise DEF Kept
<1>6. CASE DownloadCreate(r) /\ Plain
  <2> DEFINE n == [q EXCEPT !.pc = "download_copy", !.linked = TRUE]
             new == IF Writers(f) = {} THEN "partial" ELSE "mixed"
  <2>1. n.op = q.op /\ n.f = f
    BY <1>1 DEF Request
  <2>2. req' = [req EXCEPT ![r] = n] /\ file' = [file EXCEPT ![f] = new]
    BY <1>6 DEF DownloadCreate, CreateFile
  <2>3. new # "absent" /\ f \in Files
    BY <1>1, <1>6 DEF DownloadCreate, At, Sound, Named, Steps
  <2> HIDE DEF n, new
  <2>4. file'[f] = new /\ \A g \in Files : file'[g] = "absent" => file[g] = "absent"
    BY <1>1, <2>2, <2>3 DEF Tables
  <2>5. Apart(r) /\ Links' /\ req'[r] = n
    BY <1>1, <2>1, <2>2, <2>3, <2>4, SlotApart
  <2> QED BY <1>6, <2>1, <2>5, NoPromise DEF Kept
<1>7. CASE DownloadCopied(r) /\ Plain
  <2>1. file' = [file EXCEPT ![f] = IF q.linked /\ @ = "partial" THEN "complete" ELSE @]
    BY <1>7 DEF DownloadCopied, FileCopied
  <2>2. \A g \in Files : file'[g] = "absent" => file[g] = "absent"
    BY <1>1, <2>1 DEF Tables
  <2> QED BY <1>4, <1>7, <2>2 DEF DownloadCopied
<1>8. CASE (DownloadSync(r) \/ NetbootCopy(r)) /\ Plain
  <2>1. UNCHANGED file /\ (Goto(r, "download_get") \/ Goto(r, "save"))
    BY <1>8 DEF DownloadSync, NetbootCopy
  <2> QED BY <1>4, <1>8, <2>1
<1>9. CASE DownloadGet(r) /\ Plain
  <2>1. UNCHANGED file
    BY <1>9 DEF DownloadGet
  <2>2. CASE Finish(r)
    BY <1>1, <2>1, <2>2, FinishApart
  <2>3. CASE req' = [req EXCEPT ![r].pc = "save", ![r].rows[f] = image[f]]
    <3> DEFINE n == [q EXCEPT !.pc = "save", !.rows[f] = image[f]]
    <3>1. n.op = q.op /\ n.f = q.f /\ n.linked = q.linked
      BY <1>1 DEF Request
    <3>2. req' = [req EXCEPT ![r] = n]
      BY <2>3
    <3> HIDE DEF n
    <3> QED BY <1>5, <1>9, <2>1, <3>1, <3>2
  <2> QED BY <1>9, <2>2, <2>3 DEF DownloadGet
<1>10. CASE DetectList(r) /\ Plain
  <2> DEFINE n == [q EXCEPT !.pc = "detect", !.rows = image, !.sets = {"extracted", "method"},
                            !.todo = {g \in Files : image[g].row /\ ~image[g].extracted}]
  <2>1. n.op = q.op /\ n.f = q.f /\ n.linked = q.linked
    BY <1>1 DEF Request
  <2>2. req' = [req EXCEPT ![r] = n] /\ UNCHANGED file
    BY <1>10 DEF DetectList
  <2> HIDE DEF n
  <2> QED BY <1>5, <1>10, <2>1, <2>2
<1>11. CASE DetectManualExtractions(r) /\ Plain
  <2>1. UNCHANGED file
    BY <1>11 DEF DetectManualExtractions
  <2>2. CASE Goto(r, "answered")
    BY <1>4, <1>11, <2>1, <2>2
  <2>3. ASSUME NEW T, req' = [req EXCEPT ![r].todo = T]
        PROVE  Apart(r) /\ Links' /\ Kept(r)
    <3>1. Apart(r) /\ Links' /\ req'[r].op = q.op
      BY <1>1, <2>1, <2>3, TodoApart
    <3> QED BY <1>11, <3>1, NoPromise DEF Kept
  <2>4. CASE \E g \in q.todo : req' = [req EXCEPT ![r].todo = @ \ {g}]
    <3>1. PICK g \in q.todo : req' = [req EXCEPT ![r].todo = q.todo \ {g}]
      BY <2>4
    <3> QED BY <2>3, <3>1
  <2> QED BY <1>11, <2>2, <2>4 DEF DetectManualExtractions
<1>12. CASE ResetGet(r) /\ Plain
  <2>1. UNCHANGED file
    BY <1>12 DEF ResetGet
  <2>2. CASE Finish(r)
    BY <1>1, <2>1, <2>2, FinishApart
  <2> DEFINE row == [image[f] EXCEPT !.extracted = FALSE, !.method = "sanboot"]
             sets == {"extracted", "method"}
             n == [q EXCEPT !.pc = "save", !.rows[f] = row, !.sets = sets]
  <2>3. CASE req' = [req EXCEPT ![r] = n]
    <3> HIDE DEF row, sets
    <3>1. n.op = q.op /\ n.f = q.f /\ n.linked = q.linked
      BY <1>1 DEF Request
    <3> HIDE DEF n
    <3> QED BY <1>5, <1>12, <2>1, <2>3, <3>1
  <2> QED BY <1>12, <2>2, <2>3 DEF ResetGet
<1> QED BY <1>2, <1>3, <1>6, <1>7, <1>8, <1>9, <1>10, <1>11, <1>12

\* Every step of a request keeps its stage.
LEMMA StepStages ==
    ASSUME Inv, Links, NEW r \in Requests, RequestStep(r)
    PROVE  Apart(r) /\ Links' /\ Kept(r)
BY UploadStages, ExtractStages, DeleteStages, ScanStages, OtherStages DEF RequestStep

-----------------------------------------------------------------------------
(* Failures.                                                               *)

\* A failure ends the request, or the answer will not claim success.
LEMMA ErrorStages ==
    ASSUME Inv, Links, NEW r \in Requests, RequestError(r)
    PROVE  Apart(r) /\ Links' /\ Kept(r)
<1> DEFINE q == req[r]
           f == req[r].f
           removes == q.pc \in {"upload_copy", "upload_insert", "upload_save", "download_copy"}
<1>1. /\ Tables /\ InFlight /\ q \in Request /\ q.pc \in Steps
      /\ q.pc \in Named => f \in Files
  BY RequestTyped DEF Inv
<1>2. CASE removes
  <2>1. f \in Files
    BY <1>1, <1>2 DEF Named, Steps
  <2>2. file' = [file EXCEPT ![f] = "absent"] /\ req' = [Unlinked(f) EXCEPT ![r] = Idle]
    BY <1>2 DEF RequestError
  <2>3. ~Idle.linked /\ Idle.pc = "idle"
    BY DEF Idle
  <2> QED BY <1>1, <2>1, <2>2, <2>3, DropApart, NoPromise DEF Kept
<1>3. ~removes => UNCHANGED file
  BY DEF RequestError
<1>4. UNCHANGED <<dir, image>> /\ q.pc \notin {"idle", "answered", "detect", "scan_delete", "scan_dir"}
  BY DEF RequestError
<1>5. ASSUME NEW s, req' = [req EXCEPT ![r].pc = s, ![r].err = TRUE], UNCHANGED file
      PROVE  /\ Apart(r) /\ Links' /\ req'[r].pc = s /\ req'[r].op = q.op /\ req'[r].f = f
             /\ req'[r].err
  <2> DEFINE n == [q EXCEPT !.pc = s, !.err = TRUE]
  <2>1. n.pc = s /\ n.op = q.op /\ n.f = f /\ n.linked = q.linked /\ n.err
    BY <1>1 DEF Request
  <2>2. req' = [req EXCEPT ![r] = n]
    BY <1>5
  <2> HIDE DEF n
  <2>3. Apart(r) /\ Links' /\ req'[r] = n
    BY <1>1, <1>5, <2>1, <2>2, MovesApart
  <2> QED BY <2>1, <2>3
<1>6. CASE q.pc = "upload_get"
  <2>1. req' = [req EXCEPT ![r].pc = "upload_insert", ![r].err = TRUE]
    BY <1>6 DEF RequestError
  <2>2. UNCHANGED file
    BY <1>3, <1>6
  <2>3. /\ Apart(r) /\ Links' /\ req'[r].pc = "upload_insert" /\ req'[r].op = q.op
        /\ req'[r].f = f
    BY <1>5, <2>1, <2>2
  <2>4. AllStages(r) => q.op = "UploadImage" \/ q.op \notin Watched
    BY <1>6, OpAt
  <2>5. CASE AllStages(r) /\ q.op = "UploadImage"
    <3>1. file[f] = "complete"
      BY <1>6, <2>5 DEF AllStages, UploadStage
    <3> QED BY <2>2, <2>3, <2>5, <3>1
            DEF Kept, AllStages, UploadStage, ExtractStage, DeleteStage, ScanStage
  <2> QED BY <2>3, <2>4, <2>5, NoPromise DEF Kept
<1>7. CASE q.pc = "download_sync" \/ q.pc = "detect_list"
  <2>1. PICK s \in {"download_get", "answered"} :
                req' = [req EXCEPT ![r].pc = s, ![r].err = TRUE]
    BY <1>7 DEF RequestError
  <2>2. UNCHANGED file
    BY <1>3, <1>7
  <2>3. Apart(r) /\ Links' /\ req'[r].op = q.op
    BY <1>5, <2>1, <2>2
  <2>4. AllStages(r) => q.op \notin Watched
    BY <1>7, OpAt
  <2> QED BY <2>3, <2>4, NoPromise DEF Kept
<1>8. CASE q.pc = "sync" \/ q.pc = "scan_list"
  <2>1. AllStages(r) => q.op = "ScanImages" \/ q.op \notin Watched
    BY <1>8, OpAt
  <2>2. PICK s : /\ req' = [req EXCEPT ![r].pc = s, ![r].err = TRUE]
                 /\ q.op = "ScanImages" => s \in {"scan_list", "answered"}
    BY <1>8 DEF RequestError
  <2>3. UNCHANGED file
    BY <1>3, <1>8
  <2>4. Apart(r) /\ Links' /\ req'[r].op = q.op /\ req'[r].pc = s /\ req'[r].err
    BY <1>5, <2>2, <2>3
  <2>5. CASE AllStages(r) /\ q.op = "ScanImages"
    BY <2>2, <2>4, <2>5 DEF Kept, AllStages, UploadStage, ExtractStage, DeleteStage, ScanStage
  <2> QED BY <2>1, <2>4, <2>5, NoPromise DEF Kept
<1>9. CASE q.pc = "delete_file" \/ q.pc = "delete_dir"
  <2>1. AllStages(r) => q.op = "DeleteWithFile" \/ q.op \notin Watched
    BY <1>9, OpAt
  <2>2. PICK s \in {"delete_dir", "delete_row"} :
                req' = [req EXCEPT ![r].pc = s, ![r].err = TRUE]
    BY <1>9 DEF RequestError
  <2>3. UNCHANGED file
    BY <1>3, <1>9
  <2>4. Apart(r) /\ Links' /\ req'[r].op = q.op /\ req'[r].pc = s /\ req'[r].err
    BY <1>5, <2>2, <2>3
  <2>5. CASE AllStages(r) /\ q.op = "DeleteWithFile"
    BY <2>2, <2>4, <2>5 DEF Kept, AllStages, UploadStage, ExtractStage, DeleteStage, ScanStage
  <2> QED BY <2>1, <2>4, <2>5, NoPromise DEF Kept
<1>10. CASE q.pc \in {"extract_boot", "extract_contents", "extract_copy"}
  <2> DEFINE m == [q EXCEPT !.pc = "extract_boot", !.reader = NextReader(q.reader)]
             n == [q EXCEPT !.pc = "save", !.op = "ExtractFailed"]
  <2>1. req' = [req EXCEPT ![r] = m] \/ req' = [req EXCEPT ![r] = n]
    BY <1>10 DEF RequestError
  <2>2. /\ n.op = "ExtractFailed" /\ n.f = f /\ n.linked = q.linked
        /\ m.op = q.op /\ m.f = f /\ m.linked = q.linked /\ m.pc = "extract_boot"
    BY <1>1 DEF Request
  <2> HIDE DEF n, m
  <2>3. UNCHANGED file
    BY <1>3, <1>10
  <2>4. Apart(r) /\ Links' /\ (req'[r] = n \/ req'[r] = m)
    BY <1>1, <2>1, <2>2, <2>3, MovesApart
  <2>5. CASE req'[r] = n
    <3>1. req'[r].op \notin Watched
      BY <2>2, <2>5 DEF Watched
    <3> QED BY <2>4, <3>1, NoPromise DEF Kept
  <2>6. CASE req'[r] = m
    <3>1. AllStages(r) => q.op = "ExtractImage" \/ q.op \notin Watched
      BY <1>10, OpAt
    <3>2. CASE AllStages(r) /\ q.op = "ExtractImage"
      BY <2>2, <2>4, <2>6, <3>2
         DEF Kept, AllStages, UploadStage, ExtractStage, DeleteStage, ScanStage
    <3> QED BY <2>2, <2>4, <2>6, <3>1, <3>2, NoPromise DEF Kept
  <2> QED BY <2>4, <2>5, <2>6
<1>11. CASE /\ ~removes
            /\ q.pc \notin {"upload_get", "download_sync", "sync", "detect_list", "scan_list",
                            "extract_boot", "extract_contents", "extract_copy",
                            "delete_file", "delete_dir"}
  <2>1. req' = [req EXCEPT ![r] = Idle]
    BY <1>11 DEF RequestError
  <2>2. Finish(r) /\ UNCHANGED file
    BY <1>3, <1>11, <2>1 DEF Finish
  <2> QED BY <1>1, <2>2, FinishApart
<1> QED BY <1>2, <1>6, <1>7, <1>8, <1>9, <1>10, <1>11

\* So does the failure of one file of a scan.
LEMMA LoopErrorStages ==
    ASSUME Inv, Links, NEW r \in Requests, LoopError(r)
    PROVE  Apart(r) /\ Links' /\ Kept(r)
<1>1. InFlight /\ UNCHANGED file
  BY DEF Inv, LoopError
<1>2. PICK f \in req[r].todo :
              req' = [req EXCEPT ![r].todo = req[r].todo \ {f}, ![r].err = TRUE]
  BY DEF LoopError
<1>3. Apart(r) /\ Links' /\ req'[r].pc = req[r].pc /\ req'[r].op = req[r].op
  BY <1>1, <1>2, TodoApart
<1>4. req[r].pc \in {"detect", "scan_delete"}
  BY DEF LoopError
<1>5. AllStages(r) => \/ req[r].pc = "scan_delete" /\ req[r].op = "ScanImages"
                      \/ req[r].op \notin Watched
  BY <1>4, OpAt
<1>6. CASE req[r].pc = "scan_delete" /\ req[r].op = "ScanImages"
  <2>1. req[r] \in Request
    BY <1>1 DEF InFlight
  <2>2. req'[r].err
    BY <1>1, <1>2, <2>1 DEF InFlight, Request
  <2> QED BY <1>3, <1>6, <2>2
          DEF Kept, AllStages, UploadStage, ExtractStage, DeleteStage, ScanStage
<1> QED BY <1>3, <1>5, <1>6, NoPromise DEF Kept

-----------------------------------------------------------------------------

\* A request that does not take the step and is still alone has seen no change.
LEMMA OthersKeepStages ==
    ASSUME Inv, Links, Links', NEW r \in Requests, Apart(r), StillAlone,
           NEW s \in Requests \ {r}, alone[s] => AllStages(s), alone'[s]
    PROVE  AllStages(s)'
<1>1. CASE req'[s].pc = "idle"
  BY <1>1, NoPromise
<1>2. CASE req'[s].pc # "idle"
  <2>1. /\ alone[s]
        /\ \/ UNCHANGED <<file, dir, image>>
           \/ [req[s] EXCEPT !.linked = req'[s].linked] # req'[s]
    BY <1>2 DEF StillAlone
  <2>2. req[s] \in Request /\ req[s].linked \in BOOLEAN
    BY DEF Inv, InFlight, Request
  <2>3. [req[s] EXCEPT !.linked = req'[s].linked] = req'[s]
    <3>1. CASE req'[s] = req[s]
      <4>1. [req[s] EXCEPT !.linked = req[s].linked] = req[s]
        BY <2>2 DEF Request
      <4> QED BY <3>1, <4>1
    <3>2. CASE req'[s] = [req[s] EXCEPT !.linked = FALSE]
      <4>1. [req[s] EXCEPT !.linked = FALSE].linked = FALSE
        BY <2>2 DEF Request
      <4> QED BY <3>2, <4>1
    <3> QED BY <3>1, <3>2 DEF Apart
  <2>4. UNCHANGED <<file, dir, image>>
    BY <2>1, <2>3
  <2>5. req'[s] = req[s]
    <3>1. SUFFICES ASSUME /\ req'[s] = [req[s] EXCEPT !.linked = FALSE]
                          /\ req[s].f \in Files /\ file'[req[s].f] = "absent"
                   PROVE  req'[s] = req[s]
      BY DEF Apart
    <3>2. ~req[s].linked
      BY <2>4, <3>1 DEF Links
    <3>3. [req[s] EXCEPT !.linked = FALSE] = req[s]
      BY <2>2, <3>2 DEF Request
    <3> QED BY <3>1, <3>3
  <2>6. AllStages(s)
    BY <2>1
  <2>7. UNCHANGED <<file, dir, image>> /\ OnDisk' = OnDisk
    BY <2>4 DEF OnDisk
  <2>8. UploadStage(s)' /\ ExtractStage(s)' /\ DeleteStage(s)'
    BY <2>5, <2>6, <2>7 DEF AllStages, UploadStage, ExtractStage, DeleteStage
  <2>9. ScanStage(s)'
    BY <2>5, <2>6, <2>7 DEF AllStages, ScanStage
  <2> QED BY <2>8, <2>9 DEF AllStages
<1> QED BY <1>1, <1>2

\* The inductive invariant.
Far == Inv /\ Links /\ Stages

\* Nothing is in flight.
LEMMA FarInit == Init => Far
<1> SUFFICES ASSUME Init PROVE Far
  OBVIOUS
<1>1. \A r \in Requests : req[r] = Idle
  BY DEF Init
<1>2. Idle.pc = "idle" /\ ~Idle.linked
  BY DEF Idle
<1>3. Links
  BY <1>1, <1>2 DEF Links
<1>4. Stages
  BY <1>1, <1>2 DEF Stages, AllStages, UploadStage, ExtractStage, DeleteStage, ScanStage
<1> QED BY <1>3, <1>4, InvInit DEF Far

\* Every step keeps the stages of the requests that are still alone.
LEMMA FarNext == Far /\ [Next]_vars => Far'
<1> SUFFICES ASSUME Far, [Next]_vars PROVE Far'
  OBVIOUS
<1>1. Inv /\ Links /\ Stages /\ Inv'
  BY InvNext DEF Far
<1>2. CASE UNCHANGED vars
  <2>1. UNCHANGED <<file, dir, image, req, alone>> /\ OnDisk' = OnDisk
    BY <1>2 DEF vars, OnDisk
  <2>2. Links'
    BY <1>1, <2>1 DEF Links
  <2>3. ASSUME NEW r \in Requests, alone'[r]
        PROVE  AllStages(r)'
    <3>1. AllStages(r) /\ req'[r] = req[r]
      BY <1>1, <2>1, <2>3 DEF Stages
    <3>2. UploadStage(r)' /\ ExtractStage(r)' /\ DeleteStage(r)'
      BY <2>1, <3>1 DEF AllStages, UploadStage, ExtractStage, DeleteStage
    <3>3. ScanStage(r)'
      BY <2>1, <3>1 DEF AllStages, ScanStage
    <3> QED BY <3>2, <3>3 DEF AllStages
  <2> QED BY <1>1, <2>2, <2>3 DEF Far, Stages
<1>3. CASE Next
  <2>1. StillAlone
    BY <1>3 DEF Next
  <2>2. ASSUME NEW r \in Requests, Apart(r), Links', alone[r] => AllStages(r)'
        PROVE  Far'
    <3>1. ASSUME NEW s \in Requests, alone'[s]
          PROVE  AllStages(s)'
      <4>1. CASE s = r
        <5>1. req'[r].pc = "idle" => AllStages(r)'
          BY NoPromise
        <5>2. req'[r].pc # "idle" => alone[r]
          BY <2>1, <3>1, <4>1 DEF StillAlone
        <5> QED BY <2>2, <4>1, <5>1, <5>2
      <4>2. CASE s # r
        BY <1>1, <2>1, <2>2, <3>1, <4>2, OthersKeepStages DEF Stages
      <4> QED BY <4>1, <4>2
    <3> QED BY <1>1, <2>2, <3>1 DEF Far, Stages
  <2>3. ASSUME NEW r \in Requests, Arrival(r)
        PROVE  Far'
    BY <1>1, <2>2, <2>3, ArrivalStages
  <2>4. ASSUME NEW r \in Requests, RequestStep(r) \/ RequestError(r) \/ LoopError(r)
        PROVE  Far'
    <3>1. Apart(r) /\ Links' /\ Kept(r)
      BY <1>1, <2>4, StepStages, ErrorStages, LoopErrorStages
    <3> QED BY <1>1, <2>2, <3>1 DEF Stages, Kept
  <2>5. CASE Restart
    <3>1. \A r \in Requests : req'[r] = Idle
      BY <2>5 DEF Restart
    <3>2. Idle.pc = "idle" /\ ~Idle.linked
      BY DEF Idle
    <3>3. Links'
      BY <3>1, <3>2 DEF Links
    <3>4. Stages'
      BY <3>1, <3>2, NoPromise DEF Stages
    <3> QED BY <1>1, <3>3, <3>4 DEF Far
  <2>6. ASSUME NEW f \in Files, CopyISO(f) \/ ExtractByHand(f)
        PROVE  Far'
    <3>1. UNCHANGED req /\ file \in [Files -> FileStates] /\ dir \in [Files -> DirStates]
      BY <1>1, <2>6 DEF CopyISO, ExtractByHand, Inv, Tables
    <3>2. /\ ~UNCHANGED <<file, dir, image>>
          /\ \A g \in Files : file'[g] = "absent" => file[g] = "absent"
      BY <2>6, <3>1 DEF CopyISO, ExtractByHand
    <3>3. Links'
      BY <1>1, <3>1, <3>2 DEF Links
    <3>4. ASSUME NEW r \in Requests, alone'[r]
          PROVE  req'[r].pc = "idle"
      <4>1. [req[r] EXCEPT !.linked = req[r].linked] = req[r]
        BY <1>1 DEF Inv, InFlight, Request
      <4>2. [req[r] EXCEPT !.linked = req'[r].linked] = req'[r]
        BY <3>1, <4>1
      <4> QED BY <2>1, <3>2, <3>4, <4>2 DEF StillAlone
    <3>5. Stages'
      BY <3>4, NoPromise DEF Stages
    <3> QED BY <1>1, <3>3, <3>5 DEF Far
  <2> QED BY <1>3, <2>3, <2>4, <2>5, <2>6 DEF Next
<1> QED BY <1>2, <1>3

-----------------------------------------------------------------------------
(* One request at a time.  What a request has read is still so when it     *)
(* writes.                                                                 *)

\* Requests do not overlap.
OneAtATime == \A r, s \in Requests : r = s

\* What holds of a request between its steps.  The administrator who copies
\* ISOs into the directory does not wait for requests to end.
Steady(r) ==
    LET q == req[r]
        f == req[r].f
    IN  /\ q.pc \in {"upload_create", "download_create"} /\ "CopyISO" \notin Ops =>
              file[f] = "absent"
        /\ q.pc \in {"upload_copy", "upload_get", "upload_insert", "upload_save",
                     "download_copy", "download_sync"} => file[f] # "absent"
        /\ q.pc \in {"save", "upload_save"} =>
              image[f].row /\ \A c \in Columns \ q.sets : q.rows[f][c] = image[f][c]
        /\ q.pc \in {"netboot_copy", "extract_boot", "extract_contents", "extract_copy"} =>
              image[f].row /\ q.rows[f] = image[f]
        /\ q.pc = "sync" => q.todo \subseteq OnDisk
        /\ q.pc = "detect" => /\ q.sets = {"extracted", "method"}
                              /\ \A g \in q.todo : image[g].row /\ q.rows[g] = image[g]

\* The steps of requests that have read nothing they have still to write.
Calm == {"idle", "answered", "download_get", "detect_list", "scan_list", "scan_delete",
         "scan_dir", "delete_file", "delete_dir", "delete_row", "reset_get"}

\* There is nothing to keep for them.
LEMMA CalmSteady ==
    ASSUME NEW r \in Requests, req'[r].pc \in Calm
    PROVE  Steady(r)'
BY DEF Steady, Calm

\* The request r becomes n.
LEMMA Becomes ==
    ASSUME InFlight, NEW r \in Requests, NEW n, req' = [req EXCEPT ![r] = n]
    PROVE  req'[r] = n
BY DEF InFlight

\* The request r goes on to another step.
LEMMA GotoIs ==
    ASSUME InFlight, NEW r \in Requests, NEW s, Goto(r, s)
    PROVE  /\ req'[r].pc = s /\ req'[r].f = req[r].f /\ req'[r].rows = req[r].rows
           /\ req'[r].sets = req[r].sets /\ req'[r].todo = req[r].todo
<1> DEFINE n == [req[r] EXCEPT !.pc = s]
<1>1. req[r] \in Request /\ req' = [req EXCEPT ![r] = n]
  BY DEF InFlight, Goto
<1>2. /\ n.pc = s /\ n.f = req[r].f /\ n.rows = req[r].rows
      /\ n.sets = req[r].sets /\ n.todo = req[r].todo
  BY <1>1 DEF Request
<1> HIDE DEF n
<1> QED BY <1>1, <1>2, Becomes

\* A handler has read a row and edited the columns that it is about.
LEMMA ReadSteady ==
    ASSUME Inv, NEW r \in Requests, NEW op, NEW f \in Files, NEW row \in Row, NEW sets,
           ReadThenSave(r, op, f, row, sets),
           \A c \in Columns \ sets : row[c] = image[f][c]
    PROVE  Steady(r)'
<1> DEFINE n == [Idle EXCEPT !.pc = "save", !.op = op, !.f = f, !.rows[f] = row,
                             !.sets = sets]
<1>1. n.pc = "save" /\ n.f = f /\ n.rows[f] = row /\ n.sets = sets
  BY DEF Idle
<1>2. InFlight /\ image[f].row /\ UNCHANGED image /\ req' = [req EXCEPT ![r] = n]
  BY DEF Inv, ReadThenSave
<1> HIDE DEF n
<1>3. req'[r] = n
  BY <1>2, Becomes
<1> QED BY <1>1, <1>2, <1>3 DEF Steady

\* What a request has read when it arrives.
LEMMA ArrivalSteady ==
    ASSUME Inv, NEW r \in Requests, Arrival(r)
    PROVE  Steady(r)'
<1>0. Tables /\ InFlight
  BY DEF Inv
<1>1. \A f \in Files : image[f] \in Row
  BY <1>0 DEF Tables
<1>2. ASSUME NEW op, Walk(r, op)
      PROVE  Steady(r)'
  <2> DEFINE n == [Idle EXCEPT !.pc = "sync", !.op = op, !.walk = OnDisk, !.todo = OnDisk]
  <2>1. n.pc = "sync" /\ n.todo = OnDisk
    BY DEF Idle
  <2>2. UNCHANGED file /\ req' = [req EXCEPT ![r] = n]
    BY <1>2 DEF Walk
  <2> HIDE DEF n
  <2>3. req'[r] = n /\ OnDisk' = OnDisk
    BY <1>0, <2>2, Becomes DEF OnDisk
  <2> QED BY <2>1, <2>3 DEF Steady
<1>3. CASE ListImages(r) \/ ScanImages(r)
  BY <1>2, <1>3 DEF ListImages, ScanImages
<1>4. ASSUME NEW f \in Files, NEW n, req' = [req EXCEPT ![r] = n], UNCHANGED <<file, image>>,
             n.f = f,
             \/ n.pc \in {"upload_create", "download_create"} /\ file[f] = "absent"
             \/ /\ n.pc \in {"netboot_copy", "extract_boot"}
                /\ image[f].row /\ n.rows[f] = image[f]
             \/ n.pc \in Calm
      PROVE  Steady(r)'
  <2>1. req'[r] = n
    BY <1>0, <1>4, Becomes
  <2>2. CASE n.pc \in Calm
    BY <2>1, <2>2, CalmSteady
  <2>3. CASE n.pc \in {"upload_create", "download_create"} /\ file[f] = "absent"
    BY <1>4, <2>1, <2>3 DEF Steady
  <2>4. CASE /\ n.pc \in {"netboot_copy", "extract_boot"}
             /\ image[f].row /\ n.rows[f] = image[f]
    BY <1>4, <2>1, <2>4 DEF Steady
  <2> QED BY <1>4, <2>2, <2>3, <2>4
<1>5. ASSUME NEW f \in Files, NEW form, UploadImage(r, f, form)
      PROVE  Steady(r)'
  <2> DEFINE n == [Idle EXCEPT !.pc = "upload_create", !.op = "UploadImage", !.f = f,
                               !.form = form, !.fresh = ~image[f].row]
  <2>1. n.pc = "upload_create" /\ n.f = f
    BY DEF Idle
  <2>2. UNCHANGED <<file, image>> /\ req' = [req EXCEPT ![r] = n] /\ file[f] = "absent"
    BY <1>5 DEF UploadImage
  <2> HIDE DEF n
  <2> QED BY <1>4, <2>1, <2>2
<1>6. ASSUME NEW f \in Files, NEW op, NEW s, Begin(r, op, s, f),
             \/ s \in Calm
             \/ s = "download_create" /\ file[f] = "absent" /\ UNCHANGED <<file, image>>
      PROVE  Steady(r)'
  <2> DEFINE n == [Idle EXCEPT !.pc = s, !.op = op, !.f = f, !.fresh = ~image[f].row]
  <2>1. n.pc = s /\ n.f = f
    BY DEF Idle
  <2>2. req' = [req EXCEPT ![r] = n]
    BY <1>6 DEF Begin
  <2> HIDE DEF n
  <2>3. req'[r] = n
    BY <1>0, <2>2, Becomes
  <2> QED BY <1>4, <1>6, <2>1, <2>2, <2>3, CalmSteady
<1>7. ASSUME NEW f \in Files, DownloadISO(r, f) \/ DeleteImage(r, f)
      PROVE  Steady(r)'
  BY <1>6, <1>7 DEF DownloadISO, DeleteImage, Calm
<1>8. ASSUME NEW f \in Files, UpdateImage(r, f)
      PROVE  Steady(r)'
  <2>1. ASSUME NEW b \in BOOLEAN
        PROVE  /\ [image[f] EXCEPT !.enabled = b] \in Row
               /\ [image[f] EXCEPT !.public = b] \in Row
               /\ \A c \in Columns \ {"enabled"} :
                     [image[f] EXCEPT !.enabled = b][c] = image[f][c]
               /\ \A c \in Columns \ {"public"} :
                     [image[f] EXCEPT !.public = b][c] = image[f][c]
    BY <1>1 DEF Row, Columns
  <2>2. ASSUME NEW m \in MethodEdits
        PROVE  /\ [image[f] EXCEPT !.method = m] \in Row
               /\ \A c \in Columns \ {"method"} :
                     [image[f] EXCEPT !.method = m][c] = image[f][c]
    BY <1>1, CatalogueAssumption DEF Row, Columns
  <2>3. ASSUME NEW b \in BOOLEAN,
               ReadThenSave(r, "UpdateImage", f, [image[f] EXCEPT !.enabled = b], {"enabled"})
        PROVE  Steady(r)'
    <3> DEFINE row == [image[f] EXCEPT !.enabled = b]
    <3>1. row \in Row /\ \A c \in Columns \ {"enabled"} : row[c] = image[f][c]
      BY <2>1
    <3>2. ReadThenSave(r, "UpdateImage", f, row, {"enabled"})
      BY <2>3
    <3> HIDE DEF row
    <3> QED BY <3>1, <3>2, ReadSteady
  <2>4. ASSUME NEW b \in BOOLEAN,
               ReadThenSave(r, "UpdateImage", f, [image[f] EXCEPT !.public = b], {"public"})
        PROVE  Steady(r)'
    <3> DEFINE row == [image[f] EXCEPT !.public = b]
    <3>1. row \in Row /\ \A c \in Columns \ {"public"} : row[c] = image[f][c]
      BY <2>1
    <3>2. ReadThenSave(r, "UpdateImage", f, row, {"public"})
      BY <2>4
    <3> HIDE DEF row
    <3> QED BY <3>1, <3>2, ReadSteady
  <2>5. ASSUME NEW m \in MethodEdits,
               ReadThenSave(r, "UpdateImage", f, [image[f] EXCEPT !.method = m], {"method"})
        PROVE  Steady(r)'
    BY <2>2, <2>5, ReadSteady
  <2> QED BY <1>8, <2>3, <2>4, <2>5 DEF UpdateImage
<1>9. ASSUME NEW f \in Files, NEW m \in Methods, SetBootMethod(r, f, m)
      PROVE  Steady(r)'
  <2>1. /\ [image[f] EXCEPT !.method = m] \in Row
        /\ \A c \in Columns \ {"method"} : [image[f] EXCEPT !.method = m][c] = image[f][c]
    BY <1>1 DEF Row, Columns
  <2> QED BY <1>9, <2>1, ReadSteady DEF SetBootMethod
<1>10. ASSUME NEW f \in Files, RedetectImage(r, f)
       PROVE  Steady(r)'
  <2>1. ASSUME NEW s \in BOOLEAN
        PROVE  /\ [image[f] EXCEPT !.sanboot = s] \in Row
               /\ \A c \in Columns \ {"sanboot"} :
                     [image[f] EXCEPT !.sanboot = s][c] = image[f][c]
    BY <1>1 DEF Row, Columns
  <2> QED BY <1>10, <2>1, ReadSteady DEF RedetectImage
<1>11. ASSUME NEW f \in Files, UpdateAutoInstallScript(r, f) \/ PatchImageSMB(r, f)
       PROVE  Steady(r)'
  BY <1>1, <1>11, ReadSteady DEF UpdateAutoInstallScript, PatchImageSMB
<1>12. ASSUME NEW f \in Files, DownloadNetboot(r, f) \/ ExtractImage(r, f)
       PROVE  Steady(r)'
  <2>1. UNCHANGED <<file, image>> /\ image[f].row
    BY <1>12 DEF DownloadNetboot, ExtractImage
  <2>2. CASE DownloadNetboot(r, f)
    <3> DEFINE n == [Idle EXCEPT !.pc = "netboot_copy", !.op = "DownloadNetboot", !.f = f,
                                 !.rows[f] = image[f]]
    <3>1. n.pc = "netboot_copy" /\ n.f = f /\ n.rows[f] = image[f]
      BY DEF Idle
    <3>2. req' = [req EXCEPT ![r] = n]
      BY <2>2 DEF DownloadNetboot
    <3> HIDE DEF n
    <3> QED BY <1>4, <2>1, <3>1, <3>2
  <2>3. CASE ExtractImage(r, f)
    <3>0. PICK reader :
                req' = [req EXCEPT ![r] = [Idle EXCEPT !.pc = "extract_boot",
                          !.op = "ExtractImage", !.f = f, !.rows[f] = image[f],
                          !.reader = reader]]
      BY <2>3 DEF ExtractImage
    <3> DEFINE n == [Idle EXCEPT !.pc = "extract_boot", !.op = "ExtractImage", !.f = f,
                                 !.rows[f] = image[f], !.reader = reader]
    <3>1. n.pc = "extract_boot" /\ n.f = f /\ n.rows[f] = image[f]
      BY DEF Idle
    <3>2. req' = [req EXCEPT ![r] = n]
      BY <3>0
    <3> HIDE DEF n
    <3> QED BY <1>4, <2>1, <3>1, <3>2
  <2> QED BY <1>12, <2>2, <2>3
<1>13. ASSUME NEW f \in Files, DeleteImageFile(r, f)
       PROVE  Steady(r)'
  <2>1. req[r] \in Request /\ req[r].pc = "idle"
    BY <1>0, <1>13 DEF DeleteImageFile, Arrives, At, InFlight
  <2>2. CASE req' = Unlinked(f)
    <3>1. Unlinked(f)[r] = IF req[r].f = f THEN [req[r] EXCEPT !.linked = FALSE] ELSE req[r]
      BY <1>0, UnlinkedIs
    <3>2. Unlinked(f)[r].pc = "idle"
      BY <2>1, <3>1 DEF Request
    <3> QED BY <2>2, <3>2, CalmSteady DEF Calm
  <2>3. CASE UNCHANGED req
    BY <2>1, <2>3, CalmSteady DEF Calm
  <2>4. CASE Begin(r, "DeleteImageFile", "reset_get", f)
    BY <1>6, <2>4 DEF Calm
  <2> QED BY <1>13, <2>2, <2>3, <2>4 DEF DeleteImageFile
<1> QED BY <1>3, <1>5, <1>7, <1>8, <1>9, <1>10, <1>11, <1>12, <1>13 DEF Arrival

\* Every step of a request that is alone finds what it has read as it has read it.
LEMMA StepSteady ==
    ASSUME Inv, NEW r \in Requests, Steady(r), RequestStep(r)
    PROVE  Steady(r)'
<1> DEFINE q == req[r]
           f == req[r].f
<1>1. Tables /\ InFlight /\ q \in Request /\ Sound(q)
  BY RequestTyped DEF Inv
<1>2. q.pc \in Named => f \in Files /\ image[f] \in Row /\ q.rows[f] \in Row
  BY <1>1 DEF Sound, Tables, Request
<1>3. q.pc \in Steps /\ q.todo \in SUBSET Files
  BY <1>1 DEF Request
<1>4. ASSUME NEW s \in Calm, Goto(r, s)
      PROVE  Steady(r)'
  BY <1>1, <1>4, GotoIs, CalmSteady
<1>5. ASSUME Finish(r)
      PROVE  Steady(r)'
  <2>1. req'[r] = Idle
    BY <1>1, <1>5, Becomes DEF Finish
  <2>2. Idle.pc \in Calm
    BY DEF Idle, Calm
  <2> QED BY <2>1, <2>2, CalmSteady
<1>6. ASSUME NEW s \in {"upload_copy", "download_copy"}, f \in Files, CreateFile(r, s)
      PROVE  Steady(r)'
  <2> DEFINE n == [q EXCEPT !.pc = s, !.linked = TRUE]
             new == IF Writers(f) = {} THEN "partial" ELSE "mixed"
  <2>1. n.pc = s /\ n.f = f
    BY <1>1 DEF Request
  <2>2. req' = [req EXCEPT ![r] = n] /\ file' = [file EXCEPT ![f] = new]
    BY <1>6 DEF CreateFile
  <2>3. new # "absent"
    OBVIOUS
  <2> HIDE DEF n, new
  <2>4. file'[f] # "absent" /\ req'[r] = n
    BY <1>1, <1>6, <2>2, <2>3, Becomes DEF Tables
  <2> QED BY <1>6, <2>1, <2>4 DEF Steady
<1>7. ASSUME NEW s \in {"upload_get", "download_sync"}, f \in Files, file' = FileCopied(r),
             Goto(r, s), q.pc \in {"upload_copy", "download_copy"}
      PROVE  Steady(r)'
  <2>1. file'[f] = IF q.linked /\ file[f] = "partial" THEN "complete" ELSE file[f]
    BY <1>1, <1>7 DEF FileCopied, Tables
  <2>2. file[f] # "absent"
    BY <1>7 DEF Steady
  <2>3. req'[r].pc = s /\ req'[r].f = f
    BY <1>1, <1>7, GotoIs
  <2> QED BY <2>1, <2>2, <2>3 DEF Steady
<1>8. ASSUME NEW row \in Row, NEW sets \in SUBSET Columns, NEW s \in {"save", "upload_save"},
             f \in Files,
             req' = [req EXCEPT ![r] = [q EXCEPT !.pc = s, !.rows[f] = row, !.sets = sets]],
             UNCHANGED <<file, image>>, image[f].row, s = "upload_save" => file[f] # "absent",
             \A c \in Columns \ sets : row[c] = image[f][c]
      PROVE  Steady(r)'
  <2> DEFINE n == [q EXCEPT !.pc = s, !.rows[f] = row, !.sets = sets]
  <2>1. n.pc = s /\ n.f = f /\ n.rows[f] = row /\ n.sets = sets
    BY <1>1, <1>8 DEF Request
  <2>2. req' = [req EXCEPT ![r] = n]
    BY <1>8
  <2> HIDE DEF n
  <2>3. req'[r] = n
    BY <1>1, <2>2, Becomes
  <2>4. /\ UNCHANGED <<file, image>> /\ image[f].row
        /\ s = "upload_save" => file[f] # "absent"
        /\ \A c \in Columns \ sets : row[c] = image[f][c]
    BY <1>8
  <2>5. CASE s = "save"
    BY <2>1, <2>3, <2>4, <2>5 DEF Steady
  <2>6. CASE s = "upload_save"
    BY <2>1, <2>3, <2>4, <2>6 DEF Steady
  <2> QED BY <1>8, <2>5, <2>6
<1>9. CASE UploadCreate(r) \/ DownloadCreate(r)
  <2>1. f \in Files
    BY <1>2, <1>9 DEF UploadCreate, DownloadCreate, At, Named, Steps
  <2> QED BY <1>6, <1>9, <2>1 DEF UploadCreate, DownloadCreate
<1>10. CASE UploadCopied(r) \/ DownloadCopied(r)
  <2>1. f \in Files
    BY <1>2, <1>10 DEF UploadCopied, DownloadCopied, At, Named, Steps
  <2> QED BY <1>7, <1>10, <2>1 DEF UploadCopied, DownloadCopied, At
<1>11. CASE UploadGet(r)
  <2>1. q.pc = "upload_get" /\ UNCHANGED <<file, image>>
    BY <1>11 DEF UploadGet, At
  <2>2. f \in Files /\ image[f] \in Row /\ file[f] # "absent"
    BY <1>2, <2>1 DEF Named, Steps, Steady
  <2>3. CASE image[f].row
    <3> DEFINE row == Reuploaded(image[f], q.form)
               sets == {"enabled"} \cup (IF q.form = "" THEN {} ELSE {"public"})
    <3>1. req' = [req EXCEPT ![r] = [q EXCEPT !.pc = "upload_save", !.rows[f] = row,
                                              !.sets = sets]]
      BY <1>11, <2>3 DEF UploadGet
    <3>2. row \in Row /\ \A c \in Columns \ sets : row[c] = image[f][c]
      BY <2>2 DEF Reuploaded, Row, Columns
    <3>3. sets \in SUBSET Columns
      BY DEF Columns
    <3> HIDE DEF row, sets
    <3> QED BY <1>8, <2>1, <2>2, <2>3, <3>1, <3>2, <3>3
  <2>4. CASE ~image[f].row
    <3>1. Goto(r, "upload_insert")
      BY <1>11, <2>4 DEF UploadGet
    <3>2. req'[r].pc = "upload_insert" /\ req'[r].f = f
      BY <1>1, <3>1, GotoIs
    <3> QED BY <2>1, <2>2, <3>2 DEF Steady
  <2> QED BY <2>3, <2>4
<1>12. CASE UploadInsert(r)
  <2>1. CASE Goto(r, "answered")
    BY <1>4, <2>1 DEF Calm
  <2>2. CASE req' = [Unlinked(f) EXCEPT ![r] = Idle]
    <3>1. req'[r] = Idle
      BY <2>2 DEF Unlinked
    <3>2. Idle.pc \in Calm
      BY DEF Idle, Calm
    <3> QED BY <3>1, <3>2, CalmSteady
  <2> QED BY <1>12, <2>1, <2>2 DEF UploadInsert
<1>13. CASE \/ DownloadSync(r) \/ SaveImage(r) \/ DeleteDir(r) \/ DeleteImageRow(r)
  BY <1>4, <1>13 DEF DownloadSync, SaveImage, DeleteDir, DeleteImageRow, Calm
<1>14. CASE DownloadGet(r)
  <2>1. q.pc = "download_get" /\ UNCHANGED <<file, image>>
    BY <1>14 DEF DownloadGet, At
  <2>2. f \in Files /\ image[f] \in Row
    BY <1>2, <2>1 DEF Named, Steps
  <2>3. CASE image[f].row /\ req' = [req EXCEPT ![r].pc = "save", ![r].rows[f] = image[f]]
    <3>1. req' = [req EXCEPT ![r] = [q EXCEPT !.pc = "save", !.rows[f] = image[f],
                                              !.sets = q.sets]]
      <4> DEFINE n == [q EXCEPT !.pc = "save", !.rows[f] = image[f]]
      <4>1. n.sets = q.sets
        BY <1>1 DEF Request
      <4>2. [n EXCEPT !.sets = q.sets] = n
        BY <1>1, <4>1 DEF Request
      <4> QED BY <2>3, <4>2
    <3>2. q.sets \in SUBSET Columns
      BY <1>1 DEF Request
    <3> QED BY <1>8, <2>1, <2>2, <2>3, <3>1, <3>2
  <2> QED BY <1>5, <1>14, <2>3 DEF DownloadGet
<1>15. CASE SyncImages(r)
  <2>1. q.pc = "sync" /\ UNCHANGED file /\ OnDisk' = OnDisk /\ q.todo \subseteq OnDisk
    BY <1>15 DEF SyncImages, At, OnDisk, Steady
  <2>2. CASE Goto(r, IF q.op = "ScanImages" THEN "scan_list" ELSE "detect_list")
    BY <1>4, <2>2 DEF Calm
  <2>3. ASSUME NEW g \in q.todo, req' = [req EXCEPT ![r].todo = @ \ {g}]
        PROVE  Steady(r)'
    <3> DEFINE n == [q EXCEPT !.todo = q.todo \ {g}]
    <3>1. n.pc = "sync" /\ n.todo = q.todo \ {g}
      BY <1>1, <2>1 DEF Request
    <3>2. req' = [req EXCEPT ![r] = n]
      BY <2>3
    <3> HIDE DEF n
    <3>3. req'[r] = n
      BY <1>1, <3>2, Becomes
    <3> QED BY <2>1, <3>1, <3>3 DEF Steady
  <2> QED BY <1>15, <2>2, <2>3 DEF SyncImages
<1>16. CASE DetectList(r)
  <2> DEFINE S == {g \in Files : image[g].row /\ ~image[g].extracted}
             n == [q EXCEPT !.pc = "detect", !.rows = image, !.sets = {"extracted", "method"},
                            !.todo = S]
  <2>1. req' = [req EXCEPT ![r] = n] /\ UNCHANGED image
    BY <1>16 DEF DetectList
  <2>2. \A g \in S : image[g].row
    OBVIOUS
  <2> HIDE DEF S
  <2>3. n.pc = "detect" /\ n.rows = image /\ n.sets = {"extracted", "method"} /\ n.todo = S
    BY <1>1 DEF Request
  <2> HIDE DEF n
  <2>4. req'[r] = n
    BY <1>1, <2>1, Becomes
  <2> QED BY <2>1, <2>2, <2>3, <2>4 DEF Steady
<1>17. CASE DetectManualExtractions(r)
  <2>1. /\ q.pc = "detect" /\ q.sets = {"extracted", "method"}
        /\ \A g \in q.todo : image[g].row /\ q.rows[g] = image[g]
    BY <1>17 DEF DetectManualExtractions, At, Steady
  <2>2. CASE Goto(r, "answered")
    BY <1>4, <2>2 DEF Calm
  <2>3. ASSUME NEW g \in q.todo, req' = [req EXCEPT ![r].todo = @ \ {g}],
               UNCHANGED image \/ \E row : Saved(g, row)
        PROVE  Steady(r)'
    <3> DEFINE n == [q EXCEPT !.todo = q.todo \ {g}]
    <3>1. n.pc = "detect" /\ n.todo = q.todo \ {g} /\ n.sets = q.sets /\ n.rows = q.rows
      BY <1>1, <2>1 DEF Request
    <3>2. req' = [req EXCEPT ![r] = n]
      BY <2>3
    <3> HIDE DEF n
    <3>3. req'[r] = n
      BY <1>1, <3>2, Becomes
    <3>4. \A h \in Files : h = g \/ image'[h] = image[h]
      BY <1>1, <2>3 DEF Saved, Tables
    <3> QED BY <1>3, <2>1, <3>1, <3>3, <3>4 DEF Steady
  <2> QED BY <1>17, <2>2, <2>3 DEF DetectManualExtractions
<1>18. CASE ScanList(r)
  <2> DEFINE n == [q EXCEPT !.pc = "scan_delete",
                            !.todo = {g \in Files \ q.walk : image[g].row}]
  <2>1. n.pc \in Calm
    BY <1>1 DEF Request, Calm
  <2>2. req' = [req EXCEPT ![r] = n]
    BY <1>18 DEF ScanList
  <2> HIDE DEF n
  <2> QED BY <1>1, <2>1, <2>2, Becomes, CalmSteady
<1>19. CASE ScanDelete(r)
  <2>1. CASE Goto(r, "answered")
    BY <1>4, <2>1 DEF Calm
  <2>2. ASSUME NEW g \in q.todo,
               \/ req' = [req EXCEPT ![r].todo = @ \ {g}]
               \/ req' = [req EXCEPT ![r].pc = "scan_dir", ![r].at = g,
                                     ![r].todo = @ \ {g}]
        PROVE  Steady(r)'
    <3> DEFINE n == [q EXCEPT !.todo = q.todo \ {g}]
               m == [q EXCEPT !.pc = "scan_dir", !.at = g, !.todo = q.todo \ {g}]
    <3>1. n.pc \in Calm /\ m.pc \in Calm
      BY <1>1, <1>19 DEF Request, ScanDelete, At, Calm
    <3>2. req' = [req EXCEPT ![r] = n] \/ req' = [req EXCEPT ![r] = m]
      BY <2>2
    <3> HIDE DEF n, m
    <3> QED BY <1>1, <3>1, <3>2, Becomes, CalmSteady
  <2> QED BY <1>19, <2>1, <2>2 DEF ScanDelete
<1>20. CASE NetbootCopy(r)
  <2>1. q.pc = "netboot_copy" /\ Goto(r, "save") /\ UNCHANGED <<file, image>>
    BY <1>20 DEF NetbootCopy, At
  <2>2. image[f].row /\ q.rows[f] = image[f]
    BY <2>1 DEF Steady
  <2>3. req'[r].pc = "save" /\ req'[r].f = f /\ req'[r].rows = q.rows
    BY <1>1, <2>1, GotoIs
  <2> QED BY <2>1, <2>2, <2>3 DEF Steady
<1>21. CASE ExtractBootFiles(r) \/ ExtractBsdtar(r)
  <2>1. PICK s \in {"extract_contents", "extract_copy"} :
              q.pc = "extract_boot" /\ Goto(r, s) /\ UNCHANGED <<file, image>>
    BY <1>21 DEF ExtractBootFiles, ExtractBsdtar, At
  <2>2. image[f].row /\ q.rows[f] = image[f]
    BY <2>1 DEF Steady
  <2>3. req'[r].pc = s /\ req'[r].f = f /\ req'[r].rows = q.rows
    BY <1>1, <2>1, GotoIs
  <2> QED BY <2>1, <2>2, <2>3 DEF Steady
<1>22. CASE ExtractContents(r) \/ ExtractWindows(r) \/ ExtractCopy(r)
  <2>1. PICK w \in BOOLEAN :
              /\ q.pc \in {"extract_boot", "extract_contents", "extract_copy"}
              /\ ExtractDone(r, w) /\ UNCHANGED <<file, image>>
    BY <1>22 DEF ExtractContents, ExtractWindows, ExtractCopy, At
  <2>2. image[f].row /\ q.rows[f] = image[f] /\ f \in Files
    BY <1>2, <2>1 DEF Steady, Named, Steps
  <2> DEFINE sets == {"extracted", "method", "sanboot"}
  <2>3. PICK n : /\ req'[r] = n /\ n.pc = "save" /\ n.f = f /\ n.sets = sets
                 /\ \A c \in Columns \ sets : n.rows[f][c] = q.rows[f][c]
    BY <1>1, <2>1, <2>2, ExtractDoneIs
  <2> QED BY <2>1, <2>2, <2>3 DEF Steady
<1>26. CASE ScanRemoveDir(r)
  BY <1>4, <1>26 DEF ScanRemoveDir, Calm
<1>23. CASE DeleteFile(r)
  <2> DEFINE u == Unlinked(f)
             n == [u[r] EXCEPT !.pc = "delete_dir"]
  <2>1. f \in Files
    BY <1>2, <1>23 DEF DeleteFile, At, Named, Steps
  <2>2. u[r] \in Request
    BY <1>1, <2>1, UnlinkedSound
  <2>3. req'[r] = n
    BY <1>23 DEF DeleteFile, Unlinked
  <2> HIDE DEF u
  <2>4. n.pc \in Calm
    BY <2>2 DEF Request, Calm
  <2> HIDE DEF n
  <2> QED BY <2>3, <2>4, CalmSteady
<1>24. CASE ResetGet(r)
  <2>1. q.pc = "reset_get" /\ UNCHANGED <<file, image>>
    BY <1>24 DEF ResetGet, At
  <2>2. f \in Files /\ image[f] \in Row
    BY <1>2, <2>1 DEF Named, Steps
  <2> DEFINE row == [image[f] EXCEPT !.extracted = FALSE, !.method = "sanboot"]
             sets == {"extracted", "method"}
  <2>3. CASE /\ image[f].row
             /\ req' = [req EXCEPT ![r] = [q EXCEPT !.pc = "save", !.rows[f] = row,
                                                    !.sets = sets]]
    <3>1. row \in Row /\ \A c \in Columns \ sets : row[c] = image[f][c]
      BY <2>2, CatalogueAssumption DEF Row, Columns
    <3>2. sets \in SUBSET Columns
      BY DEF Columns
    <3> HIDE DEF row, sets
    <3> QED BY <1>8, <2>1, <2>2, <2>3, <3>1, <3>2
  <2> QED BY <1>5, <1>24, <2>3 DEF ResetGet
<1>25. CASE Answer(r)
  BY <1>5, <1>25 DEF Answer
<1> QED BY <1>9, <1>10, <1>11, <1>12, <1>13, <1>14, <1>15, <1>16, <1>17, <1>18, <1>19,
           <1>20, <1>21, <1>22, <1>23, <1>24, <1>25, <1>26 DEF RequestStep

\* A failed extraction goes on to save the row that it has read; no other failure
\* writes a row.
LEMMA ErrorSteady ==
    ASSUME Inv, NEW r \in Requests, Steady(r), RequestError(r) \/ LoopError(r)
    PROVE  Steady(r)'
<1> DEFINE q == req[r]
           f == req[r].f
<1>1. InFlight /\ q \in Request /\ UNCHANGED image
  BY RequestTyped DEF Inv, RequestError, LoopError
<1>2. ASSUME NEW n, req'[r] = n, n.pc \in Calm
      PROVE  Steady(r)'
  BY <1>2, CalmSteady
<1>3. CASE RequestError(r) /\ q.pc \in {"upload_copy", "upload_insert", "upload_save",
                                        "download_copy"}
  <2>1. req' = [Unlinked(f) EXCEPT ![r] = Idle]
    BY <1>3 DEF RequestError
  <2>2. req'[r] = Idle
    BY <2>1 DEF Unlinked
  <2>3. Idle.pc \in Calm
    BY DEF Idle, Calm
  <2> QED BY <1>2, <2>2, <2>3
<1>4. CASE RequestError(r) /\ q.pc \in {"upload_get", "download_sync", "sync", "detect_list",
                                        "scan_list", "delete_file", "delete_dir"}
  <2>1. PICK s \in Calm \cup {"upload_insert"} :
                /\ req' = [req EXCEPT ![r].pc = s, ![r].err = TRUE]
                /\ s = "upload_insert" => q.pc = "upload_get"
    <3> DEFINE goOn(s) == req' = [req EXCEPT ![r].pc = s, ![r].err = TRUE]
    <3>1. /\ q.pc = "upload_get" => goOn("upload_insert")
          /\ q.pc = "download_sync" => goOn("download_get")
          /\ q.pc = "sync" => goOn("scan_list") \/ goOn("detect_list")
          /\ q.pc \in {"detect_list", "scan_list"} => goOn("answered")
          /\ q.pc = "delete_file" => goOn("delete_dir")
          /\ q.pc = "delete_dir" => goOn("delete_row")
      BY <1>4 DEF RequestError
    <3> HIDE DEF goOn
    <3>2. PICK s \in Calm \cup {"upload_insert"} :
                  goOn(s) /\ (s = "upload_insert" => q.pc = "upload_get")
      BY <1>4, <3>1 DEF Calm
    <3> QED BY <3>2 DEF goOn
  <2>2. UNCHANGED file
    BY <1>4 DEF RequestError
  <2> DEFINE n == [q EXCEPT !.pc = s, !.err = TRUE]
  <2>3. n.pc = s /\ n.f = f
    BY <1>1 DEF Request
  <2>4. req' = [req EXCEPT ![r] = n]
    BY <2>1
  <2> HIDE DEF n
  <2>5. req'[r] = n
    BY <1>1, <2>4, Becomes
  <2>6. CASE s \in Calm
    BY <1>2, <2>3, <2>5, <2>6
  <2>7. CASE s = "upload_insert"
    BY <2>1, <2>2, <2>3, <2>5, <2>7 DEF Steady
  <2> QED BY <2>6, <2>7
<1>5. CASE RequestError(r) /\ q.pc \in {"extract_boot", "extract_contents", "extract_copy"}
  <2> DEFINE m == [q EXCEPT !.pc = "extract_boot", !.reader = NextReader(q.reader)]
             n == [q EXCEPT !.pc = "save", !.op = "ExtractFailed"]
  <2>1. req' = [req EXCEPT ![r] = m] \/ req' = [req EXCEPT ![r] = n]
    BY <1>5 DEF RequestError
  <2>2. /\ n.pc = "save" /\ n.f = f /\ n.rows = q.rows /\ n.sets = q.sets
        /\ m.pc = "extract_boot" /\ m.f = f /\ m.rows = q.rows
    BY <1>1 DEF Request
  <2> HIDE DEF n, m
  <2>3. req'[r] = m \/ req'[r] = n
    BY <1>1, <2>1, Becomes
  <2>4. image[f].row /\ q.rows[f] = image[f]
    BY <1>5 DEF Steady
  <2>5. CASE req'[r] = m
    BY <1>1, <2>2, <2>4, <2>5 DEF Steady
  <2>6. CASE req'[r] = n
    BY <1>1, <2>2, <2>4, <2>6 DEF Steady
  <2> QED BY <2>3, <2>5, <2>6
<1>6. CASE /\ RequestError(r)
           /\ q.pc \notin {"upload_copy", "upload_insert", "upload_save", "download_copy",
                           "upload_get", "download_sync", "sync", "detect_list", "scan_list",
                           "delete_file", "delete_dir", "extract_boot", "extract_contents",
                           "extract_copy"}
  <2>1. req' = [req EXCEPT ![r] = Idle]
    BY <1>6 DEF RequestError
  <2>2. Idle.pc \in Calm
    BY DEF Idle, Calm
  <2> QED BY <1>1, <1>2, <2>1, <2>2, Becomes
<1>7. CASE LoopError(r)
  <2>1. PICK g \in q.todo : req' = [req EXCEPT ![r].todo = q.todo \ {g}, ![r].err = TRUE]
    BY <1>7 DEF LoopError
  <2>2. q.pc \in {"detect", "scan_delete"}
    BY <1>7 DEF LoopError
  <2> DEFINE n == [q EXCEPT !.todo = q.todo \ {g}, !.err = TRUE]
  <2>3. n.pc = q.pc /\ n.todo = q.todo \ {g} /\ n.rows = q.rows /\ n.sets = q.sets
    BY <1>1 DEF Request
  <2>4. req' = [req EXCEPT ![r] = n]
    BY <2>1
  <2> HIDE DEF n
  <2>5. req'[r] = n
    BY <1>1, <2>4, Becomes
  <2>6. CASE q.pc = "scan_delete"
    BY <1>2, <2>3, <2>5, <2>6 DEF Calm
  <2>7. CASE q.pc = "detect"
    BY <1>1, <2>3, <2>5, <2>7 DEF Steady
  <2> QED BY <2>2, <2>6, <2>7
<1> QED BY <1>3, <1>4, <1>5, <1>6, <1>7

\* The inductive invariant of requests that do not overlap, with Inv.
AllSteady == \A r \in Requests : Steady(r)

\* Requests that do not overlap stay steady, through errors and restarts.
LEMMA SteadyNext ==
    ASSUME OneAtATime
    PROVE  Inv /\ AllSteady /\ [Next]_vars => AllSteady'
<1> SUFFICES ASSUME Inv, AllSteady, [Next]_vars
             PROVE  AllSteady'
  OBVIOUS
<1>1. ASSUME NEW r \in Requests, Steady(r)'
      PROVE  AllSteady'
  BY <1>1 DEF OneAtATime, AllSteady
<1>2. ASSUME NEW r \in Requests, Arrival(r)
      PROVE  AllSteady'
  BY <1>1, <1>2, ArrivalSteady
<1>3. ASSUME NEW r \in Requests, RequestStep(r) \/ RequestError(r) \/ LoopError(r)
      PROVE  AllSteady'
  BY <1>1, <1>3, StepSteady, ErrorSteady DEF AllSteady
<1>4. CASE Restart
  <2>1. \A r \in Requests : req'[r] = Idle
    BY <1>4 DEF Restart
  <2>2. Idle.pc \in Calm
    BY DEF Idle, Calm
  <2> QED BY <2>1, <2>2, CalmSteady DEF AllSteady
<1>5. ASSUME NEW g \in Files, CopyISO(g) \/ ExtractByHand(g)
      PROVE  AllSteady'
  <2>1. /\ UNCHANGED <<image, req>> /\ ("CopyISO" \notin Ops => UNCHANGED file)
        /\ UNCHANGED file \/ file' = [file EXCEPT ![g] = "complete"]
    BY <1>5 DEF CopyISO, ExtractByHand
  <2>2. file \in [Files -> FileStates]
    BY DEF Inv, Tables
  <2>3. \A h \in Files : file[h] # "absent" => file'[h] # "absent"
    BY <2>1, <2>2
  <2>4. OnDisk \subseteq OnDisk'
    BY <2>3 DEF OnDisk
  <2>5. ASSUME NEW r \in Requests
        PROVE  Steady(r)'
    <3>1. Steady(r) /\ req'[r] = req[r] /\ Sound(req[r])
      BY <2>1 DEF AllSteady, Inv, InFlight
    <3>2. req[r].pc \in {"upload_copy", "upload_get", "upload_insert", "upload_save",
                         "download_copy", "download_sync"} => req[r].f \in Files
      BY <3>1 DEF Sound, Named, Steps
    <3> QED BY <2>1, <2>3, <2>4, <3>1, <3>2 DEF Steady
  <2> QED BY <2>5 DEF AllSteady
<1>6. CASE UNCHANGED vars
  <2>1. UNCHANGED <<file, image, req>> /\ OnDisk' = OnDisk
    BY <1>6 DEF vars, OnDisk
  <2> QED BY <2>1 DEF AllSteady, Steady
<1> QED BY <1>2, <1>3, <1>4, <1>5, <1>6 DEF Next

\* Nothing is in flight.
LEMMA SteadyInit == Init => AllSteady
<1> SUFFICES ASSUME Init PROVE AllSteady
  OBVIOUS
<1>1. \A r \in Requests : req[r] = Idle
  BY DEF Init
<1>2. Idle.pc = "idle"
  BY DEF Idle
<1> QED BY <1>1, <1>2 DEF AllSteady, Steady

-----------------------------------------------------------------------------
(* The effects of a step on the files and on the rows.                     *)

\* A file is removed, created under a name that was checked, completed, or put there
\* by the administrator.
LEMMA FileEffects ==
    ASSUME Next
    PROVE  \/ UNCHANGED file
           \/ \E g : file' = [file EXCEPT ![g] = "absent"]
           \/ \E r \in Requests : /\ req[r].pc \in {"upload_create", "download_create"}
                                  /\ \E s : CreateFile(r, s)
           \/ \E r \in Requests : file' = FileCopied(r)
           \/ \E g \in Files : CopyISO(g)
<1> DEFINE Effect ==
           \/ UNCHANGED file
           \/ \E g : file' = [file EXCEPT ![g] = "absent"]
           \/ \E r \in Requests : /\ req[r].pc \in {"upload_create", "download_create"}
                                  /\ \E s : CreateFile(r, s)
           \/ \E r \in Requests : file' = FileCopied(r)
           \/ \E g \in Files : CopyISO(g)
<1>1. ASSUME NEW r \in Requests, Arrival(r)
      PROVE  Effect
  <2>1. CASE \E f \in Files : DeleteImageFile(r, f)
    BY <2>1 DEF DeleteImageFile
  <2>2. CASE ListImages(r) \/ ScanImages(r)
    BY <2>2 DEF ListImages, ScanImages, Walk
  <2>3. ASSUME NEW f \in Files, \/ \E form \in {"", "true", "false"} : UploadImage(r, f, form)
                                \/ DownloadISO(r, f) \/ DownloadNetboot(r, f)
                                \/ ExtractImage(r, f) \/ DeleteImage(r, f)
        PROVE  Effect
    BY <2>3 DEF UploadImage, DownloadISO, DownloadNetboot, ExtractImage, DeleteImage
  <2>4. ASSUME NEW f \in Files, \/ \E m \in Methods : SetBootMethod(r, f, m)
                                \/ UpdateImage(r, f) \/ RedetectImage(r, f) \/ UpdateAutoInstallScript(r, f)
                                \/ PatchImageSMB(r, f)
        PROVE  Effect
    BY <2>4 DEF UpdateImage, SetBootMethod, RedetectImage, UpdateAutoInstallScript,
                PatchImageSMB, ReadThenSave
  <2> QED BY <1>1, <2>1, <2>2, <2>3, <2>4 DEF Arrival
<1>2. ASSUME NEW r \in Requests, RequestStep(r)
      PROVE  Effect
  <2>1. CASE UploadCreate(r) \/ DownloadCreate(r)
    BY <2>1 DEF UploadCreate, DownloadCreate, At
  <2>2. CASE UploadCopied(r) \/ DownloadCopied(r)
    BY <2>2 DEF UploadCopied, DownloadCopied
  <2>3. CASE UploadInsert(r) \/ DeleteFile(r)
    BY <2>3 DEF UploadInsert, DeleteFile
  <2>4. CASE \/ UploadGet(r) \/ DownloadSync(r) \/ DownloadGet(r) \/ SyncImages(r)
             \/ DetectList(r) \/ DetectManualExtractions(r) \/ ScanList(r) \/ ScanDelete(r)
             \/ ScanRemoveDir(r) \/ NetbootCopy(r) \/ ExtractBootFiles(r) \/ ExtractBsdtar(r)
             \/ ExtractContents(r) \/ ExtractWindows(r) \/ ExtractCopy(r) \/ SaveImage(r)
             \/ DeleteDir(r) \/ DeleteImageRow(r) \/ ResetGet(r) \/ Answer(r)
    BY <2>4 DEF UploadGet, DownloadSync, DownloadGet, SyncImages, DetectList,
                DetectManualExtractions, ScanList, ScanDelete, ScanRemoveDir, NetbootCopy,
                ExtractBootFiles, ExtractBsdtar, ExtractContents, ExtractWindows, ExtractCopy,
                SaveImage, DeleteDir, DeleteImageRow, ResetGet, Answer
  <2> QED BY <1>2, <2>1, <2>2, <2>3, <2>4 DEF RequestStep
<1>3. ASSUME NEW r \in Requests, RequestError(r) \/ LoopError(r)
      PROVE  Effect
  BY <1>3 DEF RequestError, LoopError
<1>4. CASE Restart
  BY <1>4 DEF Restart
<1>5. ASSUME NEW f \in Files, CopyISO(f) \/ ExtractByHand(f)
      PROVE  Effect
  BY <1>5 DEF ExtractByHand
<1>6. Effect
  BY <1>1, <1>2, <1>3, <1>4, <1>5 DEF Next
<1> QED BY <1>6

\* A row is deleted, registered because its ISO is there, inserted by an upload,
\* or saved by the request that holds it.
ImageEffect ==
    \/ UNCHANGED image
    \/ \E g : image' = [image EXCEPT ![g] = NoRow]
    \/ \E S \in SUBSET OnDisk :
          image' = [f \in Files |-> IF f \in S THEN Synced(image[f]) ELSE image[f]]
    \/ \E r \in Requests :
          /\ req[r].pc = "upload_insert" /\ ~image[req[r].f].row
          /\ \E row : image' = [image EXCEPT ![req[r].f] = row]
    \/ \E r \in Requests : SaveImage(r)
    \/ \E r \in Requests : /\ req[r].pc = "detect"
                           /\ \E g \in req[r].todo :
                                 Saved(g, [req[r].rows[g] EXCEPT !.extracted = TRUE,
                                                                 !.method = "kernel"])

\* There is no other statement on the table.
LEMMA ImageEffects ==
    ASSUME Inv, AllSteady, Next
    PROVE  ImageEffect
<1>0. image \in [Files -> Row]
  BY DEF Inv, Tables
<1>1. ASSUME NEW r \in Requests, Arrival(r)
      PROVE  ImageEffect
  <2>1. CASE \E f \in Files : DeleteImageFile(r, f)
    BY <2>1 DEF DeleteImageFile, ImageEffect
  <2>2. CASE ListImages(r) \/ ScanImages(r)
    BY <2>2 DEF ListImages, ScanImages, Walk, ImageEffect
  <2>3. ASSUME NEW f \in Files, \/ \E form \in {"", "true", "false"} : UploadImage(r, f, form)
                                \/ DownloadISO(r, f) \/ DownloadNetboot(r, f)
                                \/ ExtractImage(r, f) \/ DeleteImage(r, f)
        PROVE  ImageEffect
    BY <2>3 DEF UploadImage, DownloadISO, DownloadNetboot, ExtractImage, DeleteImage,
                ImageEffect
  <2>4. ASSUME NEW f \in Files, \/ \E m \in Methods : SetBootMethod(r, f, m)
                                \/ UpdateImage(r, f) \/ RedetectImage(r, f) \/ UpdateAutoInstallScript(r, f)
                                \/ PatchImageSMB(r, f)
        PROVE  ImageEffect
    BY <2>4 DEF UpdateImage, SetBootMethod, RedetectImage, UpdateAutoInstallScript,
                PatchImageSMB, ReadThenSave, ImageEffect
  <2> QED BY <1>1, <2>1, <2>2, <2>3, <2>4 DEF Arrival
<1>2. ASSUME NEW r \in Requests, RequestStep(r)
      PROVE  ImageEffect
  <2> DEFINE q == req[r]
             f == req[r].f
  <2>1. /\ q.pc \in Named => f \in Files
        /\ q.todo \subseteq Files /\ Steady(r)
    BY RequestTyped DEF Inv, AllSteady
  <2>2. ASSUME NEW g \in OnDisk, image' = [image EXCEPT ![g] = Synced(@)]
        PROVE  ImageEffect
    <3>1. image' = [h \in Files |-> IF h \in {g} THEN Synced(image[h]) ELSE image[h]]
      BY <1>0, <2>2
    <3>2. {g} \in SUBSET OnDisk
      OBVIOUS
    <3> QED BY <3>1, <3>2 DEF ImageEffect
  <2>3. CASE DownloadSync(r)
    <3>1. f \in OnDisk
      BY <2>1, <2>3 DEF DownloadSync, At, Named, Steps, Steady, OnDisk
    <3> QED BY <2>2, <2>3, <3>1 DEF DownloadSync
  <2>4. CASE SyncImages(r)
    <3>1. q.todo \subseteq OnDisk
      BY <2>1, <2>4 DEF SyncImages, At, Steady
    <3>2. CASE \E g \in q.todo : image' = [image EXCEPT ![g] = Synced(@)]
      BY <2>2, <3>1, <3>2
    <3> QED BY <2>4, <3>2 DEF SyncImages, ImageEffect
  <2>5. CASE UploadInsert(r)
    BY <2>5 DEF UploadInsert, At, ImageEffect
  <2>6. CASE SaveImage(r)
    BY <2>6 DEF ImageEffect
  <2>7. CASE DetectManualExtractions(r)
    BY <2>7 DEF DetectManualExtractions, At, ImageEffect
  <2>8. CASE ScanDelete(r) \/ DeleteImageRow(r)
    BY <2>8 DEF ScanDelete, DeleteImageRow, ImageEffect
  <2>9. CASE \/ UploadCreate(r) \/ UploadCopied(r) \/ UploadGet(r) \/ DownloadCreate(r)
             \/ DownloadCopied(r) \/ DownloadGet(r) \/ DetectList(r) \/ ScanList(r)
             \/ ScanRemoveDir(r) \/ NetbootCopy(r) \/ ExtractBootFiles(r) \/ ExtractBsdtar(r)
             \/ ExtractContents(r) \/ ExtractWindows(r) \/ ExtractCopy(r)
             \/ DeleteFile(r) \/ DeleteDir(r) \/ ResetGet(r) \/ Answer(r)
    BY <2>9 DEF UploadCreate, UploadCopied, UploadGet, DownloadCreate, DownloadCopied,
                DownloadGet, DetectList, ScanList, ScanRemoveDir, NetbootCopy,
                ExtractBootFiles, ExtractBsdtar, ExtractContents, ExtractWindows, ExtractCopy,
                DeleteFile, DeleteDir, ResetGet, Answer, ImageEffect
  <2> QED BY <1>2, <2>3, <2>4, <2>5, <2>6, <2>7, <2>8, <2>9 DEF RequestStep
<1>3. ASSUME NEW r \in Requests, RequestError(r) \/ LoopError(r)
      PROVE  ImageEffect
  BY <1>3 DEF RequestError, LoopError, ImageEffect
<1>4. CASE Restart
  BY <1>4 DEF Restart, ImageEffect
<1>5. ASSUME NEW f \in Files, CopyISO(f) \/ ExtractByHand(f)
      PROVE  ImageEffect
  BY <1>5 DEF CopyISO, ExtractByHand, ImageEffect
<1> QED BY <1>1, <1>2, <1>3, <1>4, <1>5 DEF Next

-----------------------------------------------------------------------------
(* Theorems.                                                               *)

\* Every handler, error path and restart keeps the disk, the images table and
\* the requests in flight in their types, for any number of files and requests.
THEOREM CatalogueTypeCorrect == Spec => []TypeOK
<1>1. Inv => TypeOK
  BY DEF Inv, Tables, InFlight, TypeOK
<1> QED BY <1>1, InvInit, InvNext, PTL DEF Spec

\* SetBootMethod's "image not extracted" guard is checked on a row that is saved
\* later, when the row in the table may be another.  It is enough all the same: no
\* interleaving of whole-row saves, failed extractions, resets and deletions gives
\* a row that is not extracted a boot method that needs boot files, but a method
\* that PUT /api/images carries, which does not ask.
THEOREM OnlyEditsAreUnchecked == Spec => []OnlyEditsUnchecked
<1>1. Inv => OnlyEditsUnchecked
  BY DEF Inv, Tables, Agrees, OnlyEditsUnchecked
<1> QED BY <1>1, InvInit, InvNext, PTL DEF Spec

\* "Image uploaded" is true when it is sent, for any number of requests in flight:
\* if nobody else has changed the disk or the table meanwhile, the ISO is complete
\* and its row is enabled and as public as was asked for, whatever failures,
\* restarts and races came before.
THEOREM UploadsDeliver == Spec => []UploadDelivers
<1>1. Far => UploadDelivers
  BY DEF Far, Stages, AllStages, UploadStage, UploadDelivers, Succeeded, At
<1> QED BY <1>1, FarInit, FarNext, PTL DEF Spec

\* "Successfully extracted" is true when it is sent, whichever of the readers has
\* succeeded and whatever those before it have left: the contents are on disk, the
\* boot files too unless the ISO is Windows, and the row boots the kernel, unless
\* somebody else has changed the disk or the table during the extraction.
THEOREM ExtractionsDeliver == Spec => []ExtractDelivers
<1>1. Far => ExtractDelivers
  BY DEF Far, Stages, AllStages, ExtractStage, Unpacked, ExtractDelivers, Succeeded, At
<1> QED BY <1>1, FarInit, FarNext, PTL DEF Spec

\* "Image deleted", with delete_file and without an ignored error, is true when it
\* is sent: neither the ISO nor what was extracted from it nor the row is left.
THEOREM DeletionsDeliver == Spec => []DeleteDelivers
<1>1. Far => DeleteDelivers
  BY DEF Far, Stages, AllStages, DeleteStage, DeleteDelivers, Succeeded, At
<1> QED BY <1>1, FarInit, FarNext, PTL DEF Spec

\* A scan that has met no error leaves a row exactly for every ISO on disk: what
\* the walk has met is registered, what it has not met is deleted, and the list of
\* rows is read late enough to contain both.
THEOREM ScansReconcile == Spec => []ScanReconciles
<1>1. Far => ScanReconciles
  BY DEF Far, Stages, AllStages, ScanStage, ScanReconciles, Succeeded, At, OnDisk
<1> QED BY <1>1, FarInit, FarNext, PTL DEF Spec

\* UploadImage and DownloadISO answer "File already exists" for a name on disk and
\* create the file much later.  As long as requests do not overlap and nobody else
\* writes ISOs, the check still holds then: no file is written again, through
\* failed transfers, restarts and uploads of a name that was deleted.
THEOREM SerialNeverOverwrites ==
    ASSUME OneAtATime, "CopyISO" \notin Ops
    PROVE  Spec => NeverOverwritten
<1> DEFINE Body == \A f \in Files : file[f] # "absent" =>
                      \/ file'[f] \in {file[f], "absent"}
                      \/ file[f] = "partial" /\ file'[f] = "complete"
<1>1. ASSUME Inv, AllSteady, Next
      PROVE  Body
  <2>1. file \in [Files -> FileStates]
    BY <1>1 DEF Inv, Tables
  <2>2. CASE UNCHANGED file
    BY <2>2
  <2>3. CASE \E g : file' = [file EXCEPT ![g] = "absent"]
    BY <2>1, <2>3
  <2>4. ASSUME NEW r \in Requests, NEW s, req[r].pc \in {"upload_create", "download_create"},
               CreateFile(r, s)
        PROVE  Body
    <3>1. file[req[r].f] = "absent"
      BY <1>1, <2>4 DEF AllSteady, Steady
    <3> QED BY <2>1, <2>4, <3>1 DEF CreateFile
  <2>5. ASSUME NEW r \in Requests, file' = FileCopied(r)
        PROVE  Body
    BY <2>1, <2>5 DEF FileCopied
  <2>6. ~\E g \in Files : CopyISO(g)
    BY DEF CopyISO
  <2> QED BY <1>1, <2>2, <2>3, <2>4, <2>5, <2>6, FileEffects
<1>2. Inv /\ AllSteady /\ [Next]_vars => [Body]_vars
  BY <1>1
<1>3. Inv /\ AllSteady /\ [Next]_vars => (Inv /\ AllSteady)'
  BY InvNext, SteadyNext
<1>4. Init => Inv /\ AllSteady
  BY InvInit, SteadyInit
<1> QED BY <1>2, <1>3, <1>4, PTL DEF Spec, NeverOverwritten

\* Save inserts a row that is gone.  As long as requests do not overlap it never
\* does: a row comes into being only for an ISO on disk, so that an image deleted
\* with its file does not come back, whatever fails.
THEOREM SerialRowsNeedFiles ==
    ASSUME OneAtATime
    PROVE  Spec => RowsNeedFiles
<1> DEFINE Body == \A f \in Files : ~image[f].row /\ image'[f].row => file[f] # "absent"
<1>1. ASSUME Inv, AllSteady, Next
      PROVE  Body
  <2>1. image \in [Files -> Row]
    BY <1>1 DEF Inv, Tables
  <2>2. CASE UNCHANGED image
    BY <2>2
  <2>3. ASSUME NEW g, image' = [image EXCEPT ![g] = NoRow]
        PROVE  Body
    <3>1. ~NoRow.row
      BY DEF NoRow
    <3> QED BY <2>1, <2>3, <3>1
  <2>4. ASSUME NEW S \in SUBSET OnDisk,
               image' = [f \in Files |-> IF f \in S THEN Synced(image[f]) ELSE image[f]]
        PROVE  Body
    BY <2>4 DEF OnDisk
  <2>5. ASSUME NEW r \in Requests, req[r].pc = "upload_insert", NEW row,
               image' = [image EXCEPT ![req[r].f] = row]
        PROVE  Body
    <3>1. file[req[r].f] # "absent"
      BY <1>1, <2>5 DEF AllSteady, Steady
    <3> QED BY <2>1, <2>5, <3>1
  <2>6. ASSUME NEW g, NEW row, image[g].row, Saved(g, row)
        PROVE  Body
    BY <2>1, <2>6 DEF Saved
  <2>7. ASSUME NEW r \in Requests, SaveImage(r)
        PROVE  Body
    <3>1. image[req[r].f].row /\ Saved(req[r].f, req[r].rows[req[r].f])
      BY <1>1, <2>7 DEF SaveImage, AllSteady, Steady
    <3> QED BY <2>6, <3>1
  <2>8. ASSUME NEW r \in Requests, req[r].pc = "detect", NEW g \in req[r].todo, NEW row,
               Saved(g, row)
        PROVE  Body
    BY <1>1, <2>6, <2>8 DEF AllSteady, Steady
  <2>9. ImageEffect
    BY <1>1, ImageEffects
  <2> QED BY <2>2, <2>3, <2>4, <2>5, <2>7, <2>8, <2>9 DEF ImageEffect
<1>2. Inv /\ AllSteady /\ [Next]_vars => [Body]_vars
  BY <1>1
<1>3. Inv /\ AllSteady /\ [Next]_vars => (Inv /\ AllSteady)'
  BY InvNext, SteadyNext
<1>4. Init => Inv /\ AllSteady
  BY InvInit, SteadyInit
<1> QED BY <1>2, <1>3, <1>4, PTL DEF Spec, RowsNeedFiles

\* A save changes no column of a row but those its request is about.
EditsStick ==
    [][\A r \in Requests, f \in Files :
          /\ req[r].pc \in {"save", "upload_save", "detect"}
          /\ req'[r] # req[r]
          /\ image[f].row /\ image'[f].row
          => \A c \in Columns \ req[r].sets : image'[f][c] = image[f][c]]_vars

\* Save writes every column.  As long as requests do not overlap, the columns a
\* handler is not about are written as they are in the table, by the listing that
\* saves several rows and by the failed extraction too.  With two requests it is
\* not so: an extraction that read the row before an edit undoes the edit.
THEOREM SerialEditsStick ==
    ASSUME OneAtATime
    PROVE  Spec => EditsStick
<1> DEFINE Body == \A r \in Requests, f \in Files :
                      /\ req[r].pc \in {"save", "upload_save", "detect"}
                      /\ req'[r] # req[r]
                      /\ image[f].row /\ image'[f].row
                      => \A c \in Columns \ req[r].sets : image'[f][c] = image[f][c]
<1>1. ASSUME Inv, AllSteady, Next, NEW r \in Requests, NEW f \in Files,
             req[r].pc \in {"save", "upload_save", "detect"}, image[f].row, image'[f].row
      PROVE  \A c \in Columns \ req[r].sets : image'[f][c] = image[f][c]
  <2> DEFINE Same == \A c \in Columns \ req[r].sets : image'[f][c] = image[f][c]
  <2>1. image \in [Files -> Row] /\ req[r].todo \subseteq Files
    BY <1>1, RequestTyped DEF Inv, Tables
  <2>2. ASSUME image'[f] = image[f]
        PROVE  Same
    BY <2>2
  <2>3. ASSUME NEW g, image' = [image EXCEPT ![g] = NoRow]
        PROVE  Same
    <3>1. ~NoRow.row
      BY DEF NoRow
    <3>2. image'[f] = image[f]
      BY <1>1, <2>1, <2>3, <3>1
    <3> QED BY <2>2, <3>2
  <2>4. ASSUME NEW S \in SUBSET OnDisk,
               image' = [h \in Files |-> IF h \in S THEN Synced(image[h]) ELSE image[h]]
        PROVE  Same
    <3>1. image'[f] = image[f]
      BY <1>1, <2>4 DEF Synced
    <3> QED BY <2>2, <3>1
  <2>5. ASSUME NEW s \in Requests, ~image[req[s].f].row, NEW row,
               image' = [image EXCEPT ![req[s].f] = row]
        PROVE  Same
    <3>1. image'[f] = image[f]
      BY <1>1, <2>1, <2>5
    <3> QED BY <2>2, <3>1
  <2>6. ASSUME NEW s \in Requests, SaveImage(s)
        PROVE  Same
    <3>1. s = r
      BY DEF OneAtATime
    <3>2. /\ Saved(req[r].f, req[r].rows[req[r].f])
          /\ image[req[r].f].row
          /\ \A c \in Columns \ req[r].sets : req[r].rows[req[r].f][c] = image[req[r].f][c]
      BY <1>1, <2>6, <3>1 DEF SaveImage, AllSteady, Steady
    <3>3. CASE f = req[r].f
      <4>1. image'[f] = req[r].rows[f]
        BY <2>1, <3>2, <3>3 DEF Saved
      <4> QED BY <3>2, <3>3, <4>1
    <3>4. CASE f # req[r].f
      <4>1. image'[f] = image[f]
        BY <2>1, <3>2, <3>4 DEF Saved
      <4> QED BY <2>2, <4>1
    <3> QED BY <3>3, <3>4
  <2>7. ASSUME NEW s \in Requests, req[s].pc = "detect", NEW g \in req[s].todo,
               Saved(g, [req[s].rows[g] EXCEPT !.extracted = TRUE, !.method = "kernel"])
        PROVE  Same
    <3>1. s = r
      BY DEF OneAtATime
    <3>2. req[r].sets = {"extracted", "method"} /\ image[g].row /\ req[r].rows[g] = image[g]
      BY <1>1, <2>7, <3>1 DEF AllSteady, Steady
    <3>3. CASE f = g
      <4>1. image'[f] = [image[f] EXCEPT !.extracted = TRUE, !.method = "kernel"]
        BY <2>1, <2>7, <3>1, <3>2, <3>3 DEF Saved
      <4>2. image[f] \in Row
        BY <2>1
      <4>3. \A c \in Columns \ {"extracted", "method"} :
               [image[f] EXCEPT !.extracted = TRUE, !.method = "kernel"][c] = image[f][c]
        BY <4>2 DEF Row, Columns
      <4> QED BY <3>2, <4>1, <4>3
    <3>4. CASE f # g
      <4>1. image'[f] = image[f]
        BY <2>1, <2>7, <3>4 DEF Saved
      <4> QED BY <2>2, <4>1
    <3> QED BY <3>3, <3>4
  <2>8. ImageEffect
    BY <1>1, ImageEffects
  <2>9. CASE UNCHANGED image
    BY <2>2, <2>9
  <2>10. Same
    BY <2>3, <2>4, <2>5, <2>6, <2>7, <2>8, <2>9 DEF ImageEffect
  <2> QED BY <2>10
<1>2. Inv /\ AllSteady /\ [Next]_vars => [Body]_vars
  BY <1>1
<1>3. Inv /\ AllSteady /\ [Next]_vars => (Inv /\ AllSteady)'
  BY InvNext, SteadyNext
<1>4. Init => Inv /\ AllSteady
  BY InvInit, SteadyInit
<1> QED BY <1>2, <1>3, <1>4, PTL DEF Spec, EditsStick
=============================================================================
