--------------------------- MODULE ImageCatalogue ---------------------------
(***************************************************************************)
(* The catalogue of boot images: for each filename an ISO on disk, the     *)
(* directory its boot files are extracted to, and a row of the images      *)
(* table.  Nothing ties the three together but the handlers below, which   *)
(* change one after the other.                                             *)
(*                                                                         *)
(* Most handlers read the row, work for seconds or minutes and then save   *)
(* the whole row they had read: gorm's Save updates every column, and when *)
(* the row is gone it inserts it again.  As in Enrollment, a request is a  *)
(* small process with one step per statement or file operation.            *)
(***************************************************************************)
EXTENDS Naturals, FiniteSets

CONSTANTS
    Files,          \* filenames, relative to the ISO directory
    Requests,       \* goroutines that can be in flight together
    Methods,        \* values of boot_method
    MethodEdits,    \* values of boot_method that PUT /api/images carries
    Ops             \* the kinds of request of this instance

\* The boot methods that need extracted boot files.
NeedBootFiles == {"kernel", "nfs"}

ASSUME CatalogueAssumption ==
    /\ {"sanboot", "kernel"} \subseteq Methods
    /\ MethodEdits \subseteq Methods

VARIABLES
    file,       \* the ISO: "mixed" when two writers wrote into one file
    dir,        \* extracted: nothing, vmlinuz and initrd, the contents, or both
    image,      \* images, by filename
    req,        \* requests in flight
    alone       \* history: nobody else has changed anything under this request

vars == <<file, dir, image, req, alone>>

FileStates == {"absent", "partial", "complete", "mixed"}
DirStates == {"none", "boot", "contents", "full"}
HasBootFiles(d) == d \in {"boot", "full"}
HasContents(d) == d \in {"contents", "full"}
WithBootFiles(d) == IF HasContents(d) THEN "full" ELSE "boot"
WithContents(d) == IF HasBootFiles(d) THEN "full" ELSE "contents"

Columns == {"enabled", "public", "extracted", "sanboot", "method"}

Row == [row: BOOLEAN, enabled: BOOLEAN, public: BOOLEAN, extracted: BOOLEAN,
        sanboot: BOOLEAN, method: Methods]

NoRow == [row |-> FALSE, enabled |-> FALSE, public |-> FALSE,
          extracted |-> FALSE, sanboot |-> FALSE, method |-> "sanboot"]

NewRow(public) == [row |-> TRUE, enabled |-> TRUE, public |-> public,
                   extracted |-> FALSE, sanboot |-> TRUE, method |-> "sanboot"]

Steps == {"idle", "answered", "save",
          "upload_create", "upload_copy", "upload_get", "upload_insert",
          "upload_save",
          "download_create", "download_copy", "download_sync", "download_get",
          "sync", "detect_list", "detect", "scan_list", "scan_delete",
          "scan_dir", "extract_boot", "extract_contents", "extract_copy",
          "netboot_copy",
          "delete_file", "delete_dir", "delete_row", "reset_get"}

OpNames == {"", "UploadImage", "DownloadISO", "ListImages", "ScanImages",
            "UpdateImage", "SetBootMethod", "ExtractImage", "ExtractFailed",
            "RedetectImage", "UpdateAutoInstallScript", "PatchImageSMB",
            "DownloadNetboot", "DeleteImage", "DeleteWithFile",
            "DeleteImageFile"}

\* Extract tries one reader of the ISO after another: ISO9660, UDF and bsdtar,
\* or, where it recognises UDF, UDF and ISO9660.
Readers == {"", "iso9660", "udf", "bsdtar", "udf_first", "iso9660_last"}

NextReader(reader) == CASE reader = "iso9660"   -> "udf"
                        [] reader = "udf"       -> "bsdtar"
                        [] reader = "udf_first" -> "iso9660_last"
                        [] OTHER -> ""

\* What a request remembers: its file, the "public" field of an upload and
\* whether the image was new then, the rows it has read and edited, the columns
\* it means to set, the files it has walked, those it has still to treat and the
\* one whose directory is next, whether the file it writes is still linked,
\* whether it has ignored an error, the reader that extracts, and whether that has
\* found Windows.
Request == [pc: Steps, op: OpNames, f: Files \cup {""}, form: {"", "true", "false"},
            fresh: BOOLEAN, rows: [Files -> Row], sets: SUBSET Columns,
            walk: SUBSET Files, todo: SUBSET Files, at: Files \cup {""},
            linked: BOOLEAN, err: BOOLEAN, reader: Readers, windows: BOOLEAN]

Idle == [pc |-> "idle", op |-> "", f |-> "", form |-> "", fresh |-> FALSE,
         rows |-> [f \in Files |-> NoRow], sets |-> {}, walk |-> {}, todo |-> {},
         at |-> "", linked |-> FALSE, err |-> FALSE, reader |-> "", windows |-> FALSE]

TypeOK ==
    /\ file \in [Files -> FileStates]
    /\ dir \in [Files -> DirStates]
    /\ image \in [Files -> Row]
    /\ req \in [Requests -> Request]
    /\ alone \in [Requests -> BOOLEAN]

At(r, step) == req[r].pc = step
Goto(r, step) == req' = [req EXCEPT ![r].pc = step]
Finish(r) == req' = [req EXCEPT ![r] = Idle]
Arrives(r, op) == op \in Ops /\ At(r, "idle")
OnDisk == {f \in Files : file[f] # "absent"}

Begin(r, op, step, f) ==
    req' = [req EXCEPT ![r] = [Idle EXCEPT !.pc = step, !.op = op, !.f = f,
                                           !.fresh = ~image[f].row]]

-----------------------------------------------------------------------------
(* Statements and file operations.                                         *)

\* UpdateImage of the store.  Where the row is gone it is inserted, and the
\* columns that default to true come back true.
Saved(f, row) ==
    image' = [image EXCEPT ![f] =
        IF @.row THEN row ELSE [row EXCEPT !.enabled = TRUE, !.sanboot = TRUE]]

\* SyncImages on one file: an unknown ISO is registered for everyone.
Synced(row) == IF row.row THEN row ELSE NewRow(TRUE)

Writers(f) == {r \in Requests : req[r].f = f /\ req[r].linked
                                /\ req[r].pc \in {"upload_copy", "download_copy"}}

\* os.Create truncates a file that is there.
CreateFile(r, step) ==
    /\ file' = [file EXCEPT ![req[r].f] =
                   IF Writers(req[r].f) = {} THEN "partial" ELSE "mixed"]
    /\ req' = [req EXCEPT ![r].pc = step, ![r].linked = TRUE]

\* What is left to the other requests when the file f is removed: those that
\* write it write on into a file without a name.
Unlinked(f) == [q \in Requests |->
                   [req[q] EXCEPT !.linked = @ /\ req[q].f # f]]

\* Variant: a state of its own for files that are done.
FileDone(r) == [file EXCEPT ![req[r].f] = "done"]

\* The copy is complete, and so is the file if it is this writer's alone.
FileCopied(r) ==
    [file EXCEPT ![req[r].f] =
        IF req[r].linked /\ @ = "partial" THEN "complete" ELSE @]

-----------------------------------------------------------------------------
(* Uploads and downloads.                                                  *)

\* Variant: the name is not checked.
UploadAnyName(r, f, form) ==
    /\ Arrives(r, "UploadImage")
    /\ req' = [req EXCEPT ![r] = [Idle EXCEPT !.pc = "upload_create",
           !.op = "UploadImage", !.f = f, !.form = form, !.fresh = ~image[f].row]]
    /\ UNCHANGED <<file, dir, image>>

\* UploadImage refuses a name that is on disk, then creates the file.
UploadImage(r, f, form) ==
    /\ Arrives(r, "UploadImage")
    /\ file[f] = "absent"
    /\ req' = [req EXCEPT ![r] = [Idle EXCEPT !.pc = "upload_create",
           !.op = "UploadImage", !.f = f, !.form = form, !.fresh = ~image[f].row]]
    /\ UNCHANGED <<file, dir, image>>

UploadCreate(r) ==
    /\ At(r, "upload_create")
    /\ CreateFile(r, "upload_copy")
    /\ UNCHANGED <<dir, image>>

UploadCopied(r) ==
    /\ At(r, "upload_copy")
    /\ file' = FileCopied(r)
    /\ Goto(r, "upload_get")
    /\ UNCHANGED <<dir, image>>

\* Variant: "false" leaves the image as it is.
ReuploadedPublic(row, form) ==
    [row EXCEPT !.enabled = TRUE, !.public = @ \/ form = "true"]

\* The row of an image that is uploaded again.
Reuploaded(row, form) ==
    [row EXCEPT !.enabled = TRUE,
                !.public = IF form = "" THEN @ ELSE form = "true"]

UploadGet(r) ==
    /\ At(r, "upload_get")
    /\ LET f == req[r].f
       IN  IF image[f].row
           THEN req' = [req EXCEPT
                  ![r].pc = "upload_save",
                  ![r].rows[f] = Reuploaded(image[f], req[r].form),
                  ![r].sets = {"enabled"} \cup (IF req[r].form = "" THEN {}
                                                                ELSE {"public"})]
           ELSE Goto(r, "upload_insert")
    /\ UNCHANGED <<file, dir, image>>

\* The unique index may have been taken meanwhile: the file is removed then.
UploadInsert(r) ==
    /\ At(r, "upload_insert")
    /\ LET f == req[r].f
       IN  \/ /\ ~image[f].row
              /\ image' = [image EXCEPT ![f] = NewRow(req[r].form = "true")]
              /\ Goto(r, "answered")
              /\ UNCHANGED file
           \/ /\ image[f].row
              /\ file' = [file EXCEPT ![f] = "absent"]
              /\ req' = [Unlinked(f) EXCEPT ![r] = Idle]
              /\ UNCHANGED image
    /\ UNCHANGED dir

\* Variant: the image is registered before it is downloaded.
DownloadRegistered(r, f) ==
    /\ Arrives(r, "DownloadISO")
    /\ file[f] = "absent"
    /\ Begin(r, "DownloadISO", "download_sync", f)
    /\ UNCHANGED <<file, dir, image>>

\* DownloadISO checks the name and answers; the goroutine it starts creates the
\* file once the remote server has answered.
DownloadISO(r, f) ==
    /\ Arrives(r, "DownloadISO")
    /\ file[f] = "absent"
    /\ Begin(r, "DownloadISO", "download_create", f)
    /\ UNCHANGED <<file, dir, image>>

DownloadCreate(r) ==
    /\ At(r, "download_create")
    /\ CreateFile(r, "download_copy")
    /\ UNCHANGED <<dir, image>>

DownloadCopied(r) ==
    /\ At(r, "download_copy")
    /\ file' = FileCopied(r)
    /\ Goto(r, "download_sync")
    /\ UNCHANGED <<dir, image>>

DownloadSync(r) ==
    /\ At(r, "download_sync")
    /\ image' = [image EXCEPT ![req[r].f] = Synced(@)]
    /\ Goto(r, "download_get")
    /\ UNCHANGED <<file, dir>>

\* The description and the distro are saved when there are any.
DownloadGet(r) ==
    /\ At(r, "download_get")
    /\ LET f == req[r].f
       IN  \/ /\ image[f].row
              /\ req' = [req EXCEPT ![r].pc = "save", ![r].rows[f] = image[f]]
           \/ Finish(r)
    /\ UNCHANGED <<file, dir, image>>

-----------------------------------------------------------------------------
(* Listing and scanning.                                                   *)

\* The walk of the ISO directory that both begin with; partial files count.
Walk(r, op) ==
    /\ Arrives(r, op)
    /\ req' = [req EXCEPT ![r] = [Idle EXCEPT !.pc = "sync", !.op = op,
                                              !.walk = OnDisk, !.todo = OnDisk]]
    /\ UNCHANGED <<file, dir, image>>

ListImages(r) == Walk(r, "ListImages")
ScanImages(r) == Walk(r, "ScanImages")

\* SyncImages, file after file.
SyncImages(r) ==
    /\ At(r, "sync")
    /\ \/ /\ req[r].todo = {}
          /\ Goto(r, IF req[r].op = "ScanImages" THEN "scan_list" ELSE "detect_list")
          /\ UNCHANGED image
       \/ \E f \in req[r].todo :
             /\ image' = [image EXCEPT ![f] = Synced(@)]
             /\ req' = [req EXCEPT ![r].todo = @ \ {f}]
    /\ UNCHANGED <<file, dir>>

\* detectManualExtractions lists the rows once and saves those whose boot files
\* are there, as they were when it listed them.
DetectList(r) ==
    /\ At(r, "detect_list")
    /\ req' = [req EXCEPT ![r].pc = "detect", ![r].rows = image,
                          ![r].sets = {"extracted", "method"},
           ![r].todo = {f \in Files : image[f].row /\ ~image[f].extracted}]
    /\ UNCHANGED <<file, dir, image>>

DetectManualExtractions(r) ==
    /\ At(r, "detect")
    /\ \/ /\ req[r].todo = {}
          /\ Goto(r, "answered")
          /\ UNCHANGED image
       \/ \E f \in req[r].todo :
             /\ IF HasBootFiles(dir[f])
                THEN Saved(f, [req[r].rows[f] EXCEPT !.extracted = TRUE,
                                                     !.method = "kernel"])
                ELSE UNCHANGED image
             /\ req' = [req EXCEPT ![r].todo = @ \ {f}]
    /\ UNCHANGED <<file, dir>>

\* Variant: only the images every client sees are looked at.
ScanListPublic(r) ==
    /\ At(r, "scan_list")
    /\ req' = [req EXCEPT ![r].pc = "scan_delete",
           ![r].todo = {f \in Files \ req[r].walk : image[f].row /\ image[f].public}]
    /\ UNCHANGED <<file, dir, image>>

\* ScanImages then lists the rows and deletes those the walk has not met.
ScanList(r) ==
    /\ At(r, "scan_list")
    /\ req' = [req EXCEPT ![r].pc = "scan_delete",
           ![r].todo = {f \in Files \ req[r].walk : image[f].row}]
    /\ UNCHANGED <<file, dir, image>>

\* The boot files of a row that is deleted are removed next; a row that is gone
\* already is an error and leaves them.
ScanDelete(r) ==
    /\ At(r, "scan_delete")
    /\ \/ /\ req[r].todo = {}
          /\ Goto(r, "answered")
          /\ UNCHANGED image
       \/ \E f \in req[r].todo :
             \/ /\ image[f].row
                /\ image' = [image EXCEPT ![f] = NoRow]
                /\ req' = [req EXCEPT ![r].pc = "scan_dir", ![r].at = f,
                                      ![r].todo = @ \ {f}]
             \/ /\ ~image[f].row
                /\ req' = [req EXCEPT ![r].todo = @ \ {f}]
                /\ UNCHANGED image
    /\ UNCHANGED <<file, dir>>

\* A RemoveAll that fails is not even logged.
ScanRemoveDir(r) ==
    /\ At(r, "scan_dir")
    /\ \E d \in {"none", dir[req[r].at]} : dir' = [dir EXCEPT ![req[r].at] = d]
    /\ Goto(r, "scan_delete")
    /\ UNCHANGED <<file, image>>

-----------------------------------------------------------------------------
(* Editing one image: read the row, work, save the row.                    *)

ReadThenSave(r, op, f, row, sets) ==
    /\ Arrives(r, op)
    /\ image[f].row
    /\ req' = [req EXCEPT ![r] = [Idle EXCEPT !.pc = "save", !.op = op, !.f = f,
                                              !.rows[f] = row, !.sets = sets]]
    /\ UNCHANGED <<file, dir, image>>

\* UpdateImage takes boot_method as it comes.
UpdateImage(r, f) ==
    \/ \E b \in BOOLEAN :
          \/ ReadThenSave(r, "UpdateImage", f,
                          [image[f] EXCEPT !.enabled = b], {"enabled"})
          \/ ReadThenSave(r, "UpdateImage", f,
                          [image[f] EXCEPT !.public = b], {"public"})
    \/ \E m \in MethodEdits :
          ReadThenSave(r, "UpdateImage", f,
                       [image[f] EXCEPT !.method = m], {"method"})

\* Variant: the method is set whatever has been extracted.
SetAnyBootMethod(r, f, m) ==
    ReadThenSave(r, "SetBootMethod", f, [image[f] EXCEPT !.method = m], {"method"})

SetBootMethod(r, f, m) ==
    /\ m \in NeedBootFiles => image[f].extracted
    /\ m = "sanboot" => image[f].sanboot
    /\ ReadThenSave(r, "SetBootMethod", f, [image[f] EXCEPT !.method = m], {"method"})

\* checkSanbootCompatibility depends on the distro that is detected.
RedetectImage(r, f) ==
    /\ image[f].extracted
    /\ \E s \in BOOLEAN :
          ReadThenSave(r, "RedetectImage", f, [image[f] EXCEPT !.sanboot = s],
                       {"sanboot"})

UpdateAutoInstallScript(r, f) ==
    ReadThenSave(r, "UpdateAutoInstallScript", f, image[f], {})

PatchImageSMB(r, f) ==
    /\ image[f].extracted
    /\ ReadThenSave(r, "PatchImageSMB", f, image[f], {})

\* DownloadNetboot: only an extraction asks for it.
DownloadNetboot(r, f) ==
    /\ Arrives(r, "DownloadNetboot")
    /\ image[f].row /\ image[f].extracted
    /\ req' = [req EXCEPT ![r] = [Idle EXCEPT !.pc = "netboot_copy",
                 !.op = "DownloadNetboot", !.f = f, !.rows[f] = image[f]]]
    /\ UNCHANGED <<file, dir, image>>

\* The kernel and the initrd are copied over those of the ISO; a failure is
\* logged.
NetbootCopy(r) ==
    /\ At(r, "netboot_copy")
    /\ \E d \in {dir[req[r].f], WithBootFiles(dir[req[r].f])} :
          dir' = [dir EXCEPT ![req[r].f] = d]
    /\ Goto(r, "save")
    /\ UNCHANGED <<file, image>>

ExtractImage(r, f) ==
    /\ Arrives(r, "ExtractImage")
    /\ image[f].row
    /\ \E reader \in {"iso9660", "udf_first"} :
          req' = [req EXCEPT ![r] = [Idle EXCEPT !.pc = "extract_boot",
                    !.op = "ExtractImage", !.f = f, !.rows[f] = image[f],
                    !.reader = reader]]
    /\ UNCHANGED <<file, dir, image>>

\* A reader opens the ISO; cacheBootFilesUnified writes vmlinuz and initrd first.
ExtractBootFiles(r) ==
    /\ At(r, "extract_boot")
    /\ req[r].reader # "bsdtar"
    /\ file[req[r].f] # "absent"
    /\ dir' = [dir EXCEPT ![req[r].f] = WithBootFiles(@)]
    /\ Goto(r, "extract_contents")
    /\ UNCHANGED <<file, image>>

\* Variant: the boot method stays what it was.
ExtractedOnly(row, s) == [row EXCEPT !.extracted = TRUE, !.sanboot = s]

Extracted(row, s) ==
    [row EXCEPT !.extracted = TRUE, !.method = "kernel", !.sanboot = s]

\* The reader has succeeded; the row is saved next.
ExtractDone(r, windows) ==
    \E s \in BOOLEAN :
        req' = [req EXCEPT ![r].pc = "save", ![r].windows = windows,
                           ![r].rows[req[r].f] = Extracted(@, s),
                           ![r].sets = {"extracted", "method", "sanboot"}]

\* The contents of the ISO: the walk over them has come to its end, and a file
\* it could not write was skipped with a warning.
ContentsWritten(r) == dir' = [dir EXCEPT ![req[r].f] = WithContents(@)]

ExtractContents(r) ==
    /\ At(r, "extract_contents")
    /\ ContentsWritten(r)
    /\ ExtractDone(r, FALSE)
    /\ UNCHANGED <<file, image>>

\* Of a Windows ISO only the contents are written: the boot loader's files are
\* among them.
ExtractWindows(r) ==
    /\ At(r, "extract_boot")
    /\ req[r].reader # "bsdtar"
    /\ file[req[r].f] # "absent"
    /\ ContentsWritten(r)
    /\ ExtractDone(r, TRUE)
    /\ UNCHANGED <<file, image>>

\* bsdtar unpacks the contents first; a kernel and an initrd among them are
\* copied then.
ExtractBsdtar(r) ==
    /\ At(r, "extract_boot")
    /\ req[r].reader = "bsdtar"
    /\ file[req[r].f] # "absent"
    /\ ContentsWritten(r)
    /\ Goto(r, "extract_copy")
    /\ UNCHANGED <<file, image>>

ExtractCopy(r) ==
    /\ At(r, "extract_copy")
    /\ HasContents(dir[req[r].f])
    /\ dir' = [dir EXCEPT ![req[r].f] = WithBootFiles(@)]
    /\ ExtractDone(r, FALSE)
    /\ UNCHANGED <<file, image>>

SaveImage(r) ==
    /\ req[r].pc \in {"save", "upload_save"}
    /\ Saved(req[r].f, req[r].rows[req[r].f])
    /\ Goto(r, "answered")
    /\ UNCHANGED <<file, dir>>

-----------------------------------------------------------------------------
(* Deleting.                                                               *)

\* DELETE /api/images, with or without delete_file.
DeleteImage(r, f) ==
    /\ Arrives(r, "DeleteImage")
    /\ \/ Begin(r, "DeleteWithFile", "delete_file", f)
       \/ Begin(r, "DeleteImage", "delete_row", f)
    /\ UNCHANGED <<file, dir, image>>

DeleteFile(r) ==
    /\ At(r, "delete_file")
    /\ file' = [file EXCEPT ![req[r].f] = "absent"]
    /\ req' = [Unlinked(req[r].f) EXCEPT ![r].pc = "delete_dir"]
    /\ UNCHANGED <<dir, image>>

\* Variant: what was extracted stays.
DeleteNoDir(r) ==
    /\ At(r, "delete_dir")
    /\ Goto(r, "delete_row")
    /\ UNCHANGED <<file, dir, image>>

DeleteDir(r) ==
    /\ At(r, "delete_dir")
    /\ dir' = [dir EXCEPT ![req[r].f] = "none"]
    /\ Goto(r, "delete_row")
    /\ UNCHANGED <<file, image>>

DeleteImageRow(r) ==
    /\ At(r, "delete_row")
    /\ image[req[r].f].row
    /\ image' = [image EXCEPT ![req[r].f] = NoRow]
    /\ Goto(r, "answered")
    /\ UNCHANGED <<file, dir>>

\* What one file less makes of a directory.
Without(d) == CASE d = "full" -> {"boot", "contents"}
                [] d \in {"boot", "contents"} -> {"none"}
                [] OTHER -> {}

\* DeleteImageFile: the ISO, one extracted file, or the directory; only the
\* last one resets the row.
DeleteImageFile(r, f) ==
    /\ Arrives(r, "DeleteImageFile")
    /\ \/ /\ file[f] # "absent"
          /\ file' = [file EXCEPT ![f] = "absent"]
          /\ req' = Unlinked(f)
          /\ UNCHANGED dir
       \/ /\ \E d \in Without(dir[f]) : dir' = [dir EXCEPT ![f] = d]
          /\ UNCHANGED <<file, req>>
       \/ /\ dir' = [dir EXCEPT ![f] = "none"]
          /\ Begin(r, "DeleteImageFile", "reset_get", f)
          /\ UNCHANGED file
    /\ UNCHANGED image

ResetGet(r) ==
    /\ At(r, "reset_get")
    /\ LET f == req[r].f
       IN  IF image[f].row
           THEN req' = [req EXCEPT ![r].pc = "save",
                   ![r].rows[f] = [image[f] EXCEPT !.extracted = FALSE,
                                                   !.method = "sanboot"],
                   ![r].sets = {"extracted", "method"}]
           ELSE Finish(r)
    /\ UNCHANGED <<file, dir, image>>

-----------------------------------------------------------------------------
(* The environment.                                                        *)

Answer(r) ==
    /\ At(r, "answered")
    /\ Finish(r)
    /\ UNCHANGED <<file, dir, image>>

\* A statement, a file operation, a transfer or an extraction fails.  A
\* transfer or a write of an upload's row that fails removes the file by its
\* name; an extraction begins anew with the next reader, and saves the row it
\* had read when the last one has failed; deletes, listings and scans go on.
RequestError(r) ==
    /\ req[r].pc \notin {"idle", "answered", "detect", "scan_delete", "scan_dir"}
    /\ LET step == req[r].pc
           f == req[r].f
           goOn(next) == [req EXCEPT ![r].pc = next, ![r].err = TRUE]
           removes == step \in {"upload_copy", "upload_insert", "upload_save",
                                "download_copy"}
       IN  /\ file' = IF removes THEN [file EXCEPT ![f] = "absent"] ELSE file
           /\ req' =
                CASE removes -> [Unlinked(f) EXCEPT ![r] = Idle]
                  [] step = "upload_get"    -> goOn("upload_insert")
                  [] step = "download_sync" -> goOn("download_get")
                  [] step = "sync" ->
                        goOn(IF req[r].op = "ScanImages" THEN "scan_list"
                                                         ELSE "detect_list")
                  [] step \in {"detect_list", "scan_list"} -> goOn("answered")
                  [] step \in {"extract_boot", "extract_contents", "extract_copy"} ->
                        IF NextReader(req[r].reader) # ""
                        THEN [req EXCEPT ![r].pc = "extract_boot",
                                         ![r].reader = NextReader(@)]
                        ELSE [req EXCEPT ![r].pc = "save", ![r].op = "ExtractFailed"]
                  [] step = "delete_file" -> goOn("delete_dir")
                  [] step = "delete_dir"  -> goOn("delete_row")
                  [] OTHER -> [req EXCEPT ![r] = Idle]
    /\ UNCHANGED <<dir, image>>

\* One row of a listing or a scan cannot be saved or deleted.
LoopError(r) ==
    /\ req[r].pc \in {"detect", "scan_delete"}
    /\ \E f \in req[r].todo :
          req' = [req EXCEPT ![r].todo = @ \ {f}, ![r].err = TRUE]
    /\ UNCHANGED <<file, dir, image>>

\* The process ends at any time.  What it was writing stays as it is, and the
\* next one begins with scanISOs and SyncImages, before it accepts requests.
Restart ==
    /\ req' = [r \in Requests |-> Idle]
    /\ \E S \in SUBSET OnDisk :
          image' = [f \in Files |-> IF f \in S THEN Synced(image[f]) ELSE image[f]]
    /\ UNCHANGED <<file, dir>>

\* The administrator puts files into the directory himself.
CopyISO(f) ==
    /\ "CopyISO" \in Ops
    /\ file[f] = "absent"
    /\ file' = [file EXCEPT ![f] = "complete"]
    /\ UNCHANGED <<dir, image, req>>

ExtractByHand(f) ==
    /\ "ExtractByHand" \in Ops
    /\ dir[f] = "none"
    /\ dir' = [dir EXCEPT ![f] = "boot"]
    /\ UNCHANGED <<file, image, req>>

Arrival(r) ==
    \/ ListImages(r)
    \/ ScanImages(r)
    \/ \E f \in Files :
          \/ \E form \in {"", "true", "false"} : UploadImage(r, f, form)
          \/ DownloadISO(r, f)
          \/ UpdateImage(r, f)
          \/ \E m \in Methods : SetBootMethod(r, f, m)
          \/ RedetectImage(r, f) \/ UpdateAutoInstallScript(r, f)
          \/ PatchImageSMB(r, f) \/ DownloadNetboot(r, f)
          \/ ExtractImage(r, f)
          \/ DeleteImage(r, f) \/ DeleteImageFile(r, f)

RequestStep(r) ==
    \/ UploadCreate(r) \/ UploadCopied(r) \/ UploadGet(r) \/ UploadInsert(r)
    \/ DownloadCreate(r) \/ DownloadCopied(r) \/ DownloadSync(r) \/ DownloadGet(r)
    \/ SyncImages(r) \/ DetectList(r) \/ DetectManualExtractions(r)
    \/ ScanList(r) \/ ScanDelete(r) \/ ScanRemoveDir(r)
    \/ NetbootCopy(r) \/ ExtractBootFiles(r) \/ ExtractContents(r)
    \/ ExtractWindows(r) \/ ExtractBsdtar(r) \/ ExtractCopy(r) \/ SaveImage(r)
    \/ DeleteFile(r) \/ DeleteDir(r) \/ DeleteImageRow(r) \/ ResetGet(r)
    \/ Answer(r)

\* Nobody else has changed the disk or the table since this request arrived.
StillAlone ==
    alone' = [r \in Requests |->
                 req'[r].pc # "idle" =>
                    /\ alone[r]
                    /\ \/ UNCHANGED <<file, dir, image>>
                       \/ [req[r] EXCEPT !.linked = req'[r].linked] # req'[r]]

Init ==
    /\ file = [f \in Files |-> "absent"]
    /\ dir = [f \in Files |-> "none"]
    /\ image = [f \in Files |-> NoRow]
    /\ req = [r \in Requests |-> Idle]
    /\ alone = [r \in Requests |-> TRUE]

Next ==
    /\ \/ \E r \in Requests : Arrival(r) \/ RequestStep(r) \/ RequestError(r)
                             \/ LoopError(r)
       \/ Restart
       \/ \E f \in Files : CopyISO(f) \/ ExtractByHand(f)
    /\ StillAlone

Spec == Init /\ [][Next]_vars

-----------------------------------------------------------------------------
(* What the row says of itself, however requests interleave.               *)

\* "Cannot use this boot method: image not extracted. Please extract first."
\* SetBootMethod refuses it, PUT /api/images does not ask: a row that is not
\* extracted has a boot method that needs extracted files only where this endpoint
\* carries that method.  Neither another handler nor a save of a stale copy, which
\* writes every column, makes such a row.
OnlyEditsUnchecked ==
    \A f \in Files : image[f].method \in NeedBootFiles /\ ~image[f].extracted =>
        image[f].method \in MethodEdits

-----------------------------------------------------------------------------
(* What the answers of the handlers promise, from whatever state races,    *)
(* failures and restarts have left behind, when nobody else interferes.    *)

Succeeded(r, op) == At(r, "answered") /\ req[r].op = op /\ ~req[r].err

\* "Scan complete": the table has a row exactly for the ISOs on disk.
ScanReconciles ==
    \A r \in Requests : Succeeded(r, "ScanImages") /\ alone[r] =>
        \A f \in Files : image[f].row <=> file[f] # "absent"

\* "Image uploaded": the ISO is complete and its image is enabled and as public
\* as was asked for; a new image nobody asked to be public is not.
UploadDelivers ==
    \A r \in Requests : Succeeded(r, "UploadImage") /\ alone[r] =>
        LET f == req[r].f
        IN  /\ file[f] = "complete"
            /\ image[f].row /\ image[f].enabled
            /\ req[r].form = "true" => image[f].public
            /\ req[r].form = "false" \/ (req[r].form = "" /\ req[r].fresh) =>
                  ~image[f].public

\* "Successfully extracted", by whichever reader and after however many others
\* have failed: the walk over the contents has ended, the boot files of an image
\* that is not Windows are on disk, and the image boots its kernel.
ExtractDelivers ==
    \A r \in Requests : Succeeded(r, "ExtractImage") /\ alone[r] =>
        LET f == req[r].f
        IN  /\ HasContents(dir[f])
            /\ req[r].windows \/ HasBootFiles(dir[f])
            /\ image[f].extracted /\ image[f].method = "kernel"

\* "Image deleted", with delete_file: nothing of the image is left.
DeleteDelivers ==
    \A r \in Requests : Succeeded(r, "DeleteWithFile") /\ alone[r] =>
        LET f == req[r].f
        IN  file[f] = "absent" /\ dir[f] = "none" /\ ~image[f].row

-----------------------------------------------------------------------------
(* What the handlers promise and keep only as long as requests do not      *)
(* overlap.                                                                *)

\* "File already exists": a file that is there is completed or removed, never
\* written again.
NeverOverwritten ==
    [][\A f \in Files : file[f] # "absent" =>
          \/ file'[f] \in {file[f], "absent"}
          \/ file[f] = "partial" /\ file'[f] = "complete"]_vars

\* "Image deleted": a row comes into being only for an ISO that is on disk, so
\* an image that was deleted with its file does not come back by itself.
RowsNeedFiles ==
    [][\A f \in Files : ~image[f].row /\ image'[f].row => file[f] # "absent"]_vars
=============================================================================
