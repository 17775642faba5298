------------------------------ MODULE BootTools -----------------------------
(***************************************************************************)
(* Diagnostic tools of the boot menu: the boot_tools table, the files of   *)
(* each tool, the manifest (BuiltInTools), download goroutines with their  *)
(* progress, and the handlers.                                             *)
(*                                                                         *)
(* A handler reads a row, looks at the disk and saves the row it has read; *)
(* downloads write their files in place while all of this goes on, and any *)
(* statement of the database can fail.                                     *)
(***************************************************************************)
EXTENDS Naturals, FiniteSets

CONSTANTS
    Names,      \* names of tools
    Urls,       \* download URLs
    Paths,      \* paths of kernels within a tool's directory
    Holds,      \* the files of the archive behind each URL
    Defs,       \* what a manifest or an administrator says of a tool
    Requests,   \* request goroutines that can be in flight together
    Slots,      \* download goroutines that can be in flight together
    None,       \* no row, no definition
    MaxId,      \* bound on primary keys
    MaxOps      \* bound on the operations and downloads that are begun

\* initrd and bios, the kernel for machines without UEFI, may be missing.
Def == [url: Urls, kernel: Paths, initrd: Paths \cup {None}, bios: Paths \cup {None},
        bin: BOOLEAN]

ASSUME BootToolsAssumption ==
    /\ Defs \subseteq Def
    /\ Holds \in [Urls -> SUBSET Paths]
    /\ None \notin Names
    /\ MaxId \in Nat /\ MaxOps \in Nat

VARIABLES
    tool,       \* the boot_tools table, by name
    ids,        \* primary keys handed out, counted for each name
    builtIn,    \* BuiltInTools: the definition of each name, or None
    disk,       \* the files in each tool's directory
    progress,   \* Manager.progress: the status of each name
    dl,         \* download goroutines
    req,        \* request goroutines
    ops,        \* operations and downloads that were begun
    odd,        \* history: names with a row saved from a stale copy, or after
                \* a stale look at the disk, or an enabled one that a download
                \* marked although its files are not there, or one that could
                \* not be read or saved after its files or definition changed
    gone        \* history: names whose row was deleted, or could not be read or
                \* saved at the end of a download

vars == <<tool, ids, builtIn, disk, progress, dl, req, ops, odd, gone>>
table == <<tool, ids, odd, gone>>

Row == [id: 1..MaxId, custom: BOOLEAN, enabled: BOOLEAN, downloaded: BOOLEAN, def: Def]

ASSUME NoneIsNoRow == None \notin Row

Files == [Paths -> {"absent", "partial", "whole"}]

Download == [pc: {"idle", "start", "connect", "copy", "extract", "write", "save"},
             n: Names \cup {None}, todo: SUBSET Paths, row: Row \cup {None},
             def: Def \cup {None}, file: Paths \cup {None}]

\* todo: the part of the manifest that is still to be applied.
Request == [pc: {"idle", "save", "remove", "clear", "drop", "apply", "applySave"},
            n: Names \cup {None}, row: Row \cup {None}, new: Row \cup {None},
            custom: BOOLEAN, todo: [Names -> Defs \cup {None}]]

Empty == [p \in Paths |-> "absent"]
NoDownload == [pc |-> "idle", n |-> None, todo |-> {}, row |-> None,
               def |-> None, file |-> None]
NoManifest == [n \in Names |-> None]
Idle == [pc |-> "idle", n |-> None, row |-> None, new |-> None,
         custom |-> FALSE, todo |-> NoManifest]

TypeOK ==
    /\ tool \in [Names -> Row \cup {None}]
    /\ ids \in [Names -> 0..MaxId]
    /\ builtIn \in [Names -> Defs \cup {None}]
    /\ disk \in [Names -> Files]
    /\ progress \in [Names -> {"idle", "downloading", "extracting", "done", "error"}]
    /\ dl \in [Slots -> Download]
    /\ req \in [Requests -> Request]
    /\ ops \in 0..MaxOps
    /\ odd \subseteq Names
    /\ gone \subseteq Names

Exists(n) == tool[n] # None
Begin == ops < MaxOps /\ ops' = ops + 1
Done(r) == req' = [req EXCEPT ![r] = Idle]
Running(d) == dl[d].pc # "idle"

-----------------------------------------------------------------------------
(* Rows and files.                                                         *)

\* What a tool boots: the manifest's definition before the row's own.
GetDefinition(n, defs) ==
    IF defs[n] # None THEN defs[n]
    ELSE IF Exists(n) /\ tool[n].custom THEN tool[n].def ELSE None

\* Kernel and initrd are there, whole or not; nobody looks for the BIOS kernel.
IsDownloaded(n, defs) ==
    LET def == GetDefinition(n, defs) IN
    /\ def # None
    /\ \A p \in {def.kernel, def.initrd} \ {None} : disk[n][p] # "absent"

\* SaveBootTool updates by key and inserts what it does not find; a row of
\* the same name with another key makes it fail.
Stored(n, row) == [tool EXCEPT ![n] = IF Exists(n) /\ @.id # row.id THEN @ ELSE row]

\* The row is not the one that was read, or the files seen then are gone.
Stale(n, read, row) ==
    \/ tool[n] # read
    \/ /\ (row.enabled /\ ~read.enabled) \/ (row.downloaded /\ ~read.downloaded)
       /\ ~IsDownloaded(n, builtIn)

SaveBootTool(n, read, row) ==
    /\ tool' = Stored(n, row)
    /\ odd' = IF Stale(n, read, row) THEN odd \cup {n} ELSE odd
    /\ UNCHANGED <<ids, gone>>

\* The statement fails.  It matters where the tool should have been withdrawn.
SaveFails(n, row) ==
    /\ odd' = IF row.downloaded THEN odd ELSE odd \cup {n}
    /\ UNCHANGED <<tool, ids, gone>>

GetFails(n) ==
    /\ odd' = IF Exists(n) THEN odd \cup {n} ELSE odd
    /\ UNCHANGED <<tool, ids, gone>>

\* Variant: the row is stored without a key of its own.
NewRowKeyless(n, custom, def, downloaded) ==
    [id |-> ids[n], custom |-> custom, enabled |-> FALSE, downloaded |-> downloaded,
     def |-> def]

NewRow(n, custom, def, downloaded) ==
    [id |-> ids[n] + 1, custom |-> custom, enabled |-> FALSE, downloaded |-> downloaded,
     def |-> def]

InsertBootTool(n, custom, def, downloaded) ==
    /\ ids[n] < MaxId
    /\ ids' = [ids EXCEPT ![n] = @ + 1]
    /\ tool' = [tool EXCEPT ![n] = NewRow(n, custom, def, downloaded)]
    /\ UNCHANGED <<odd, gone>>

DeleteBootTool(n) ==
    /\ tool' = [tool EXCEPT ![n] = None]
    /\ gone' = gone \cup {n}
    /\ UNCHANGED <<ids, odd>>

\* The menu offers the tool.
GetEnabledTools == {n \in Names : Exists(n) /\ tool[n].enabled /\ tool[n].downloaded
                                            /\ GetDefinition(n, builtIn) # None}

SetProgress(n, status) == progress' = [progress EXCEPT ![n] = status]

-----------------------------------------------------------------------------
(* Manager.Download, in its goroutine.                                     *)

End(d) == dl' = [dl EXCEPT ![d] = NoDownload]

\* The handler only knows tools of the manifest.
DownloadTool(d) ==
    /\ ~Running(d) /\ Begin
    /\ \E n \in Names :
          /\ builtIn[n] # None
          /\ dl' = [dl EXCEPT ![d] = [NoDownload EXCEPT !.pc = "start", !.n = n]]
    /\ UNCHANGED <<table, builtIn, disk, progress, req>>

\* The definition again, and the row for the URL; without either it ends, as
\* it does when they cannot be read.
DownloadStart(d) ==
    LET n == dl[d].n
        def == IF builtIn[n] # None THEN builtIn[n] ELSE tool[n].def
    IN /\ dl[d].pc = "start"
       /\ \/ /\ Exists(n) /\ (builtIn[n] # None \/ tool[n].custom)
             /\ dl' = [dl EXCEPT ![d].pc = "connect",
                                 ![d].def = [def EXCEPT !.url = tool[n].def.url]]
          \/ End(d)
       /\ UNCHANGED <<table, builtIn, disk, progress, req, ops>>

\* No connection: an error nobody is told of.  An HTTP status is reported.
DownloadConnect(d) ==
    LET n == dl[d].n IN
    /\ dl[d].pc = "connect"
    /\ \/ End(d) /\ UNCHANGED progress
       \/ End(d) /\ SetProgress(n, "error")
       \/ dl' = [dl EXCEPT ![d].pc = "copy"] /\ SetProgress(n, "downloading")
    /\ UNCHANGED <<table, builtIn, disk, req, ops>>

\* What is written: a binary is the kernel, an archive its files; the BIOS
\* kernel is fetched after them.
Contents(def) ==
    (IF def.bin THEN {def.kernel} ELSE Holds[def.url]) \cup ({def.bios} \ {None})

\* Bytes arrive.
ProgressWriter(d) ==
    /\ dl[d].pc = "copy"
    /\ SetProgress(dl[d].n, "downloading")
    /\ UNCHANGED <<table, builtIn, disk, dl, req, ops>>

\* The archive is complete, or the copy has failed; the client's timeout
\* makes it one of them.
DownloadCopy(d) ==
    LET n == dl[d].n IN
    /\ dl[d].pc = "copy"
    /\ \/ /\ dl' = [dl EXCEPT ![d].pc = "extract", ![d].todo = Contents(dl[d].def)]
          /\ SetProgress(n, "extracting")
       \/ End(d) /\ SetProgress(n, "error")
    /\ UNCHANGED <<table, builtIn, disk, req, ops>>

\* Variant: the walk over the archive does not advance.
ExtractOpenAgain(d) ==
    /\ dl[d].pc = "extract"
    /\ \E p \in dl[d].todo :
          /\ disk' = [disk EXCEPT ![dl[d].n][p] = "partial"]
          /\ dl' = [dl EXCEPT ![d].pc = "write", ![d].file = p]
    /\ UNCHANGED <<table, builtIn, progress, req, ops>>

\* The next file is opened, and truncated, in place, or it cannot be.
ExtractOpen(d) ==
    /\ dl[d].pc = "extract"
    /\ \/ /\ \E p \in dl[d].todo :
                /\ disk' = [disk EXCEPT ![dl[d].n][p] = "partial"]
                /\ dl' = [dl EXCEPT ![d].pc = "write", ![d].todo = @ \ {p},
                                    ![d].file = p]
          /\ UNCHANGED progress
       \/ End(d) /\ SetProgress(dl[d].n, "error") /\ UNCHANGED disk
    /\ UNCHANGED <<table, builtIn, req, ops>>

\* Variant: a failed write is not reported.
ExtractWriteSilent(d) ==
    LET n == dl[d].n  p == dl[d].file IN
    /\ dl[d].pc = "write"
    /\ \/ /\ dl' = [dl EXCEPT ![d].pc = "extract"]
          /\ disk' = [disk EXCEPT ![n][p] = IF @ = "absent" THEN @ ELSE "whole"]
       \/ End(d) /\ UNCHANGED disk
    /\ UNCHANGED <<table, builtIn, progress, req, ops>>

\* It is written, to nowhere if it was removed meanwhile, or fails.
ExtractWrite(d) ==
    LET n == dl[d].n  p == dl[d].file IN
    /\ dl[d].pc = "write"
    /\ \/ /\ dl' = [dl EXCEPT ![d].pc = "extract"]
          /\ disk' = [disk EXCEPT ![n][p] = IF @ = "absent" THEN @ ELSE "whole"]
          /\ UNCHANGED progress
       \/ End(d) /\ SetProgress(n, "error") /\ UNCHANGED disk
    /\ UNCHANGED <<table, builtIn, req, ops>>

\* A database error at its end is nothing the progress tells.
EndUnreported(d) ==
    /\ End(d)
    /\ gone' = gone \cup {dl[d].n}
    /\ UNCHANGED <<tool, ids, odd, progress>>

\* The row is read again; one that is gone is an error too.
DownloadGet(d) ==
    LET n == dl[d].n IN
    /\ dl[d].pc = "extract" /\ dl[d].todo = {}
    /\ \/ /\ Exists(n)
          /\ dl' = [dl EXCEPT ![d].pc = "save", ![d].row = tool[n]]
          /\ UNCHANGED <<table, progress>>
       \/ EndUnreported(d)
    /\ UNCHANGED <<builtIn, disk, req, ops>>

MarkDownloaded(d) ==
    LET n == dl[d].n IN
    /\ tool' = Stored(n, [dl[d].row EXCEPT !.downloaded = TRUE])
    /\ odd' = IF /\ tool[n] = dl[d].row
                 /\ tool[n].enabled /\ GetDefinition(n, builtIn) # None
                       => IsDownloaded(n, builtIn)
              THEN odd ELSE odd \cup {n}
    /\ UNCHANGED <<ids, gone>>
    /\ SetProgress(n, IF Exists(n) /\ tool[n].id # dl[d].row.id THEN progress[n] ELSE "done")
    /\ End(d)

\* The row as read is saved with its flag set, or the save fails.
DownloadSave(d) ==
    /\ dl[d].pc = "save"
    /\ MarkDownloaded(d) \/ EndUnreported(d)
    /\ UNCHANGED <<builtIn, disk, req, ops>>

-----------------------------------------------------------------------------
(* The handlers.                                                           *)

ThenSave(r, n, new) ==
    req' = [req EXCEPT ![r] = [Idle EXCEPT !.pc = "save", !.n = n, !.row = tool[n], !.new = new]]

\* The disk decides whether a tool can be enabled.
ToggleTool(r) ==
    /\ req[r] = Idle /\ Begin
    /\ \E n \in Names, e \in BOOLEAN :
          /\ Exists(n) /\ (e => IsDownloaded(n, builtIn))
          /\ ThenSave(r, n, [tool[n] EXCEPT !.enabled = e])
    /\ UNCHANGED <<table, builtIn, disk, progress, dl>>

UpdateToolURL(r) ==
    /\ req[r] = Idle /\ Begin
    /\ \E n \in Names, u \in Urls :
          Exists(n) /\ ThenSave(r, n, [tool[n] EXCEPT !.def.url = u])
    /\ UNCHANGED <<table, builtIn, disk, progress, dl>>

CreateCustomTool(r) ==
    /\ req[r] = Idle /\ Begin
    /\ \E n \in Names, d \in Defs : ~Exists(n) /\ InsertBootTool(n, TRUE, d, FALSE)
    /\ UNCHANGED <<builtIn, disk, progress, dl, req>>

\* Both deletes begin here: one for files, one for custom tools.
DeleteTool(r) ==
    /\ req[r] = Idle /\ Begin
    /\ \E n \in Names, c \in BOOLEAN :
          /\ c => Exists(n) /\ tool[n].custom
          /\ req' = [req EXCEPT ![r] = [Idle EXCEPT !.pc = "remove", !.n = n, !.custom = c]]
    /\ UNCHANGED <<table, builtIn, disk, progress, dl>>

\* DeleteCustomTool goes on whether Manager.Delete failed or not.
Deleted(r) == IF req[r].custom THEN req' = [req EXCEPT ![r].pc = "drop"] ELSE Done(r)

\* Manager.Delete: the directory first, then the row.  RemoveAll can fail
\* with some of the files gone, and that ends it.
RemoveFiles(r) ==
    LET n == req[r].n IN
    /\ req[r].pc = "remove"
    /\ \/ /\ disk' = [disk EXCEPT ![n] = Empty]
          /\ req' = [req EXCEPT ![r].pc = "clear"]
          /\ UNCHANGED table
       \/ /\ \E removed \in SUBSET Paths :
                disk' = [disk EXCEPT ![n] =
                           [p \in Paths |-> IF p \in removed THEN "absent" ELSE disk[n][p]]]
          /\ GetFails(n) /\ Deleted(r)
    /\ UNCHANGED <<builtIn, progress, dl, ops>>

ClearFlags(r) ==
    LET n == req[r].n IN
    /\ req[r].pc = "clear"
    /\ \/ /\ Exists(n)
          /\ req' = [req EXCEPT ![r].pc = "save", ![r].row = tool[n],
                        ![r].new = [tool[n] EXCEPT !.downloaded = FALSE, !.enabled = FALSE]]
          /\ UNCHANGED table
       \/ GetFails(n) /\ Deleted(r)
    /\ UNCHANGED <<builtIn, disk, progress, dl, ops>>

SaveTool(r) ==
    /\ req[r].pc = "save"
    /\ \/ SaveBootTool(req[r].n, req[r].row, req[r].new)
       \/ SaveFails(req[r].n, req[r].new)
    /\ Deleted(r)
    /\ UNCHANGED <<builtIn, disk, progress, dl, ops>>

DeleteCustomTool(r) ==
    /\ req[r].pc = "drop"
    /\ DeleteBootTool(req[r].n) \/ UNCHANGED table
    /\ Done(r)
    /\ UNCHANGED <<builtIn, disk, progress, dl, ops>>

-----------------------------------------------------------------------------
(* The manifest.                                                           *)

Manifests == [Names -> Defs \cup {None}]
Named(m) == {n \in Names : m[n] # None}

\* The new definitions are in force before any row is brought up to date.
UpdateFromRemote(r) ==
    /\ req[r] = Idle /\ Begin
    /\ \E m \in Manifests :
          /\ builtIn' = m
          /\ req' = [req EXCEPT ![r] = [Idle EXCEPT !.pc = "apply", !.todo = m]]
    /\ UNCHANGED <<table, disk, progress, dl>>

\* Variant: the flag of an earlier definition's files is kept.
AppliedKeeping(n, row, def, defs) ==
    IF row.custom THEN row ELSE [row EXCEPT !.def = def]

\* The row under a new definition.
Applied(n, row, def, defs) ==
    IF row.custom THEN row
    ELSE [row EXCEPT !.def = def, !.downloaded = IsDownloaded(n, defs)]

\* A definition without a row is inserted, others are read to be saved; a
\* row that cannot be read, or inserted, is passed over.
ApplyManifest(r) ==
    /\ req[r].pc = "apply"
    /\ \/ \E n \in Named(req[r].todo) :
             LET def == req[r].todo[n]
                 rest == [req[r].todo EXCEPT ![n] = None]
             IN \/ /\ ~Exists(n)
                   /\ InsertBootTool(n, FALSE, def, IsDownloaded(n, builtIn))
                   /\ req' = [req EXCEPT ![r].todo = rest]
                \/ GetFails(n) /\ req' = [req EXCEPT ![r].todo = rest]
                \/ /\ Exists(n)
                   /\ req' = [req EXCEPT ![r] = [Idle EXCEPT !.pc = "applySave", !.n = n,
                                !.row = tool[n], !.todo = rest,
                                !.new = Applied(n, tool[n], def, builtIn)]]
                   /\ UNCHANGED table
       \/ Named(req[r].todo) = {} /\ Done(r) /\ UNCHANGED table
    /\ UNCHANGED <<builtIn, disk, progress, dl, ops>>

\* Custom tools are left alone.  A save that fails is logged, and the next
\* definition is applied.
ApplySave(r) ==
    /\ req[r].pc = "applySave"
    /\ IF req[r].row.custom THEN UNCHANGED table
       ELSE \/ SaveBootTool(req[r].n, req[r].row, req[r].new)
            \/ SaveFails(req[r].n, req[r].new)
    /\ req' = [req EXCEPT ![r] = [Idle EXCEPT !.pc = "apply", !.todo = req[r].todo]]
    /\ UNCHANGED <<builtIn, disk, progress, dl, ops>>

\* The process ends at any point.  The next one, perhaps a newer binary,
\* seeds from its embedded manifest before it serves requests; the names
\* whose statements fail are passed over.
SeedTools(m, failed) ==
    LET missing == {n \in Named(m) \ failed : ~Exists(n)} IN
    /\ \A n \in missing : ids[n] < MaxId
    /\ ids' = [n \in Names |-> IF n \in missing THEN ids[n] + 1 ELSE ids[n]]
    /\ tool' = [n \in Names |->
          IF n \in missing THEN NewRow(n, FALSE, m[n], IsDownloaded(n, m))
          ELSE IF m[n] = None \/ n \in failed THEN tool[n] ELSE Applied(n, tool[n], m[n], m)]
    /\ builtIn' = m
    /\ odd' = odd \cup {n \in failed : Exists(n)}
    /\ UNCHANGED gone

Restart ==
    /\ Begin
    /\ \E m \in Manifests : \E failed \in SUBSET Named(m) : SeedTools(m, failed)
    /\ progress' = [n \in Names |-> "idle"]
    /\ dl' = [d \in Slots |-> NoDownload]
    /\ req' = [r \in Requests |-> Idle]
    /\ UNCHANGED disk

-----------------------------------------------------------------------------
\* Before the first start.
Init ==
    /\ builtIn = NoManifest
    /\ ids = [n \in Names |-> 0]
    /\ tool = [n \in Names |-> None]
    /\ disk = [n \in Names |-> Empty]
    /\ progress = [n \in Names |-> "idle"]
    /\ dl = [d \in Slots |-> NoDownload]
    /\ req = [r \in Requests |-> Idle]
    /\ ops = 0
    /\ odd = {}
    /\ gone = {}

DownloadStep(d) ==
    \/ DownloadStart(d) \/ DownloadConnect(d) \/ DownloadCopy(d)
    \/ ExtractOpen(d) \/ ExtractWrite(d) \/ DownloadGet(d) \/ DownloadSave(d)

Handler(r) ==
    \/ ToggleTool(r) \/ UpdateToolURL(r) \/ CreateCustomTool(r) \/ DeleteTool(r)
    \/ RemoveFiles(r) \/ ClearFlags(r) \/ SaveTool(r) \/ DeleteCustomTool(r)
    \/ UpdateFromRemote(r) \/ ApplyManifest(r) \/ ApplySave(r)

Next ==
    \/ \E d \in Slots : DownloadTool(d) \/ ProgressWriter(d) \/ DownloadStep(d)
    \/ \E r \in Requests : Handler(r)
    \/ Restart

\* A download goroutine is scheduled, and its HTTP client has a timeout.
FairSpec == Init /\ [][Next]_vars /\ \A d \in Slots : WF_vars(DownloadStep(d))

-----------------------------------------------------------------------------
(* Properties.                                                             *)

\* What the boot menu offers can be fetched: once no request is in flight an
\* offered tool has its kernel and initrd on disk, under the definition in
\* force now (GetEnabledTools, applyManifest, Delete, ToggleTool).  Exempt are
\* rows saved from what no longer holds, rows that an error of the database
\* or of RemoveAll kept offered (SaveFails, GetFails), enabled tools whose
\* download ends without those files (the archive lacks them, or a delete has
\* overtaken it), and custom tools, which are only downloaded when a manifest
\* has their name.
OfferedOnDisk ==
    (\A r \in Requests : req[r] = Idle) =>
       \A n \in GetEnabledTools \ odd :
          tool[n].custom \/ IsDownloaded(n, builtIn)

\* A status that says a download is going on is never left behind by one
\* that has ended, whoever else downloads the same tool (Download,
\* setProgress), unless its row was deleted, or a download could not read or
\* save it at its end: Download returns those errors without setProgress.
ProgressHonest ==
    \A n \in Names \ gone : progress[n] \in {"downloading", "extracting"} =>
       \E d \in Slots : dl[d].n = n

\* Every download ends, in success or failure (Download, extractZip).
DownloadsEnd == \A d \in Slots : Running(d) ~> ~Running(d)
=============================================================================
