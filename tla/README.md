# A TLA+ model of bootimus

bootimus is a network boot server written in Go: one process that answers PXE
clients (ProxyDHCP, TFTP, HTTP, NBD, NFS, SMB), keeps a catalogue of boot images
and clients in SQLite or PostgreSQL, provisions Kubernetes nodes, runs scheduled
tasks and is administered over an HTTP API. This directory models the parts of it
that keep state and are worked on by several requests at once, checks them with
TLC on small instances and proves the most important results with TLAPS for
instances of any size.

Every HTTP request is a goroutine. Handlers are sequences of SQL statements and
file operations without transactions or locks around them. That is the source of
almost everything that is hard here: what a handler has read is stale when it
writes, an operation of two statements can be cut in half by an error or by the
end of the process, and the database, the disk and the memory of the process
are changed one after the other. The models therefore give every request a small
program counter and one step per statement.

## Inventory

| Component | State | Operations | Hard behaviour | What makes it correct |
|---|---|---|---|---|
| Kubernetes enrollment (`admin/clusters.go`, `storage/clusters.go`, `server/kubernetes.go`, `kubernetes/`) | clients' enrollment columns, clusters, node images, inventories | assign, reinstall, unassign, mark installed, cluster and node image CRUD, boot menu, machine config | stale rows, two-statement deletes, restarts, SQLite without foreign keys | tokens are bound to one assignment and revoked for good; a node follows its lifecycle; references do not dangle |
| Client registry (`admin/handlers.go`, `storage/clients.go`) | clients: flags, assigned images, group, next boot image | create, update, delete, promote, assign, next boot, import, wake, power | rows created by inventory reports and assignments at once; late saves of old copies | a machine gets what it is entitled to |
| Image and client groups (`admin/handlers.go`, `storage/`) | image_groups (a tree), client_groups (soft-deleted) | CRUD, membership, group-wide next boot, groups made by scans | deletes that leave references, parents nobody looks up, cycles | a deleted group grants nothing; a tree in order never breaks a menu |
| Boot menu (`server/menu.go`, `server/server.go`) | none of its own | menu request, script | several statements per request; recursion over groups; unattended machines | a client sees exactly the images meant for it; every item leads somewhere |
| Scheduled tasks (`scheduler/`) | scheduled_tasks, cron entries, map of entries | create, update, delete, run now, reload, start, stop | list before lock, reloads that overlap, shutdown | cron runs what the table says; every run is counted; Stop returns |
| Image catalogue (`admin/handlers.go`, `admin/netboot.go`) | images, ISO files, extracted directories | upload, download, list, scan, edit, boot method, redetect, extract, netboot, patch, delete | whole-row saves, upserts, files seen half written, partial deletes | files are not overwritten, edits are not undone, rows and files agree |
| ISO extraction and detection (`extractor/`) | progress, extracted files | extract, detect distribution | failure half way, progress of a newer run | an undisturbed extraction delivers what its row says |
| Accounts (`auth/`, users in `admin/handlers.go`, `cmd/user.go`) | users, JWTs and their secret, LDAP | login, create, update, delete, reset, the commands of a second process | check-then-save of the only-admin guard, sessions that outlive their rights | confirmed changes are stored and effective; the admin account stays |
| Boot tools (`tools/manager.go`) | tool rows, directories, progress, manifest | enable, download, delete, custom tools, update manifest | progress shared by downloads, files written in place, manifest ahead of the rows | an offered tool is on disk; downloads end and say so |
| Bootloader sets (`bootloaders/`, `server/server.go`, `proxydhcp/`) | active set, its file, directories of custom sets | create, upload, select, delete, `bootloaders use`; offer and transfer | memory and file updated under separate locks; offer and transfer read the selection separately | the default set is always served; a confirmed selection survives |
| Log broadcast, active sessions (`server/server.go`) | ring buffers, subscriber channels, sessions by address | broadcast, subscribe, add, update, remove | slow subscribers, one address with two downloads | not modelled |
| SMB shares, Windows patching (`smb/`, `admin/windows.go`) | share map, smb.conf | add, remove, reload, patch | concurrent writes of smb.conf | not modelled |
| Custom files, driver packs, distro profiles, NBD, NFS, autoinstall library, webhook, metrics, statistics, WoL, Redfish, UDF, command line | | | | not modelled |

How they interact: the admin handlers and the boot handlers share the database;
the catalogue handlers share the ISO directory with the extractor and with the
administrator's own shell; the boot menu reads the catalogue's rows, the clients,
both kinds of groups and the tools (`BootMenu` composes them); the user and
bootloader commands are a second process on the same database and files; the scheduler is called back by the admin handlers
(`SchedulerReload`, `SchedulerRunNow`) and calls the server back
(`executeScheduledTask`); `Server.Start` scans the disk and loads the tasks before
requests are accepted, `Server.Shutdown` stops the scheduler.

`PROJECT.json` lists under "hazards" the places where this goes wrong most
easily, each with the properties that watch it.

## Modules

| Module | What it is |
|---|---|
| `Enrollment` | the enrollment tables and every request about them |
| `NodeLifecycle` | the abstract life of a node: approved, installing, installed, released, each in one step |
| `Scheduler` | scheduled tasks, the cron library's entries, runs and shutdown |
| `ImageCatalogue` | ISO files, extracted directories and rows of images |
| `Accounts` | users, tokens, the server process and the command line |
| `ClientAccess` | clients, client groups and `GetImagesForClient`; no next-state relation of its own |
| `BootMenu` | composes `ClientAccess` with image groups, images, the theme and the menu's script |
| `BootTools` | the tools table, their files, downloads, the manifest |
| `Bootloaders` | bootloader sets, the selection and its file, ProxyDHCP offers, TFTP and HTTP transfers |
| `MC...` | instances for TLC: sets of request kinds, initial states, symmetry |
| `...Proofs` | theorems and proofs about the module they are named after; `BootMenuProofs` covers `ClientAccess` too |
| `LifecycleProofs` | extends `EnrollmentProofs`: `Enrollment` implements `NodeLifecycle` when requests do not overlap |

Definitions whose comment begins with "Variant" are wrong versions of the
definition after them; they are used only to see that the properties notice.

### Enrollment

`client`, `cluster` and `nodeImage` are the tables (functions from keys to rows);
`inventory` keeps the UUID of the latest report; `rowIds` are the primary keys
already handed out, which a deleted client does not give back; `now` is the clock
that token expiry is compared with. `issued` is a history variable: for which
MAC, cluster, role and time each token was generated. `req` holds the requests:
the statement each executes next and the rows it has read.

An arriving request (`AssignNode`, `IPXEMenu`, ...) does the handler's checks up to
its first statement that others can observe; the following steps
(`AssignLookup`, `AssignCreate`, `AssignWrite`) are one statement each.
`RequestError` lets any statement fail and follows what that handler does then
(answer an error, ignore it, take it for "not found"). `Restart` loses the
requests and keeps the tables. GORM's `Updates` with a `Where` is one statement on
the row as it is then, which is why `ReinstallWrite` sets columns of the present
row and not of the one it read.

`EnforceFK` tells the databases apart: PostgreSQL checks
`FOREIGN KEY (cluster_id)` and `FOREIGN KEY (node_image_id)`, the SQLite connection
is opened without the pragma and does not. The runs take the weaker one; the proofs
hold for both. The bodies that `POST /api/clients`
accepts can carry enrollment columns other than the token (`CreateForms`).

A cluster has documents for a set of roles (`configs`), and a machine config is the
document of the role in the row that was read.

Abstracted: names, disks, patches, kernel parameters, the text of the rendered
documents, webhooks and Wake-on-LAN. Edits of
a client's descriptive columns (`UpdateClient`, `PromoteClient`) select their
columns and are steps that change nothing here.

### Scheduler

`task` is the table. `cron` is the set of entries of the cron library, each with the
copy of the task its callback closed over; `entries` is the scheduler's map. A
reload is numbered (`loads`), and a cron entry id is the pair of that number and
the task. `ListScheduledTasks` is Reload before its mutex, `ReloadApply` everything
under it. `started` and `lost` are history variables for the run counter. `Exit` is
the return of `cron.Stop`'s context, which waits for the jobs cron started and not
for those of `RunNow`; a new process begins with the reload of `Scheduler.Start`.

Abstracted: what a task does, and when an expression is due: an entry may fire at
any time.

### ImageCatalogue

For every filename: `file` (absent, partial, complete, or mixed when two writers
wrote into one file), `dir` (nothing, vmlinuz and initrd, the contents, or both) and
`image`, the row with the columns that matter (enabled, public, extracted, sanboot
compatible, boot method). A request remembers the rows it read, the columns it
means to set (`sets`), the files it has walked and whether its open file still has
a name (`linked`). `alone` is a history variable: nobody else has changed
anything since the request arrived. It lets the promises of single handlers be
stated in a model where everything overlaps: whatever state earlier races,
failures and restarts have left, a handler that is not disturbed keeps its
promise.

`Extract` tries readers of the ISO in turn (`NextReader`): ISO 9660, UDF and bsdtar, or
UDF first where it recognises it. Each may fail at any point and leave to the next what
it has written (`RequestError`). The first two bring the boot files of a distribution to the
disk and then walk over the contents (`ExtractBootFiles`, `ExtractContents`, both in
`cacheBootFilesUnified`), or only walk over the contents when they find Windows
(`ExtractWindows`); bsdtar unpacks the contents and then copies the boot files it finds in
them (`ExtractBsdtar`, `ExtractCopy`). `ExtractImage` saves the row it read before all that.

`Saved` is gorm's `Save`: an update of every column, or an insert when the row is
gone, where `default:true` columns with a false value come back true. `Restart`
ends the process and includes the scan and sync with which `Server.Start` begins.

Abstracted: descriptive columns, distribution names (`checkSanbootCompatibility`
may answer either way), progress, SMB shares, and files inside the contents that could not be written and were
skipped with a warning.

### Accounts

`user` is the table, `ids` the primary keys handed out, `epoch` numbers the server
processes and with them the JWT secrets (`NewManager` draws a new one), `tokens` are
the tokens that exist. `acked` is a history variable: the row as last confirmed to
whoever changed it, or `Unclear` once a row was saved from a copy that was no longer
the row. The actors are request goroutines and one command-line process.
`AdminMiddleware` admits a request by the row (`Authenticate`), never by the claims;
handlers then read, check, list and save in separate steps. `SQLiteUpdateUser` is
gorm's `Save`: matched by name and key, an insert when that hits nothing;
`PostgresUpdateUser` is `Updates` with a struct, which skips zero values. `Postgres`
chooses. `--reset-admin-password` reads and saves the admin's row (`ResetAdminPassword`,
`SaveReset`) before its process binds a port, so it runs beside a server that is up just
as the user commands do, and is an operation of the same actor. Passwords stand for their
hashes, the directory is the sets `LdapUsers` and `LdapAdmins`; a login takes a directory
user's rights from it, every later request from the local row.

### ClientAccess and BootMenu

`client`, `cgroup`, `image` and `igroup` are the tables, reduced to what decides which
images a machine gets. `GetImagesForClient` is five steps, one per statement
(`ImagesOfClient`, `ImagesOfGroup`, `ImagesAssigned`, `ImagesPublic`, `ImagesForAnyone`); in
between everything may be edited. Every statement of a menu request may fail, which
counts as one of the `MaxOps` operations, and what the handler then does is modelled:
the machine is taken for an unknown one when its row cannot be read, an unread group or
list adds nothing, and when the last statement fails the menu lists every ISO on disk,
numbered anew. The first and the last of these give a machine more than it was granted;
`lost` marks such requests, which `ServedWasGranted` exempts.
`past` records what was true at some moment of a menu request; `members` in it are
the groups the client has been in since the request began, because the request may
read a group's list after the client has left it, and the list may have been edited in
between.
`SelectedColumns` is what `UpdateClient` writes,
and not the rest of the copy, so that assignments and the next-boot image survive
late saves.

`ListImageGroups` is two statements: the groups, then their parents, which
`generateIPXEMenuWithGroups` reads with the rest. So a listed group may have a parent that
is listed and yet was gone when the parents were read.

The script is a graph: `Labels` are the sections a build emits, `Targets` the items and
gotos of each, `Unattended` the choice a timeout makes, if the menu has one: a theme with
`MenuTimeout` 0 (`theme.timed` is FALSE) writes no timeout, except into a main menu with a
next-boot image. Keys order groups and images
the way the code sorts them. `groupHasImages` recurses through the tree of groups;
entering a group twice means the recursion never ends ("loop"). `Trouble` is what
happens to a group in `buildGroupMenus`: nothing, a nil dereference of its parent
("panic", caught by net/http) or the exhausted stack ("overflow", which ends the
process). The recursions over the tree are functions of the number of levels still to
go (`FoundBelow` and the like), which TLC evaluates and TLAPS can reason about. `ToolsChange` stands for `BootTools`. `next` is also in `Enrollment`,
which has the lifecycle part of the same handler; whether a node is installed is
left open here.

### BootTools

`builtIn` is the manifest in force, `disk` the files of each tool (absent, partial or
whole), `dl` the download goroutines and `progress` the map they report to. Files are
opened, truncated and written in place, one after the other: kernel and initrd from the
archive, then the kernel for BIOS machines, which has a URL of its own. `Restart` ends
everything and seeds from the manifest of the next binary. Every statement may fail, and
`os.RemoveAll` may fail with some of the files removed. `odd` marks tools whose
row was saved from what no longer held (the row, or the look at the disk), tools that an
error kept offered after their files or their definition had changed, and enabled
tools that a download marks as downloaded although kernel or initrd is not there: the
archive lacks it, or a deletion has overtaken the download. `gone` are the tools whose
row was deleted, or could not be read or saved at the end of a download, which returns
that error without a status. The properties exempt these by name, and only these.

### Bootloaders

`disk` holds the directories of the custom sets, `active` the server's field and `saved`
its file: a set, or "empty" (missing or truncated) or "garbled" (two writers
overlaid). `os.WriteFile` is a truncation and a write, in the server and in `bootloaders
use` alike; the command is a worker too (`CLIUse`), which a restart of the server does not
end. A machine is offered a name
(`Offer`), asks for it (`Request`, which looks on disk) and is answered
(`TFTPAnswer`, `HTTPAnswer`), each reading the selection anew. `want`, `alone`, `chosen`
and `clean` are history: what a request promises and whether others selected
meanwhile. The embedded sets and the names in their manifests are those of this commit.

## Runs

Passing:

| Run | Instance | Properties |
|---|---|---|
| `EnrollmentConcurrent` | 1 node, 2 clusters, 2 roles, 1 image, 2 tokens, 2 requests, no foreign keys, clients created with a preset state, cluster and role | `TypeOK`, `TokensSound`, `ServedAsIssued`, `RevokedStaysRevoked` |
| `EnrollmentSerial` | 1 node, 2 clusters, 3 tokens, empty tables at first, 1 request at a time, all kinds, no foreign keys | `NoDanglingCluster`, `LifecycleRefined` |
| `SchedulerConcurrent` | 1 task, 2 requests and the start-up load, 2 runs, fairness | `TypeOK`, `EntriesTracked`, `RunsAccounted`, `InSync`, `StopReturns` |
| `CatalogueSerial` | 1 image, 1 request at a time, all kinds, all boot methods, `PUT /api/images` with `nfs` | `NeverOverwritten`, `RowsNeedFiles`, `OnlyEditsUnchecked` |
| `CatalogueConcurrent` | 1 image, 2 requests, ISOs copied in by hand, all readers | `TypeOK`, `UploadDelivers`, `ExtractDelivers`, `DeleteDelivers`, `ScanReconciles` |
| `Accounts` | admin and one user who is an administrator in the directory too, 2 passwords, 1 request beside the command line, 2 processes, 4 operations, SQLite | `TypeOK`, `ConfirmedIsStored`, `AdminRowKept`, `RevocationEffective`, `GuardSound` |
| `BootTools` | 1 tool with 2 releases, 2 requests, 2 downloads, 4 operations, any failures, fairness | `TypeOK`, `OfferedOnDisk`, `ProgressHonest`, `DownloadsEnd` |
| `BootMenu` | 2 images, 1 machine, 1 client group, 3 image groups in three shapes, 2 requests, 2 operations or failing statements | `TypeOK`, `ServedWasGranted`, `ReachExact`, `TargetsResolve`, `UnattendedBoots`, `FailsOnlyOnBrokenGroups` |
| `Bootloaders` | 1 custom set, 1 machine, 2 workers (requests or commands), 3 administrative operations | `TypeOK`, `DefaultAlwaysServed`, `NotFoundExplained`, `SelectionDurable` |

What these show: tokens are safe under every interleaving of two requests, errors
and restarts; cron and the scheduler's map never drift apart; the promises the
handlers give in their answers hold whenever nobody interferes, also when they
begin in a state that earlier races left behind; a confirmed change of an account
ends its sessions; a menu whose list of images was read shows only what was granted,
reaches all of it and boots unattended if the theme has a timeout; every file of the
default bootloader set is found whatever is switched meanwhile. Three runs show where a
promise of the code or of the manual is broken:

| Run | Property | What happens |
|---|---|---|
| `EnrollmentLostReinstall` | `BootNeverCancelsApproval` | a menu that saw the node installing marks it installed after a reinstall was ordered |
| `AccountsPostgres` | `ConfirmedIsStored` | on PostgreSQL an account cannot be disabled or demoted: `Updates` skips false |
| `AccountsLdap` | `LdapAdminsAdmitted` | an administrator of the directory logs in and is admitted nowhere, for want of a local admin row |

### What the models showed besides

These are consequences of the modelled code that the properties have to leave room
for; the definitions named show where.

- Enrollment: on SQLite a node can be assigned between the two statements of a
  cluster's deletion (hence `NoDanglingCluster` without overlap); `UpdateCluster` stores a
  node image id it has not looked up, which only a foreign key refuses. A next-boot image
  chosen after a menu request has read the client is cleared without having been offered,
  although "on the next PXE boot, the selected image will be pre-selected"
  (`docs/en/clients.md`), and two menu requests at once both use one.
- Scheduler: of two overlapping reloads the one with the older list can apply last;
  a failed reload is ignored (`stale`, `missed`).
- Catalogue: two transfers of one name can both pass `os.Stat`; a late save undoes edits
  or inserts a deleted image again; `PUT /api/images` stores `boot_method` without the check
  of `SetBootMethod` (hence `MethodEdits` in `OnlyEditsUnchecked`); a failed extraction that
  got as far as the kernel is taken for a manual one by the next listing.
- Accounts: the last active administrator can be lost to two overlapping updates, to
  `DeleteUser` of another name than admin, and to `--force`; `CreateUser` with
  `enabled: false` creates an enabled user; a password reset beside a live server
  saves the admin's row as it read it and undoes what was changed meanwhile.
- Menu: a disabled client is treated like an unknown machine and gets the public images, as
  one table of `docs/en/clients.md` says and its list of settings denies ("Client cannot
  boot"); a machine whose row cannot be read is taken for an unknown one too, and when the
  last query of `GetImagesForClient` fails the machine is shown every ISO on disk, private
  ones included; a next-boot image the machine was not given is the default of a menu it is
  no item of, while one it was given is booted without a menu; deleting an image group that
  has subgroups makes every menu panic that reaches one of them, also one whose list of
  groups was read while the parent was there, and two edits can make a cycle of groups that
  ends the process at the next menu; a script that starts with the next-boot image has no `:start`, to
  which `:failed` goes; folders found by a scan overrule the group an administrator
  chose; a CSV import ignores assignments of existing clients and false flags of
  new ones; a member added between the two statements of a client group's deletion
  keeps a reference to it.
- Tools: custom tools cannot be downloaded, since the handler asks the manifest; a
  changed URL lasts until the next start; a download that finds its row deleted, or
  meets an error at its last two statements, leaves the status at "extracting"; a
  deletion or a new manifest whose save fails leaves a tool offered without its files.
- Bootloaders: the default manifest names `bootimus-arm64.efi`, which the embedded
  set lacks; overlapping selections can leave the file with another set than the
  active one, or unreadable; a process that ends inside `WriteFile` comes back with
  the default set; deleting the active set overwrites what `bootloaders use` wrote;
  a custom file deleted between the look and the transfer is a 404 over HTTP and the
  embedded file over TFTP; a failed upload removes the file another upload wrote; a
  client's own `BootloaderSet` is stored and never read when serving.

### Bounds

Two requests suffice for the races of this code: each is between one request that has
read and one that writes, and the tables carry the effect of all that went before. In
`Accounts` the command line is the second actor. Two tokens are an assignment
and its replacement; a tick of the clock stands for the lifetime of a token, so
that one issued before the tick has expired after it. `RowIds` and `MaxId` bound how
often rows can be deleted and created again, `MaxLoads` and `MaxRuns` bound reloads
and runs, `MaxEpoch` the server's processes, `MaxOps` and `MaxChanges` the administrative
operations, so that restarts, edits, an operation under way and one that follows it
all occur; machines boot without bound. `ReadyInit` starts from a deployment with
clusters and a downloaded image, which `EnrollmentSerial` builds from empty tables by the
administrator's requests. `BootMenu` starts from tables a server may have after earlier
operations (`Focus` in `MCBootMenu` chooses them): two operations are allowed from the
chain of three groups with a client in a group whose list is still empty, so that a
list can be filled while its members change, and one operation from each other shape,
with a list of one image; a failing statement is an operation too, and the themes without
a timeout are set by one; that is enough to disable, orphan, detach or close a cycle. The
states are finite without further constraint; nothing is cut off inside a handler.
`Bootloaders` starts with the custom set absent, complete, or with nothing but its manifest.
`Accounts` is the largest run with 3.6 million states, `CatalogueConcurrent` and `Bootloaders`
have 1.8 million each, `BootMenu` has 387,609. Deadlock is checked in the enrollment, scheduler, catalogue and bootloader runs; in the
others a state where the operations are used up and nothing is in flight has no
step. `Uuids` is empty in these runs, so the hardware check of a machine config is
only exercised for machines that report no UUID.

### Fairness

`FairSpec` of the scheduler assumes that a run that has begun goes on:
`executeScheduledTask` loops over the machines of a group, sleeps a fixed time between
them and leaves power calls to goroutines of their own, so it ends, although it never
looks at the context of five minutes it is given; and that Go schedules the goroutine waiting in
`Stop`. `FairSpec` of `BootTools` assumes that a download goroutine is scheduled: its
HTTP client has a timeout of thirty minutes that covers the body, and an archive has
finitely many files. Nothing is assumed of requests, cron or the administrator.

## Proofs

TLAPS proves, for any number of nodes, clusters, images, tasks, users, tools, groups,
sets and requests, every invariant and every safety action property that a passing run
checks, and that the enrollment handlers implement `NodeLifecycle`. Each result has an
inductive invariant; the paragraphs say what it adds to the property and why.

### Types

`TypeCorrect` (of enrollment, scheduler, tools and menu), `CatalogueTypeCorrect`,
`AccountsTypeCorrect`, `BootloadersTypeCorrect`. None is inductive as it stands: a step
writes the fields of its request, so that the invariant also says which fields a
request has at which step (`DlKnows`, `ReqKnows`, `Sound`, ...).

### Enrollment

- `TokensAreSound`, `ConfigsServedAsIssued`, `RevocationIsFinal`: the guarantees about
  tokens, with every interleaving, error and restart. The statements about tables alone
  are not inductive, since a request writes or serves from what it read earlier.
  `IInv` adds `RequestBinding`: what a request in flight has read about a token is what
  the token was issued for, and the requests that will assign a cluster hold one. It is
  kept because `issued` never changes for a token once generated (`IssuedKept`) and
  because every statement either keeps the token columns of a row, clears them, or sets
  them together (`RowsStep`).
- `SerialReferences`, `SerialImplementsLifecycle`, assuming that requests do not overlap
  (`OneAtATime`) and that no posted client presets a state or a cluster (`PlainForms`),
  with and without foreign keys: no node refers to a cluster that is gone, and every
  statement is one operation of `NodeLifecycle` or invisible in it, also when errors and
  restarts cut handlers in half. `SerialInv` adds `Fresh`: what the one request in flight
  has read, and relies on at its next statement, is still so. Every statement has one of
  five effects on what an administrator sees of the nodes, and each effect is one step of
  the abstract specification. With overlapping requests it would not be so: a machine
  config that has read an approved node may write "installing" after the node was released
  (`MachineConfigWrite`), which is no operation of `NodeLifecycle`.

### Scheduler

- `EntriesAreTracked`: cron and the scheduler's map agree however reloads overlap.
  `MemInv` adds that loads are numbered upwards.
- `CronInSync`: `SyncInv` adds what holds while reloads are under way: a list that no edit
  has overtaken is the table, and what was applied last is the table or somebody still
  has to reload.
- `RunsAreAccounted`: `CountInv` adds that the slots of runs are a finite set and that a
  run is in flight for one task; the steps are an arithmetic of cardinalities that gain
  or lose one element.

### Image catalogue

- `OnlyEditsAreUnchecked`, for any set of methods that `PUT /api/images` carries: a method
  that needs boot files is on a row that is extracted, or is one of that set. Inductive with
  the rows that requests hold: a row that was so when it was read is so when it is saved,
  however late; that is what whole-row saves do guarantee.
- `UploadsDeliver`, `ExtractionsDeliver`, `DeletionsDeliver`, `ScansReconcile`: what the
  handlers' answers promise, with any number of other requests in flight. `Far` says, for
  each request nobody has interfered with so far (`alone`), how far it has come: which
  file, directory and row are as it left them, and for a scan which files it has still
  to visit, for an extraction what the reader at work has written (`Stages`); `Links` says
  that a file open under its name is there. A step of another request either changes nothing
  on disk and in the table or ends that request's `alone`.
- `SerialNeverOverwrites`, `SerialRowsNeedFiles`, `SerialEditsStick`, assuming `OneAtATime`
  (the first also that nobody copies ISOs in by hand): no file on disk is written
  again, a save never revives a deleted row, a save changes only the columns its
  handler is about. `AllSteady` is what makes them inductive: the row a request holds at
  its save is the row in the table, except for what it is about to set, and a file it is
  about to create is not there. With two requests none of the three would hold.

### Accounts

- `AdminRowIsKept`: on either database; what makes it inductive is that a save never
  deletes and that only `DeleteUser` does, for other names.
- `SQLiteConfirmedIsStored`, `RevocationIsEffective`, assuming `~Postgres`: a save from
  the current row stores the copy it confirms, since the key is the same; every other
  save is `Unclear`. `RevocationIsEffective` follows from it and from admission by the row.
- `GuardIsSound`: `Inv` is strengthened by what a request at its save knows (`Knows`): that
  it takes no rights of an active admin, or has listed others, or is the command line's.

### Boot tools

- `ProgressIsHonest`: a tool that is not in `gone` is reported as downloading or extracting
  only while a download of it is in flight, whatever other downloads of the same tool have
  reported. `Keys` adds that while no row of the name was deleted there is one with the
  first key, so that a download's last save finds it and the status is set to done, unless
  the statement fails.
- `OfferedToolsOnDisk`: with no request in flight, a tool that the menu offers and that is
  not in `odd` has its kernel and initrd on disk. `Offered` adds the tools whose files are
  missing while a request in flight has still to see to them: it is about to clear their flags, or has still to apply the
  definition that is in force (`Pending`).

### Boot menu

- `ServedImagesWereGranted`: after each of the five statements of `GetImagesForClient`,
  what has been collected was granted at some moment of the request (`Memories`), because
  `past` has absorbed every moment of it (`Current`). A statement that fails collects
  nothing, but for the two whose requests are `lost`; of those the theorem says nothing.
- `MenusReachExactly`, `MenusResolve`, `TimeoutsBoot`, `BuildFailsOnlyOnBrokenGroups`: what a
  script contains, for trees of groups of any depth and width. `TimeoutsBoot` is about
  themes with a timeout, and not about a next-boot image that is no item of the menu when
  there are tools: `choose` then takes the first item, and the tools menu waits for ever. A script is built from
  what its request has read, so the invariant only adds that this has the right types
  and that the outcome is that of `buildGroupMenus` on it (`Built`); the rest is about the
  recursive functions. The library's induction theorems cannot be instantiated here,
  so `LeastNat`, `AllNat` and `Recursion` state induction and definition by recursion with a
  set of numbers in place of a predicate; with them the levels of the tree are counted,
  and a pigeonhole argument over the ancestors shows that a walk longer than the number
  of groups has met a cycle. This is where the image groups must be finitely many.

### Bootloaders

- `DefaultIsAlwaysServed`, `NotFoundIsExplained` (assuming bootfile flags at their
  defaults): every miss over TFTP comes from `Resolve` on the set active then.
  `OfferNamed` adds that an offer made under an embedded set names a file of its manifest.
- `SelectionIsDurable`: `SaveInv` adds what a request that selects alone has done so far:
  before its read the field is what it promises, after it its copy is, and no other
  request selects.

### What failed proofs showed

Two properties held in the runs and could not be proved, rightly. `ServedWasGranted`
counted only what a client's group listed while the client was in it. But the handler
reads the client, then the group: a client that is moved out in between still gets
what the group lists afterwards. That takes two edits inside one request, from a group
whose list was empty, which the run did not start from; it does now, and `past.members`
is part of the statement. `OfferedOnDisk` missed a deletion that overtakes the last step
of a download of an enabled tool; `odd` now marks it.

### Assumptions

The assumptions on constants are the named ASSUMEs of the modules: None is neither a
key nor a row, bounds are naturals, the posted forms are forms, `sanboot` and `kernel` are
boot methods, the tables a server may start from are tables, keys of images and image
groups are natural numbers (0 is NULL), image groups and the slots of runs are finitely
many, custom sets are not named like embedded ones. Hypotheses of single theorems are
named with them above.

### Only model-checked

`StopReturns` and `DownloadsEnd` are liveness under fairness, which is out of this prover's
reach. The three violations are counterexamples and stay with TLC.

## Plan

Done: the modules, runs and theorems above. Worth modelling next: the hardware check of
machine configs with inventories that change between requests, and the assets of node
images, whose concurrent downloads share one `.partial` file.

## Not modelled

- Log broadcast, active sessions, extraction and download progress of images: they
  feed displays; nothing else reads them.
- SMB shares, WIM patching, NFS: state of external programs and libraries.
- Custom files and driver packs repeat the shape of the catalogue's upload and
  delete; distro profiles repeat the manifest update of the tools.
- NBD, UDF, ISO 9660 and packet formats: decoding of binary input without shared
  state. Distribution detection is a table of path patterns; what an extraction writes
  for its outcome is in `ImageCatalogue`.
- Webhooks, Wake-on-LAN, Redfish, metrics, statistics: outgoing calls and counters
  that feed nothing back.
- Kernel command lines, rendered documents, flag parsing and the browser code.
