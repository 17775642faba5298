------------------------------ MODULE Bootloaders ------------------------------
(***************************************************************************)
(* Bootloader sets: which file a machine is told to fetch and which file   *)
(* it gets.  Two sets are embedded in the binary (bootloaders/); custom    *)
(* ones are directories under <data>/bootloaders that administrators       *)
(* create, fill and remove through the admin API.  The active set is a     *)
(* field of the server behind a mutex, saved in bootloader-config.json,    *)
(* which `bootimus bootloaders use` also writes.  ProxyDHCP names a        *)
(* bootfile from the manifest of the active set; TFTP and HTTP then look   *)
(* the name up in the active set, each reading the field anew.             *)
(*                                                                         *)
(* A worker is a request of the admin API or a user's command, a machine   *)
(* boots over and over.                                                    *)
(* Removing a directory is one step, and one upload carries one file.      *)
(***************************************************************************)
EXTENDS Naturals, FiniteSets

CONSTANTS Custom,       \* names of custom sets
          Worker,       \* concurrent admin requests and commands
          Machine,      \* machines that boot
          Manifests,    \* manifests an administrator may upload
          Bootfiles,    \* what they name: a manifest -> an architecture -> a name
          Configured,   \* bootfile flags of the server: an architecture -> a name
          MaxChanges    \* bound on administrative operations

Arch == {"bios", "uefi", "arm64"}
NoName == ""

(***************************************************************************)
(* The embedded sets: their manifests and which of the files that these    *)
(* name they hold.  At this commit the default manifest names an ARM64     *)
(* file the set lacks.                                                     *)
(***************************************************************************)
DefaultSet == "default"
Embedded == [default |-> {"undionly.kpxe", "bootimus.efi"},
             secureboot |-> {"undionly.kpxe", "ipxe-shimx64.efi", "ipxe-shimaa64.efi"}]
EmbeddedManifest ==
  [default |-> [bios |-> "undionly.kpxe", uefi |-> "bootimus.efi",
                arm64 |-> "bootimus-arm64.efi"],
   secureboot |-> [bios |-> "undionly.kpxe", uefi |-> "ipxe-shimx64.efi",
                   arm64 |-> "ipxe-shimaa64.efi"]]
DefaultBootfile == EmbeddedManifest[DefaultSet]

IsBuiltIn(name) == name \in DOMAIN Embedded
SetName == Custom \cup DOMAIN Embedded
Selectable == SetName \cup {NoName}            \* "" is the default set

\* What a custom set may hold: a loader of its own, a replacement of an
\* embedded one, and a manifest.
Loader == {"custom.efi", "bootimus.efi"}
FileName == Loader \cup {"manifest.json"}
Content == {"none", "partial", "whole"} \cup Manifests
NoDir == <<>>                                  \* no directory
Whole(f) == IF f = "manifest.json" THEN Manifests ELSE {"whole"}

VARIABLES
  disk,      \* custom set -> NoDir, or what its files hold
  active,    \* activeBootloaderSet
  saved,     \* bootloader-config.json; "empty" when missing or truncated,
             \* "garbled" when two writers overlaid each other
  adm,       \* the admin requests in progress
  mach,      \* the machines' boots
  changes,   \* administrative operations so far (bound)
  chosen,    \* history: the selection last confirmed to an administrator
  clean      \* history: that confirmation overlapped no other selection

vars == <<disk, active, saved, adm, mach, changes, chosen, clean>>
history == <<chosen, clean>>

Req(pc, set, file, want) ==
  [pc |-> pc, set |-> set, file |-> file, want |-> want, alone |-> TRUE, cli |-> FALSE]
Idle == Req("idle", NoName, "", NoName)
Off == [pc |-> "off", name |-> "", from |-> NoName, stat |-> NoName, last |-> NoName]
NoConfig == {"empty", "garbled"}

Loaded(s) == IF s \in NoConfig THEN NoName ELSE s

AdminRequest ==
  [pc: {"idle", "create", "upload", "copy", "check", "reset", "read", "open", "write"},
   set: Selectable, file: FileName \cup {""}, want: Selectable, alone: BOOLEAN,
   cli: BOOLEAN]       \* a command, which the server's death does not end

NamedBy(manifest) == {manifest[a] : a \in Arch}

BootfileName ==
  {""} \cup NamedBy(Configured)
       \cup (UNION {NamedBy(EmbeddedManifest[set]) : set \in DOMAIN Embedded})
       \cup (UNION {NamedBy(Bootfiles[m]) : m \in Manifests})

BootAttempt ==
  [pc: {"off", "offered", "tftp", "http", "served", "notfound", "404"},
   name: BootfileName, from: Selectable, stat: Selectable, last: Selectable]

\* The handlers refuse a custom set with the name of an embedded one; the
\* rest keeps names and the marks of missing or broken content apart.
ASSUME BootloadersAssumption ==
  /\ Custom \cap (DOMAIN Embedded \cup {NoName} \cup NoConfig) = {}
  /\ Manifests \cap {"none", "partial", "whole"} = {}
  /\ MaxChanges \in Nat

TypeOK ==
  /\ disk \in [Custom -> {NoDir} \cup [FileName -> Content]]
  /\ \A c \in Custom : disk[c] # NoDir =>
       \A f \in FileName : disk[c][f] \in {"none", "partial"} \cup Whole(f)
  /\ active \in Selectable
  /\ saved \in Selectable \cup NoConfig
  /\ adm \in [Worker -> AdminRequest]
  /\ \A w \in Worker : adm[w].pc \in {"create", "upload", "copy", "check", "reset"}
       => adm[w].set \in Custom
  /\ mach \in [Machine -> BootAttempt]
  /\ changes \in 0..MaxChanges
  /\ chosen \in Selectable
  /\ clean \in BOOLEAN

Init ==
  /\ disk \in [Custom -> {NoDir} \cup
                 [FileName -> {"none", "whole"} \cup Manifests]]
  /\ \A c \in Custom : disk[c] # NoDir =>
       \A f \in FileName : disk[c][f] \in {"none"} \cup Whole(f)
  /\ saved = "empty" /\ active = NoName /\ chosen = NoName /\ clean = TRUE
  /\ adm = [w \in Worker |-> Idle]
  /\ mach = [m \in Machine |-> Off]
  /\ changes = 0

-----------------------------------------------------------------------------
(***************************************************************************)
(* The file a machine is told to fetch.                                    *)
(***************************************************************************)

Effective(name) == IF name = NoName THEN DefaultSet ELSE name

\* The manifest of a set: the uploaded one when it parses, else the embedded
\* one; a custom set without a manifest names nothing.
ManifestOf(name) ==
  LET set == Effective(name)
  IN IF IsBuiltIn(set) THEN EmbeddedManifest[set]
     ELSE IF disk[set] # NoDir /\ disk[set]["manifest.json"] \in Manifests
          THEN Bootfiles[disk[set]["manifest.json"]]
          ELSE [a \in Arch |-> ""]

\* Variant: the manifest of the saved selection, not of the active one.
savedSetManifest == ManifestOf(Loaded(saved))

activeSetManifest == ManifestOf(active)

\* A flag left at its compiled default yields to the manifest.
proxyDHCPBootfiles ==
  [a \in Arch |->
     IF Configured[a] \in {"", DefaultBootfile[a]} /\ activeSetManifest[a] # ""
     THEN activeSetManifest[a] ELSE Configured[a]]

bootfileFor(a) ==
  IF proxyDHCPBootfiles[a] # "" THEN proxyDHCPBootfiles[a]
  ELSE IF Configured[a] # "" THEN Configured[a] ELSE DefaultBootfile[a]

\* ProxyDHCP answers a machine that is starting up.
Offer(m) ==
  /\ mach[m].pc = "off"
  /\ \E a \in Arch :
       mach' = [mach EXCEPT ![m] = [pc |-> "offered", name |-> bootfileFor(a),
                                    from |-> active, stat |-> NoName, last |-> NoName]]
  /\ UNCHANGED <<disk, active, saved, adm, changes, history>>

-----------------------------------------------------------------------------
(***************************************************************************)
(* The file it gets.                                                       *)
(***************************************************************************)

OnDisk(set, f) ==
  set \in Custom /\ f \in FileName /\ disk[set] # NoDir /\ disk[set][f] # "none"

\* The custom set a name resolves to, or "" (a default set is not on disk).
resolveBootloaderFile(f) == IF OnDisk(active, f) THEN active ELSE NoName

\* The embedded set that serves a name, or "": the active one, then default.
Resolve(name, f) ==
  LET set == Effective(name)
  IN IF IsBuiltIn(set) /\ f \in Embedded[set] THEN set
     ELSE IF f \in Embedded[DefaultSet] THEN DefaultSet ELSE NoName

\* The machine asks for its bootfile, and the handler looks for it on disk.
Request(m, proto) ==
  /\ mach[m].pc = "offered"
  /\ mach' = [mach EXCEPT ![m].pc = proto,
                          ![m].stat = resolveBootloaderFile(mach[m].name)]
  /\ UNCHANGED <<disk, active, saved, adm, changes, history>>

Ended(m, found, miss) ==
  /\ mach' = [mach EXCEPT ![m].pc = IF found THEN "served" ELSE miss,
                          ![m].last = active]
  /\ UNCHANGED <<disk, active, saved, adm, changes, history>>

\* Variant: a file that went away since fails the transfer.
TFTPAnswerStrict(m) ==
  /\ mach[m].pc = "tftp"
  /\ LET f == mach[m].name
     IN Ended(m, IF mach[m].stat # NoName THEN OnDisk(mach[m].stat, f)
                 ELSE Resolve(active, f) # NoName, "notfound")

\* TFTP: a file that went away since is looked up among the embedded ones,
\* in the set that is active by then.
TFTPAnswer(m) ==
  /\ mach[m].pc = "tftp"
  /\ LET f == mach[m].name
     IN Ended(m, \/ mach[m].stat # NoName /\ OnDisk(mach[m].stat, f)
                 \/ Resolve(active, f) # NoName, "notfound")

\* HTTP: ServeFile answers 404 for a file that went away since.
HTTPAnswer(m) ==
  /\ mach[m].pc = "http"
  /\ LET f == mach[m].name
     IN Ended(m, IF mach[m].stat # NoName THEN OnDisk(mach[m].stat, f)
                 ELSE Resolve(active, f) # NoName, "404")

\* The machine is switched off and on, or its request times out.
PowerCycle(m) ==
  /\ mach[m].pc # "off"
  /\ mach' = [mach EXCEPT ![m] = Off]
  /\ UNCHANGED <<disk, active, saved, adm, changes, history>>

-----------------------------------------------------------------------------
(***************************************************************************)
(* Administration.  A request that changes the selection goes through      *)
(* "read", "open" and "write" (SaveBootloaderConfig).  History: `want` is  *)
(* what it promises, `alone` that nothing else selected while it ran.      *)
(***************************************************************************)

Selecting(w) == adm[w].pc \in {"check", "reset", "read", "open", "write"}

Begin(w, req) ==
  /\ adm[w].pc = "idle" /\ changes < MaxChanges
  /\ changes' = changes + 1
  /\ adm' = [adm EXCEPT ![w] = req]

\* A second request that touches the selection spoils the first.
BeginSelecting(w, req) ==
  /\ adm[w].pc = "idle" /\ changes < MaxChanges
  /\ changes' = changes + 1
  /\ adm' = [v \in Worker |->
       IF v = w THEN [req EXCEPT !.alone = \A u \in Worker : ~ Selecting(u)]
       ELSE [adm[v] EXCEPT !.alone = ~ Selecting(v)]]

Done(w) == adm' = [adm EXCEPT ![w] = Idle]

CreateBootloaderSet(w) ==
  /\ \E c \in Custom :
       /\ disk[c] = NoDir
       /\ Begin(w, Req("create", c, "", NoName))
  /\ UNCHANGED <<disk, active, saved, mach, history>>

\* Variant: the new set has no place for a manifest.
MakeBareSet(w) ==
  /\ adm[w].pc = "create"
  /\ disk' = [disk EXCEPT ![adm[w].set] = [f \in Loader |-> "none"]]
  /\ Done(w)
  /\ UNCHANGED <<active, saved, mach, changes, history>>

\* MkdirAll succeeds when another request was faster.
MakeSet(w) ==
  /\ adm[w].pc = "create"
  /\ disk' = IF disk[adm[w].set] = NoDir
             THEN [disk EXCEPT ![adm[w].set] = [f \in FileName |-> "none"]] ELSE disk
  /\ Done(w)
  /\ UNCHANGED <<active, saved, mach, changes, history>>

UploadBootloader(w) ==
  /\ \E c \in Custom, f \in FileName :
       /\ disk[c] # NoDir
       /\ Begin(w, Req("upload", c, f, NoName))
  /\ UNCHANGED <<disk, active, saved, mach, history>>

\* os.Create truncates the file under its readers; without the directory
\* the request fails.
UploadCreate(w) ==
  /\ adm[w].pc = "upload"
  /\ IF disk[adm[w].set] = NoDir THEN Done(w) /\ UNCHANGED disk
     ELSE /\ disk' = [disk EXCEPT ![adm[w].set][adm[w].file] = "partial"]
          /\ adm' = [adm EXCEPT ![w].pc = "copy"]
  /\ UNCHANGED <<active, saved, mach, changes, history>>

\* The copy ends, into an unlinked file when the set was deleted; a failed
\* one removes whatever file has the name.
UploadCopy(w) ==
  /\ adm[w].pc = "copy"
  /\ LET c == adm[w].set  f == adm[w].file
     IN IF disk[c] = NoDir \/ disk[c][f] = "none" THEN UNCHANGED disk
        ELSE \E content \in Whole(f) \cup {"none"} :
               disk' = [disk EXCEPT ![c][f] = content]
  /\ Done(w)
  /\ UNCHANGED <<active, saved, mach, changes, history>>

DeleteBootloaderFile(w) ==
  /\ \E c \in Custom, f \in FileName :
       /\ OnDisk(c, f)
       /\ Begin(w, Idle)
       /\ disk' = [disk EXCEPT ![c][f] = "none"]
  /\ UNCHANGED <<active, saved, mach, history>>

\* Deleting a set removes its directory first (RemoveAll is content when
\* there is none), then drops the selection if the set is the active one.
DeleteBootloaderSet(w) ==
  /\ \E c \in Custom :
       /\ BeginSelecting(w, Req("check", c, "", NoName))
       /\ disk' = [disk EXCEPT ![c] = NoDir]
  /\ UNCHANGED <<active, saved, mach, history>>

DeleteCheck(w) ==
  /\ adm[w].pc = "check"
  /\ IF active = adm[w].set THEN adm' = [adm EXCEPT ![w].pc = "reset"] ELSE Done(w)
  /\ UNCHANGED <<disk, active, saved, mach, changes, history>>

DeleteReset(w) ==
  /\ adm[w].pc = "reset"
  /\ active' = NoName
  /\ adm' = [adm EXCEPT ![w].pc = "read"]
  /\ UNCHANGED <<disk, saved, mach, changes, history>>

\* Variant: the configuration is saved before the field is set.
SelectAfterSave(w) ==
  /\ \E name \in Selectable :
       /\ BeginSelecting(w, Req("open", active, "", name))
       /\ active' = name
  /\ UNCHANGED <<disk, saved, mach, history>>

\* Any name is accepted; "built-in" stands for "".
SelectBootloader(w) ==
  /\ \E name \in Selectable :
       /\ BeginSelecting(w, Req("read", name, "", name))
       /\ active' = name
  /\ UNCHANGED <<disk, saved, mach, history>>

\* SaveBootloaderConfig: read the field under the lock, then write the file.
SaveRead(w) ==
  /\ adm[w].pc = "read"
  /\ adm' = [adm EXCEPT ![w].pc = "open", ![w].set = active]
  /\ UNCHANGED <<disk, active, saved, mach, changes, history>>

SaveOpen(w) ==
  /\ adm[w].pc = "open"
  /\ saved' = "empty"
  /\ adm' = [adm EXCEPT ![w].pc = "write"]
  /\ UNCHANGED <<disk, active, mach, changes, history>>

SaveWrite(w) ==
  /\ adm[w].pc = "write"
  /\ saved' \in IF saved = "empty" THEN {adm[w].set} ELSE {adm[w].set, "garbled"}
  /\ chosen' = adm[w].want
  /\ clean' = adm[w].alone
  /\ Done(w)
  /\ UNCHANGED <<disk, active, mach, changes>>

\* The file cannot be opened or written, or the command is killed:
\* SelectBootloader and the command report an error, DeleteBootloader says
\* nothing; the field keeps its new value.
SaveFails(w) ==
  /\ adm[w].pc \in {"open", "write"}
  /\ clean' = FALSE
  /\ Done(w)
  /\ UNCHANGED <<disk, active, saved, mach, changes, chosen>>

\* `bootimus bootloaders use`: a known set, in the file only, which it writes
\* as the server does.
CLIUse(w) ==
  /\ \E name \in DOMAIN Embedded \cup {c \in Custom : disk[c] # NoDir} :
       LET persisted == IF name = DefaultSet THEN NoName ELSE name
       IN BeginSelecting(w, [Req("open", persisted, "", persisted) EXCEPT !.cli = TRUE])
  /\ UNCHANGED <<disk, active, saved, mach, history>>

-----------------------------------------------------------------------------
\* The process dies at any point and comes back with the saved selection.
Restart ==
  /\ changes < MaxChanges /\ changes' = changes + 1
  /\ active' = Loaded(saved)
  /\ adm' = [w \in Worker |-> IF adm[w].cli THEN adm[w] ELSE Idle]
  /\ mach' = [m \in Machine |-> Off]
  /\ clean' = (clean /\ \A w \in Worker : ~ Selecting(w))
  /\ UNCHANGED <<disk, saved, chosen>>

Boot(m) ==
  \/ Offer(m) \/ Request(m, "tftp") \/ Request(m, "http")
  \/ TFTPAnswer(m) \/ HTTPAnswer(m) \/ PowerCycle(m)

Administer(w) ==
  \/ CreateBootloaderSet(w) \/ MakeSet(w)
  \/ UploadBootloader(w) \/ UploadCreate(w) \/ UploadCopy(w)
  \/ DeleteBootloaderFile(w)
  \/ DeleteBootloaderSet(w) \/ DeleteCheck(w) \/ DeleteReset(w)
  \/ SelectBootloader(w)
  \/ CLIUse(w)
  \/ SaveRead(w) \/ SaveOpen(w) \/ SaveWrite(w) \/ SaveFails(w)

Next ==
  \/ \E m \in Machine : Boot(m)
  \/ \E w \in Worker : Administer(w)
  \/ Restart

Spec == Init /\ [][Next]_vars

-----------------------------------------------------------------------------
\* Whatever administrators switch, overwrite or delete while a transfer is
\* being set up, TFTP finds every file of the default set: a replacement that
\* is deleted between the stat and the open, and a selection that changes
\* before Resolve reads it again, end at the embedded file.  HTTP misses such
\* a file only when the replacement it had found is deleted under it.
DefaultAlwaysServed ==
  \A m \in Machine : mach[m].name \in Embedded[DefaultSet] =>
    /\ mach[m].pc # "notfound"
    /\ mach[m].pc = "404" => mach[m].stat # NoName

\* A machine that was made an offer while an embedded set was active fails
\* over TFTP only if another set is active when its request is resolved (the
\* offer and the transfer read the selection separately), or if the embedded
\* manifest itself names a file its set does not ship.
NotFoundExplained ==
  \A m \in Machine :
    LET set == Effective(mach[m].from)
    IN /\ mach[m].pc = "notfound"
       /\ IsBuiltIn(set)
       => \/ mach[m].last # mach[m].from
          \/ /\ mach[m].name \in NamedBy(EmbeddedManifest[set])
             /\ mach[m].name \notin Embedded[set]

\* The selection last confirmed, by the API or by the command line, is the
\* one a restart brings back, unless its request overlapped another one, was
\* followed by one that died or could not write the file.
SelectionDurable ==
  (clean /\ \A w \in Worker : ~ Selecting(w)) => Loaded(saved) = chosen
================================================================================
