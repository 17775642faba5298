-------------------------- MODULE BootloadersProofs --------------------------
(* Theorems about Bootloaders, for any sets, requests and machines.        *)
EXTENDS Bootloaders, TLAPS

-----------------------------------------------------------------------------
(* Types.                                                                  *)

LEMMA NamesTyped ==
    /\ Custom \subseteq Selectable
    /\ NoName \in Selectable
    /\ DOMAIN Embedded \subseteq Selectable
BY DEF Selectable, SetName

LEMMA IdleTyped == Idle \in AdminRequest /\ Idle.pc = "idle"
BY NamesTyped DEF Idle, Req, AdminRequest

LEMMA OffTyped == Off \in BootAttempt /\ Off.pc = "off"
BY NamesTyped DEF Off, BootAttempt, BootfileName

\* The requests, as far as every step of one of them keeps them.
SetKnown(q) ==
    /\ q.pc \in {"create", "upload", "copy", "check", "reset"} => q.set \in Custom
    /\ q.pc \in {"upload", "copy"} => q.file \in FileName

AdminOK == adm \in [Worker -> AdminRequest] /\ \A w \in Worker : SetKnown(adm[w])

LEMMA AdminStep ==
    ASSUME AdminOK, NEW w \in Worker, NEW q \in AdminRequest,
           adm' = [adm EXCEPT ![w] = q], SetKnown(q)
    PROVE  AdminOK'
BY DEF AdminOK

LEMMA AdminDone ==
    ASSUME AdminOK, NEW w \in Worker, Done(w)
    PROVE  AdminOK'
BY AdminStep, IdleTyped DEF Done, SetKnown

\* A request that selects also marks the others.
LEMMA SelectingStep ==
    ASSUME AdminOK, NEW w \in Worker, NEW q \in AdminRequest, BeginSelecting(w, q),
           SetKnown(q)
    PROVE  /\ AdminOK'
           /\ adm'[w] = [q EXCEPT !.alone = \A u \in Worker : ~ Selecting(u)]
           /\ \A v \in Worker \ {w} : adm'[v] = [adm[v] EXCEPT !.alone = ~ Selecting(v)]
<1>1. /\ adm'[w] = [q EXCEPT !.alone = \A u \in Worker : ~ Selecting(u)]
      /\ \A v \in Worker \ {w} : adm'[v] = [adm[v] EXCEPT !.alone = ~ Selecting(v)]
      /\ adm' \in [Worker -> {adm'[v] : v \in Worker}]
  BY DEF BeginSelecting
<1>2. \A x \in AdminRequest, b \in BOOLEAN :
         /\ [x EXCEPT !.alone = b] \in AdminRequest
         /\ [x EXCEPT !.alone = b].pc = x.pc /\ [x EXCEPT !.alone = b].set = x.set
         /\ [x EXCEPT !.alone = b].file = x.file
  BY DEF AdminRequest
<1>3. (\A u \in Worker : ~ Selecting(u)) \in BOOLEAN
      /\ \A v \in Worker : (~ Selecting(v)) \in BOOLEAN
  BY SMT
<1>4. \A v \in Worker : adm'[v] \in AdminRequest
  <2> SUFFICES ASSUME NEW v \in Worker PROVE adm'[v] \in AdminRequest
    OBVIOUS
  <2>1. CASE v = w
    BY <1>1, <1>2, <1>3, <2>1
  <2>2. CASE v # w
    <3>1. adm[v] \in AdminRequest
      BY DEF AdminOK
    <3>2. adm'[v] = [adm[v] EXCEPT !.alone = ~ Selecting(v)]
      BY <1>1, <2>2
    <3> HIDE DEF Selecting
    <3> QED BY <1>2, <1>3, <3>1, <3>2
  <2> QED BY <2>1, <2>2
<1>5. adm' \in [Worker -> AdminRequest]
  BY <1>1, <1>4
<1>6. ASSUME NEW v \in Worker
      PROVE  SetKnown(adm'[v])
  <2>1. CASE v = w
    <3>1. adm'[v].pc = q.pc /\ adm'[v].set = q.set /\ adm'[v].file = q.file
      BY <1>1, <1>2, <1>3, <2>1
    <3> QED BY <3>1 DEF SetKnown
  <2>2. CASE v # w
    <3>1. adm[v] \in AdminRequest
      BY DEF AdminOK
    <3>2. adm'[v].pc = adm[v].pc /\ adm'[v].set = adm[v].set /\ adm'[v].file = adm[v].file
      BY <1>1, <1>2, <1>3, <2>2, <3>1
    <3> QED BY <3>2 DEF AdminOK, SetKnown
  <2> QED BY <2>1, <2>2
<1> QED BY <1>1, <1>5, <1>6 DEF AdminOK

\* What a custom set holds.
Holding == {d \in [FileName -> Content] :
              \A f \in FileName : d[f] \in {"none", "partial"} \cup Whole(f)}

DiskOK == disk \in [Custom -> {NoDir} \cup Holding]

MachOK == mach \in [Machine -> BootAttempt]

SelectionOK ==
    /\ active \in Selectable
    /\ saved \in Selectable \cup NoConfig
    /\ changes \in 0..MaxChanges
    /\ chosen \in Selectable
    /\ clean \in BOOLEAN

Types == DiskOK /\ AdminOK /\ MachOK /\ SelectionOK

LEMMA TypesAreTypeOK == Types => TypeOK
<1> SUFFICES ASSUME Types PROVE TypeOK
  OBVIOUS
<1>1. /\ disk \in [Custom -> {NoDir} \cup [FileName -> Content]]
      /\ \A c \in Custom : disk[c] # NoDir =>
           \A f \in FileName : disk[c][f] \in {"none", "partial"} \cup Whole(f)
  BY DEF Types, DiskOK, Holding
<1> QED BY <1>1 DEF Types, AdminOK, SetKnown, MachOK, SelectionOK, TypeOK

\* The names there are.
LEMMA BootfileNames ==
    /\ "" \in BootfileName
    /\ \A set \in DOMAIN Embedded, a \in Arch : EmbeddedManifest[set][a] \in BootfileName
    /\ \A a \in Arch : Configured[a] \in BootfileName
    /\ \A x \in Manifests, a \in Arch : Bootfiles[x][a] \in BootfileName
<1> DEFINE A == {NamedBy(EmbeddedManifest[set]) : set \in DOMAIN Embedded}
           B == {NamedBy(Bootfiles[m]) : m \in Manifests}
           C == NamedBy(Configured)
<1>1. \A f : \A a \in Arch : f[a] \in NamedBy(f)
  BY DEF NamedBy
<1>2. BootfileName = {""} \cup C \cup (UNION A) \cup (UNION B)
  BY DEF BootfileName
<1>3. /\ \A set \in DOMAIN Embedded : NamedBy(EmbeddedManifest[set]) \in A
      /\ \A x \in Manifests : NamedBy(Bootfiles[x]) \in B
  OBVIOUS
<1>4. \A a \in Arch : Configured[a] \in C
  BY <1>1
<1> HIDE DEF A, B, C
<1>5. "" \in BootfileName /\ \A a \in Arch : Configured[a] \in BootfileName
  BY <1>2, <1>4
<1>6. \A set \in DOMAIN Embedded, a \in Arch : EmbeddedManifest[set][a] \in BootfileName
  BY <1>1, <1>2, <1>3
<1>7. \A x \in Manifests, a \in Arch : Bootfiles[x][a] \in BootfileName
  BY <1>1, <1>2, <1>3
<1> QED BY <1>5, <1>6, <1>7

\* Every bootfile ProxyDHCP can name is a known name.
LEMMA OfferTyped ==
    ASSUME NEW a \in Arch, active \in Selectable
    PROVE  bootfileFor(a) \in BootfileName
<1> DEFINE set == Effective(active)
<1>1. activeSetManifest[a] \in BootfileName
  <2>1. CASE IsBuiltIn(set)
    <3>1. activeSetManifest = EmbeddedManifest[set] /\ set \in DOMAIN Embedded
      BY <2>1 DEF activeSetManifest, ManifestOf, IsBuiltIn
    <3> QED BY <3>1, BootfileNames
  <2>2. CASE ~IsBuiltIn(set) /\ disk[set] # NoDir /\ disk[set]["manifest.json"] \in Manifests
    <3>1. activeSetManifest = Bootfiles[disk[set]["manifest.json"]]
      BY <2>2 DEF activeSetManifest, ManifestOf
    <3> QED BY <2>2, <3>1, BootfileNames
  <2>3. CASE ~IsBuiltIn(set) /\ ~(disk[set] # NoDir /\ disk[set]["manifest.json"] \in Manifests)
    <3>1. activeSetManifest = [x \in Arch |-> ""]
      BY <2>3 DEF activeSetManifest, ManifestOf
    <3> QED BY <3>1, BootfileNames
  <2> QED BY <2>1, <2>2, <2>3
<1>2. Configured[a] \in BootfileName
  BY BootfileNames
<1>3. DefaultBootfile[a] \in BootfileName
  <2>1. DefaultSet \in DOMAIN Embedded
    BY DEF DefaultSet, Embedded
  <2> QED BY <2>1, BootfileNames DEF DefaultBootfile
<1>4. proxyDHCPBootfiles[a] \in BootfileName
  BY <1>1, <1>2 DEF proxyDHCPBootfiles
<1> QED BY <1>2, <1>3, <1>4 DEF bootfileFor

\* A machine's step.
LEMMA BootTypes ==
    ASSUME Types, NEW m \in Machine, Boot(m)
    PROVE  Types'
<1>1. UNCHANGED <<disk, active, saved, adm, changes, chosen, clean>>
  BY DEF Boot, Offer, Request, TFTPAnswer, HTTPAnswer, Ended, PowerCycle, history
<1>2. DiskOK' /\ AdminOK' /\ SelectionOK'
  BY <1>1 DEF Types, DiskOK, AdminOK, SelectionOK
<1>3. mach[m] \in BootAttempt /\ active \in Selectable
  BY DEF Types, MachOK, SelectionOK
<1>4. ASSUME NEW q \in BootAttempt, mach' = [mach EXCEPT ![m] = q] PROVE MachOK'
  BY <1>4 DEF Types, MachOK
<1>5. ASSUME Offer(m) PROVE MachOK'
  <2>1. PICK a \in Arch :
          mach' = [mach EXCEPT ![m] = [pc |-> "offered", name |-> bootfileFor(a),
                                       from |-> active, stat |-> NoName, last |-> NoName]]
    BY <1>5 DEF Offer
  <2>2. bootfileFor(a) \in BootfileName
    BY <1>3, OfferTyped
  <2>3. [pc |-> "offered", name |-> bootfileFor(a), from |-> active,
         stat |-> NoName, last |-> NoName] \in BootAttempt
    BY <1>3, <2>2, NamesTyped DEF BootAttempt
  <2> QED BY <1>4, <2>1, <2>3
<1>6. ASSUME NEW proto \in {"tftp", "http"}, Request(m, proto) PROVE MachOK'
  <2> DEFINE q == [mach[m] EXCEPT !.pc = proto,
                                  !.stat = resolveBootloaderFile(mach[m].name)]
  <2>1. resolveBootloaderFile(mach[m].name) \in Selectable
    BY <1>3, NamesTyped DEF resolveBootloaderFile
  <2>2. q \in BootAttempt
    BY <1>3, <2>1 DEF BootAttempt
  <2>3. mach' = [mach EXCEPT ![m] = q]
    BY <1>6 DEF Request
  <2> QED BY <1>4, <2>2, <2>3
<1>7. ASSUME NEW found, NEW miss \in {"notfound", "404"}, Ended(m, found, miss) PROVE MachOK'
  <2> DEFINE q == [mach[m] EXCEPT !.pc = IF found THEN "served" ELSE miss,
                                  !.last = active]
  <2>1. q \in BootAttempt
    BY <1>3 DEF BootAttempt
  <2>2. mach' = [mach EXCEPT ![m] = q]
    BY <1>7 DEF Ended
  <2> QED BY <1>4, <2>1, <2>2
<1>8. ASSUME PowerCycle(m) PROVE MachOK'
  BY <1>4, <1>8, OffTyped DEF PowerCycle
<1> QED BY <1>2, <1>5, <1>6, <1>7, <1>8 DEF Types, Boot, TFTPAnswer, HTTPAnswer

\* One file of one set changes.
LEMMA FileStep ==
    ASSUME DiskOK, NEW c \in Custom, NEW f \in FileName, disk[c] # NoDir,
           NEW x \in {"none", "partial"} \cup Whole(f),
           disk' = [disk EXCEPT ![c][f] = x]
    PROVE  DiskOK'
<1>1. disk[c] \in Holding
  BY DEF DiskOK
<1>2. x \in Content
  BY DEF Content, Whole
<1>3. [disk[c] EXCEPT ![f] = x] \in Holding
  BY <1>1, <1>2 DEF Holding
<1>4. disk' = [disk EXCEPT ![c] = [disk[c] EXCEPT ![f] = x]]
  OBVIOUS
<1> QED BY <1>3, <1>4 DEF DiskOK

LEMMA CountChanges ==
    ASSUME SelectionOK, changes < MaxChanges, changes' = changes + 1
    PROVE  changes' \in 0..MaxChanges
BY BootloadersAssumption DEF SelectionOK

\* The requests that fill and empty sets.
LEMMA SetTypes ==
    ASSUME Types, NEW w \in Worker,
           \/ CreateBootloaderSet(w) \/ MakeSet(w)
           \/ UploadBootloader(w) \/ UploadCreate(w) \/ UploadCopy(w)
           \/ DeleteBootloaderFile(w)
    PROVE  Types'
<1>1. UNCHANGED <<active, saved, mach, chosen, clean>>
  BY DEF CreateBootloaderSet, MakeSet, UploadBootloader, UploadCreate, UploadCopy,
         DeleteBootloaderFile, history
<1>2. changes' \in 0..MaxChanges
  <2>1. UNCHANGED changes \/ (changes < MaxChanges /\ changes' = changes + 1)
    BY DEF CreateBootloaderSet, MakeSet, UploadBootloader, UploadCreate, UploadCopy,
           DeleteBootloaderFile, Begin
  <2> QED BY <2>1, CountChanges DEF Types, SelectionOK
<1>3. MachOK' /\ SelectionOK'
  BY <1>1, <1>2 DEF Types, MachOK, SelectionOK
<1>4. adm[w] \in AdminRequest /\ AdminOK /\ DiskOK
  BY DEF Types, AdminOK
<1>5. ASSUME NEW q \in AdminRequest, Begin(w, q), SetKnown(q)
      PROVE  AdminOK'
  BY <1>4, <1>5, AdminStep DEF Begin
<1>6. UNCHANGED disk => DiskOK'
  BY <1>4 DEF DiskOK
<1>7. ASSUME CreateBootloaderSet(w) PROVE AdminOK' /\ DiskOK'
  <2>1. PICK c \in Custom : Begin(w, Req("create", c, "", NoName))
    BY <1>7 DEF CreateBootloaderSet
  <2> DEFINE q == Req("create", c, "", NoName)
  <2>2. q \in AdminRequest /\ SetKnown(q)
    BY NamesTyped DEF Req, AdminRequest, SetKnown
  <2>3. Begin(w, q)
    BY <2>1
  <2> HIDE DEF q
  <2> QED BY <1>5, <1>6, <1>7, <2>2, <2>3 DEF CreateBootloaderSet
<1>8. ASSUME UploadBootloader(w) PROVE AdminOK' /\ DiskOK'
  <2>1. PICK c \in Custom, f \in FileName : Begin(w, Req("upload", c, f, NoName))
    BY <1>8 DEF UploadBootloader
  <2> DEFINE q == Req("upload", c, f, NoName)
  <2>2. q \in AdminRequest /\ SetKnown(q)
    BY NamesTyped DEF Req, AdminRequest, SetKnown
  <2>3. Begin(w, q)
    BY <2>1
  <2> HIDE DEF q
  <2> QED BY <1>5, <1>6, <1>8, <2>2, <2>3 DEF UploadBootloader
<1>9. ASSUME MakeSet(w) PROVE AdminOK' /\ DiskOK'
  <2>1. [f \in FileName |-> "none"] \in Holding
    BY DEF Holding, Content
  <2>2. DiskOK'
    BY <1>4, <1>9, <2>1 DEF MakeSet, DiskOK
  <2> QED BY <1>4, <1>9, <2>2, AdminDone DEF MakeSet
<1>10. ASSUME UploadCreate(w) PROVE AdminOK' /\ DiskOK'
  <2>1. adm[w].pc = "upload" /\ adm[w].set \in Custom /\ adm[w].file \in FileName
    BY <1>4, <1>10 DEF UploadCreate, AdminOK, SetKnown
  <2>2. CASE disk[adm[w].set] = NoDir
    BY <1>4, <1>6, <1>10, <2>2, AdminDone DEF UploadCreate
  <2>3. CASE disk[adm[w].set] # NoDir
    <3> DEFINE q == [adm[w] EXCEPT !.pc = "copy"]
    <3>1. q \in AdminRequest /\ q.set = adm[w].set /\ q.file = adm[w].file
      BY <1>4 DEF AdminRequest
    <3>2. adm' = [adm EXCEPT ![w] = q]
      BY <1>10, <2>3 DEF UploadCreate
    <3> HIDE DEF q
    <3>3. AdminOK'
      BY <1>4, <2>1, <3>1, <3>2, AdminStep DEF SetKnown
    <3>4. disk' = [disk EXCEPT ![adm[w].set][adm[w].file] = "partial"]
      BY <1>10, <2>3 DEF UploadCreate
    <3>5. DiskOK'
      BY <1>4, <1>10, <2>1, <2>3, <3>4, FileStep
    <3> QED BY <3>3, <3>5
  <2> QED BY <2>2, <2>3
<1>11. ASSUME UploadCopy(w) PROVE AdminOK' /\ DiskOK'
  <2>1. adm[w].pc = "copy" /\ adm[w].set \in Custom /\ adm[w].file \in FileName
    BY <1>4, <1>11 DEF UploadCopy, AdminOK, SetKnown
  <2>2. AdminOK'
    BY <1>4, <1>11, AdminDone DEF UploadCopy
  <2>3. CASE UNCHANGED disk
    BY <1>6, <2>2, <2>3
  <2>4. CASE disk' # disk
    <3>1. PICK x \in Whole(adm[w].file) \cup {"none"} :
            disk' = [disk EXCEPT ![adm[w].set][adm[w].file] = x]
      BY <1>11, <2>4 DEF UploadCopy
    <3>2. disk[adm[w].set] # NoDir
      BY <1>11, <2>4 DEF UploadCopy
    <3>3. DiskOK'
      BY <1>4, <1>11, <2>1, <3>1, <3>2, FileStep
    <3> QED BY <2>2, <3>3
  <2> QED BY <2>3, <2>4
<1>12. ASSUME DeleteBootloaderFile(w) PROVE AdminOK' /\ DiskOK'
  <2>1. PICK c \in Custom, f \in FileName :
          OnDisk(c, f) /\ Begin(w, Idle) /\ disk' = [disk EXCEPT ![c][f] = "none"]
    BY <1>12 DEF DeleteBootloaderFile
  <2>2. DiskOK'
    BY <1>4, <2>1, FileStep DEF OnDisk
  <2> QED BY <1>5, <2>1, <2>2, IdleTyped DEF SetKnown
<1> QED BY <1>3, <1>7, <1>8, <1>9, <1>10, <1>11, <1>12 DEF Types

\* The requests that change the selection, and the command line.
LEMMA SelectTypes ==
    ASSUME Types, NEW w \in Worker,
           \/ DeleteBootloaderSet(w) \/ DeleteCheck(w) \/ DeleteReset(w)
           \/ SelectBootloader(w)
           \/ SaveRead(w) \/ SaveOpen(w) \/ SaveWrite(w) \/ SaveFails(w)
    PROVE  Types'
<1>1. MachOK'
  BY DEF DeleteBootloaderSet, DeleteCheck, DeleteReset, SelectBootloader, SaveRead,
         SaveOpen, SaveWrite, SaveFails, Types, MachOK
<1>2. changes' \in 0..MaxChanges
  <2>1. UNCHANGED changes \/ (changes < MaxChanges /\ changes' = changes + 1)
    BY DEF DeleteBootloaderSet, DeleteCheck, DeleteReset, SelectBootloader, SaveRead,
           SaveOpen, SaveWrite, SaveFails, BeginSelecting
  <2> QED BY <2>1, CountChanges DEF Types, SelectionOK
<1>3. adm[w] \in AdminRequest /\ AdminOK /\ DiskOK /\ SelectionOK
  BY DEF Types, AdminOK
<1>4. UNCHANGED disk => DiskOK'
  BY <1>3 DEF DiskOK
<1>5. ASSUME NEW q \in AdminRequest, adm' = [adm EXCEPT ![w] = q], SetKnown(q)
      PROVE  AdminOK'
  BY <1>3, <1>5, AdminStep
<1>6. ASSUME DeleteBootloaderSet(w) PROVE Types'
  <2>1. PICK c \in Custom : /\ BeginSelecting(w, Req("check", c, "", NoName))
                            /\ disk' = [disk EXCEPT ![c] = NoDir]
    BY <1>6 DEF DeleteBootloaderSet
  <2> DEFINE q == Req("check", c, "", NoName)
  <2>2. q \in AdminRequest /\ SetKnown(q)
    BY NamesTyped DEF Req, AdminRequest, SetKnown
  <2>3. BeginSelecting(w, q)
    BY <2>1
  <2> HIDE DEF q
  <2>4. AdminOK'
    BY <1>3, <2>2, <2>3, SelectingStep
  <2>5. DiskOK'
    BY <1>3, <2>1 DEF DiskOK
  <2> QED BY <1>1, <1>2, <1>3, <1>6, <2>4, <2>5
             DEF DeleteBootloaderSet, Types, SelectionOK, history
<1>7. ASSUME SelectBootloader(w) PROVE Types'
  <2>1. PICK name \in Selectable :
          BeginSelecting(w, Req("read", name, "", name)) /\ active' = name
    BY <1>7 DEF SelectBootloader
  <2> DEFINE q == Req("read", name, "", name)
  <2>2. q \in AdminRequest /\ SetKnown(q)
    BY DEF Req, AdminRequest, SetKnown
  <2>3. BeginSelecting(w, q)
    BY <2>1
  <2> HIDE DEF q
  <2>4. AdminOK'
    BY <1>3, <2>2, <2>3, SelectingStep
  <2> QED BY <1>1, <1>2, <1>3, <1>4, <1>7, <2>1, <2>4
             DEF SelectBootloader, Types, SelectionOK, history
<1>8. ASSUME DeleteCheck(w) PROVE Types'
  <2> DEFINE q == [adm[w] EXCEPT !.pc = "reset"]
  <2>1. q \in AdminRequest /\ q.pc = "reset" /\ q.set = adm[w].set
    BY <1>3 DEF AdminRequest
  <2>2. SetKnown(q)
    BY <1>3, <1>8, <2>1 DEF DeleteCheck, AdminOK, SetKnown
  <2>3. adm' = [adm EXCEPT ![w] = q] \/ Done(w)
    BY <1>8 DEF DeleteCheck
  <2> HIDE DEF q
  <2>4. AdminOK'
    BY <1>3, <1>5, <2>1, <2>2, <2>3, AdminDone
  <2> QED BY <1>1, <1>2, <1>3, <1>4, <1>8, <2>4
             DEF DeleteCheck, Types, SelectionOK, history
<1>9. ASSUME NEW pc \in {"read", "open", "write"}, NEW s \in Selectable,
             adm' = [adm EXCEPT ![w] = [adm[w] EXCEPT !.pc = pc, !.set = s]]
      PROVE  AdminOK'
  <2> DEFINE q == [adm[w] EXCEPT !.pc = pc, !.set = s]
  <2>1. q \in AdminRequest /\ q.pc = pc
    BY <1>3 DEF AdminRequest
  <2>2. adm' = [adm EXCEPT ![w] = q]
    BY <1>9
  <2> HIDE DEF q
  <2> QED BY <1>5, <2>1, <2>2 DEF SetKnown
<1>10. ASSUME NEW pc \in {"read", "open", "write"},
              adm' = [adm EXCEPT ![w] = [adm[w] EXCEPT !.pc = pc]]
       PROVE  AdminOK'
  <2> DEFINE q == [adm[w] EXCEPT !.pc = pc]
  <2>1. q \in AdminRequest /\ q.pc = pc
    BY <1>3 DEF AdminRequest
  <2>2. adm' = [adm EXCEPT ![w] = q]
    BY <1>10
  <2> HIDE DEF q
  <2> QED BY <1>5, <2>1, <2>2 DEF SetKnown
<1>11. ASSUME DeleteReset(w) PROVE Types'
  BY <1>1, <1>2, <1>3, <1>4, <1>10, <1>11, NamesTyped
     DEF DeleteReset, Types, SelectionOK, history
<1>12. ASSUME SaveRead(w) PROVE Types'
  BY <1>1, <1>2, <1>3, <1>4, <1>9, <1>12 DEF SaveRead, Types, SelectionOK, history
<1>13. ASSUME SaveOpen(w) PROVE Types'
  BY <1>1, <1>2, <1>3, <1>4, <1>10, <1>13
     DEF SaveOpen, Types, SelectionOK, history, NoConfig
<1>14. ASSUME SaveWrite(w) PROVE Types'
  <2>1. /\ adm[w].set \in Selectable /\ adm[w].want \in Selectable
        /\ adm[w].alone \in BOOLEAN
    BY <1>3 DEF AdminRequest
  <2>2. saved' \in Selectable \cup NoConfig /\ chosen' \in Selectable
    BY <1>14, <2>1 DEF SaveWrite, NoConfig
  <2>3. clean' \in BOOLEAN /\ active' \in Selectable
    BY <1>3, <1>14, <2>1 DEF SaveWrite, SelectionOK
  <2>4. AdminOK' /\ DiskOK'
    BY <1>3, <1>4, <1>14, AdminDone DEF SaveWrite
  <2> QED BY <1>1, <1>2, <2>2, <2>3, <2>4 DEF Types, SelectionOK
<1>15. ASSUME SaveFails(w) PROVE Types'
  BY <1>1, <1>2, <1>3, <1>4, <1>15, AdminDone DEF SaveFails, Types, SelectionOK
<1> QED BY <1>6, <1>7, <1>8, <1>11, <1>12, <1>13, <1>14, <1>15

\* The request that a command of the user is.
LEMMA CLIRequest ==
    ASSUME NEW set \in Selectable,
           NEW q, q = [Req("open", set, "", set) EXCEPT !.cli = TRUE]
    PROVE  /\ q \in AdminRequest /\ SetKnown(q)
           /\ q.pc = "open" /\ q.set = set /\ q.want = set
BY DEF Req, AdminRequest, SetKnown

\* A known set is one that may be selected.
LEMMA CLIBegins ==
    ASSUME NEW w \in Worker, CLIUse(w)
    PROVE  \E set \in Selectable :
              BeginSelecting(w, [Req("open", set, "", set) EXCEPT !.cli = TRUE])
<1>1. PICK name \in DOMAIN Embedded \cup {c \in Custom : disk[c] # NoDir} :
        LET persisted == IF name = DefaultSet THEN NoName ELSE name
        IN BeginSelecting(w, [Req("open", persisted, "", persisted) EXCEPT !.cli = TRUE])
  BY DEF CLIUse
<1> DEFINE persisted == IF name = DefaultSet THEN NoName ELSE name
<1>2. persisted \in Selectable
  BY NamesTyped
<1>3. BeginSelecting(w, [Req("open", persisted, "", persisted) EXCEPT !.cli = TRUE])
  BY <1>1
<1> HIDE DEF persisted
<1> QED BY <1>2, <1>3

LEMMA CLITypes ==
    ASSUME Types, NEW w \in Worker, CLIUse(w)
    PROVE  Types'
<1>1. PICK set \in Selectable :
        BeginSelecting(w, [Req("open", set, "", set) EXCEPT !.cli = TRUE])
  BY CLIBegins
<1> DEFINE q == [Req("open", set, "", set) EXCEPT !.cli = TRUE]
<1>2. BeginSelecting(w, q)
  BY <1>1
<1>3. q \in AdminRequest /\ SetKnown(q)
  BY CLIRequest
<1> HIDE DEF q
<1>4. AdminOK'
  BY <1>2, <1>3, SelectingStep DEF Types
<1>5. changes' \in 0..MaxChanges
  BY <1>2, CountChanges DEF BeginSelecting, Types
<1>6. UNCHANGED <<disk, active, saved, mach, history>>
  BY DEF CLIUse
<1> QED BY <1>4, <1>5, <1>6 DEF Types, DiskOK, MachOK, SelectionOK, history

LEMMA RestartTypes ==
    ASSUME Types, Restart
    PROVE  Types'
<1>1. changes' \in 0..MaxChanges
  BY CountChanges DEF Restart, Types
<1>2. active' \in Selectable
  BY NamesTyped DEF Restart, Loaded, Types, SelectionOK
<1>3. AdminOK' /\ MachOK'
  BY IdleTyped, OffTyped DEF Restart, Types, AdminOK, MachOK, SetKnown
<1>4. clean' \in BOOLEAN
  <2>1. (clean /\ \A w \in Worker : ~ Selecting(w)) \in BOOLEAN
    BY SMT
  <2>2. clean' = (clean /\ \A w \in Worker : ~ Selecting(w))
    BY DEF Restart
  <2> QED BY <2>1, <2>2, Zenon
<1> QED BY <1>1, <1>2, <1>3, <1>4 DEF Restart, Types, DiskOK, SelectionOK

LEMMA TypesNext == Types /\ [Next]_vars => Types'
<1>1. Types /\ UNCHANGED vars => Types'
  BY DEF vars, Types, DiskOK, AdminOK, MachOK, SelectionOK
<1> QED BY <1>1, BootTypes, SetTypes, SelectTypes, CLITypes, RestartTypes
           DEF Next, Administer

LEMMA TypesInit == Init => Types
<1> SUFFICES ASSUME Init PROVE Types
  OBVIOUS
<1>1. DiskOK
  <2>1. ASSUME NEW c \in Custom, disk[c] # NoDir PROVE disk[c] \in Holding
    <3>1. disk[c] \in [FileName -> {"none", "whole"} \cup Manifests]
      BY <2>1 DEF Init
    <3>2. \A f \in FileName : disk[c][f] \in {"none"} \cup Whole(f)
      BY <2>1 DEF Init
    <3>3. disk[c] \in [FileName -> Content]
      BY <3>1 DEF Content
    <3> QED BY <3>2, <3>3 DEF Holding
  <2> QED BY <2>1 DEF Init, DiskOK
<1>2. AdminOK /\ MachOK
  BY IdleTyped, OffTyped DEF Init, AdminOK, MachOK, SetKnown
<1>3. SelectionOK
  <2>1. saved = "empty" /\ active = NoName /\ chosen = NoName /\ clean = TRUE /\ changes = 0
    BY DEF Init
  <2>2. changes \in 0..MaxChanges
    BY <2>1, BootloadersAssumption
  <2> QED BY <2>1, <2>2, NamesTyped DEF SelectionOK, NoConfig
<1> QED BY <1>1, <1>2, <1>3 DEF Types

\* Every reachable state of the bootloader sets is well typed.
THEOREM BootloadersTypeCorrect == Spec => []TypeOK
BY TypesInit, TypesNext, TypesAreTypeOK, PTL DEF Spec

-----------------------------------------------------------------------------
(* What machines get.                                                      *)

\* A step of machine m, seen from the machines.
LEMMA MachineStep ==
    ASSUME Types, NEW m \in Machine, Boot(m)
    PROVE  /\ \A x \in Machine \ {m} : mach'[x] = mach[x]
           /\ UNCHANGED active
           /\ \/ mach'[m].pc \notin {"notfound", "404"}
              \/ /\ mach[m].pc \in {"tftp", "http"}
                 /\ mach'[m].pc = (IF mach[m].pc = "tftp" THEN "notfound" ELSE "404")
                 /\ mach'[m].name = mach[m].name
                 /\ mach'[m].from = mach[m].from
                 /\ mach'[m].stat = mach[m].stat
                 /\ mach'[m].last = active
                 /\ mach[m].stat = NoName \/ mach[m].pc = "tftp"
                       => Resolve(active, mach[m].name) = NoName
<1>1. mach \in [Machine -> BootAttempt]
  BY DEF Types, MachOK
<1>2. ASSUME Offer(m) \/ Request(m, "tftp") \/ Request(m, "http") \/ PowerCycle(m)
      PROVE  /\ mach'[m].pc \notin {"notfound", "404"}
             /\ \A x \in Machine \ {m} : mach'[x] = mach[x]
             /\ UNCHANGED active
  <2>1. CASE Offer(m)
    BY <1>1, <2>1 DEF Offer
  <2>2. CASE Request(m, "tftp") \/ Request(m, "http")
    BY <1>1, <2>2 DEF Request, BootAttempt
  <2>3. CASE PowerCycle(m)
    BY <1>1, <2>3, OffTyped DEF PowerCycle
  <2> QED BY <1>2, <2>1, <2>2, <2>3
<1>3. ASSUME NEW found, NEW miss, Ended(m, found, miss)
      PROVE  /\ mach'[m].pc = IF found THEN "served" ELSE miss
             /\ mach'[m].name = mach[m].name /\ mach'[m].from = mach[m].from
             /\ mach'[m].stat = mach[m].stat /\ mach'[m].last = active
             /\ \A x \in Machine \ {m} : mach'[x] = mach[x]
             /\ UNCHANGED active
  BY <1>1, <1>3 DEF Ended, BootAttempt
<1>4. CASE TFTPAnswer(m)
  <2> DEFINE found == \/ mach[m].stat # NoName /\ OnDisk(mach[m].stat, mach[m].name)
                      \/ Resolve(active, mach[m].name) # NoName
  <2>1. Ended(m, found, "notfound") /\ mach[m].pc = "tftp"
    BY <1>4 DEF TFTPAnswer
  <2>2. ~found => Resolve(active, mach[m].name) = NoName
    OBVIOUS
  <2> HIDE DEF found
  <2> QED BY <1>3, <2>1, <2>2
<1>5. CASE HTTPAnswer(m)
  <2> DEFINE found == IF mach[m].stat # NoName THEN OnDisk(mach[m].stat, mach[m].name)
                      ELSE Resolve(active, mach[m].name) # NoName
  <2>1. Ended(m, found, "404") /\ mach[m].pc = "http"
    BY <1>5 DEF HTTPAnswer
  <2>2. ~found /\ mach[m].stat = NoName => Resolve(active, mach[m].name) = NoName
    OBVIOUS
  <2> HIDE DEF found
  <2> QED BY <1>3, <2>1, <2>2
<1> QED BY <1>2, <1>4, <1>5 DEF Boot

\* The other steps leave the machines alone, or switch them off.
LEMMA NoMachineStep ==
    ASSUME [Next]_vars, \A m \in Machine : ~Boot(m)
    PROVE  UNCHANGED mach \/ mach' = [m \in Machine |-> Off]
BY DEF Next, Administer, CreateBootloaderSet, MakeSet, UploadBootloader, UploadCreate,
       UploadCopy, DeleteBootloaderFile, DeleteBootloaderSet, DeleteCheck, DeleteReset,
       SelectBootloader, CLIUse, SaveRead, SaveOpen, SaveWrite, SaveFails, Restart, vars

\* A file of the set in force, or of the default set, is always resolved.
LEMMA ResolveFinds ==
    ASSUME NEW name, NEW f
    PROVE  /\ f \in Embedded[DefaultSet] => Resolve(name, f) # NoName
           /\ IsBuiltIn(Effective(name)) /\ f \in Embedded[Effective(name)]
                => Resolve(name, f) # NoName
<1>1. NoName \notin DOMAIN Embedded /\ DefaultSet # NoName
  BY DEF NoName, Embedded, DefaultSet
<1>2. IsBuiltIn(Effective(name)) => Effective(name) # NoName
  BY <1>1 DEF IsBuiltIn
<1> HIDE DEF Embedded, DefaultSet, NoName, Effective
<1> QED BY <1>1, <1>2 DEF Resolve

\* TFTP finds every file of the default set, whatever administrators do
\* between the offer, the stat, the open and the second lookup.
THEOREM DefaultIsAlwaysServed == Spec => []DefaultAlwaysServed
<1>1. Types /\ DefaultAlwaysServed /\ [Next]_vars => DefaultAlwaysServed'
  <2> SUFFICES ASSUME Types, DefaultAlwaysServed, [Next]_vars, NEW x \in Machine,
                      mach'[x].name \in Embedded[DefaultSet]
               PROVE  /\ mach'[x].pc # "notfound"
                      /\ mach'[x].pc = "404" => mach'[x].stat # NoName
    BY DEF DefaultAlwaysServed
  <2>1. CASE \A m \in Machine : ~Boot(m)
    BY <2>1, NoMachineStep, OffTyped DEF DefaultAlwaysServed
  <2>2. ASSUME NEW m \in Machine, Boot(m), x # m
        PROVE  /\ mach'[x].pc # "notfound"
               /\ mach'[x].pc = "404" => mach'[x].stat # NoName
    BY <2>2, MachineStep DEF DefaultAlwaysServed
  <2>3. ASSUME Boot(x)
        PROVE  /\ mach'[x].pc # "notfound"
               /\ mach'[x].pc = "404" => mach'[x].stat # NoName
    BY <2>3, MachineStep, ResolveFinds
  <2> QED BY <2>1, <2>2, <2>3
<1>2. Init => DefaultAlwaysServed
  BY OffTyped DEF Init, DefaultAlwaysServed
<1> QED BY <1>1, <1>2, TypesInit, TypesNext, PTL DEF Spec

\* An offer made while an embedded set is active names a file of its manifest.
OfferNamed == \A m \in Machine :
    LET set == Effective(mach[m].from)
    IN  mach[m].pc # "off" /\ IsBuiltIn(set) => mach[m].name \in NamedBy(EmbeddedManifest[set])

LEMMA EmbeddedManifestsAreFull ==
    \A set \in DOMAIN Embedded, a \in Arch : EmbeddedManifest[set][a] # ""
<1>1. DOMAIN Embedded = {"default", "secureboot"}
  BY DEF Embedded
<1>2. \A a \in Arch : EmbeddedManifest["default"][a] # ""
  <2>1. /\ EmbeddedManifest["default"]["bios"] # ""
        /\ EmbeddedManifest["default"]["uefi"] # ""
        /\ EmbeddedManifest["default"]["arm64"] # ""
    BY DEF EmbeddedManifest
  <2> QED BY <2>1 DEF Arch
<1>3. \A a \in Arch : EmbeddedManifest["secureboot"][a] # ""
  <2>1. /\ EmbeddedManifest["secureboot"]["bios"] # ""
        /\ EmbeddedManifest["secureboot"]["uefi"] # ""
        /\ EmbeddedManifest["secureboot"]["arm64"] # ""
    BY DEF EmbeddedManifest
  <2> QED BY <2>1 DEF Arch
<1> QED BY <1>1, <1>2, <1>3

LEMMA OfferFromManifest ==
    ASSUME \A a \in Arch : Configured[a] \in {"", DefaultBootfile[a]},
           NEW a \in Arch, IsBuiltIn(Effective(active))
    PROVE  bootfileFor(a) = EmbeddedManifest[Effective(active)][a]
<1> DEFINE set == Effective(active)
<1>1. activeSetManifest = EmbeddedManifest[set]
  BY DEF activeSetManifest, ManifestOf
<1>2. EmbeddedManifest[set][a] # ""
  BY EmbeddedManifestsAreFull DEF IsBuiltIn
<1>3. proxyDHCPBootfiles[a] = EmbeddedManifest[set][a]
  BY <1>1, <1>2 DEF proxyDHCPBootfiles
<1> QED BY <1>2, <1>3 DEF bootfileFor

LEMMA OfferNext ==
    ASSUME \A a \in Arch : Configured[a] \in {"", DefaultBootfile[a]}
    PROVE  Types /\ OfferNamed /\ [Next]_vars => OfferNamed'
<1> SUFFICES ASSUME Types, OfferNamed, [Next]_vars, NEW x \in Machine,
                    mach'[x].pc # "off", IsBuiltIn(Effective(mach'[x].from))
             PROVE  mach'[x].name \in NamedBy(EmbeddedManifest[Effective(mach'[x].from)])
  BY DEF OfferNamed, Effective
<1>1. mach \in [Machine -> BootAttempt]
  BY DEF Types, MachOK
<1>2. CASE mach'[x].name = mach[x].name /\ mach'[x].from = mach[x].from /\ mach[x].pc # "off"
  BY <1>2 DEF OfferNamed
<1>3. CASE \A m \in Machine : ~Boot(m)
  BY <1>2, <1>3, NoMachineStep, OffTyped
<1>4. ASSUME NEW m \in Machine, Boot(m), x # m
      PROVE  mach'[x].name \in NamedBy(EmbeddedManifest[Effective(mach'[x].from)])
  BY <1>2, <1>4, MachineStep
<1>5. CASE Offer(x)
  <2>1. PICK a \in Arch :
          mach' = [mach EXCEPT ![x] = [pc |-> "offered", name |-> bootfileFor(a),
                                       from |-> active, stat |-> NoName, last |-> NoName]]
    BY <1>5 DEF Offer
  <2>2. mach'[x].name = bootfileFor(a) /\ mach'[x].from = active
    BY <1>1, <2>1
  <2>3. bootfileFor(a) = EmbeddedManifest[Effective(active)][a]
    BY <2>2, OfferFromManifest
  <2> QED BY <2>2, <2>3 DEF NamedBy
<1>6. ASSUME NEW how, Request(x, how)
      PROVE  mach'[x].name \in NamedBy(EmbeddedManifest[Effective(mach'[x].from)])
  <2>1. mach[x].pc # "off"
    BY <1>6 DEF Request
  <2>2. mach'[x].name = mach[x].name /\ mach'[x].from = mach[x].from
    BY <1>1, <1>6 DEF Request, BootAttempt
  <2> QED BY <1>2, <2>1, <2>2
<1>7. ASSUME NEW found, NEW miss, Ended(x, found, miss), mach[x].pc # "off"
      PROVE  mach'[x].name \in NamedBy(EmbeddedManifest[Effective(mach'[x].from)])
  BY <1>1, <1>2, <1>7 DEF Ended, BootAttempt
<1>8. CASE PowerCycle(x)
  BY <1>1, <1>8, OffTyped DEF PowerCycle
<1> QED BY <1>3, <1>4, <1>5, <1>6, <1>7, <1>8 DEF Boot, TFTPAnswer, HTTPAnswer

\* With the bootfile flags at their defaults, a machine offered a file of an
\* embedded set misses it over TFTP only when another set is active by then,
\* or when the set does not ship what its manifest names.
THEOREM NotFoundIsExplained ==
    ASSUME \A a \in Arch : Configured[a] \in {"", DefaultBootfile[a]}
    PROVE  Spec => []NotFoundExplained
<1> DEFINE I == Types /\ OfferNamed /\ NotFoundExplained
<1>1. I /\ [Next]_vars => NotFoundExplained'
  <2> SUFFICES ASSUME I, [Next]_vars, NEW x \in Machine, mach'[x].pc = "notfound",
                      IsBuiltIn(Effective(mach'[x].from)), mach'[x].last = mach'[x].from
               PROVE  LET set == Effective(mach'[x].from)
                      IN  /\ mach'[x].name \in NamedBy(EmbeddedManifest[set])
                          /\ mach'[x].name \notin Embedded[set]
    BY DEF NotFoundExplained, Effective
  <2>0. OfferNamed'
    BY OfferNext
  <2>1. mach'[x].name \in NamedBy(EmbeddedManifest[Effective(mach'[x].from)])
    BY <2>0 DEF OfferNamed, Effective
  <2>2. CASE mach'[x] = mach[x]
    BY <2>1, <2>2 DEF NotFoundExplained
  <2>3. CASE \A m \in Machine : ~Boot(m)
    BY <2>2, <2>3, NoMachineStep, OffTyped
  <2>4. ASSUME NEW m \in Machine, Boot(m), x # m PROVE mach'[x] = mach[x]
    BY <2>4, MachineStep
  <2>5. CASE Boot(x)
    <3>1. /\ mach'[x].last = active /\ mach'[x].name = mach[x].name
          /\ Resolve(active, mach[x].name) = NoName
      BY <2>5, MachineStep
    <3>2. mach'[x].name \notin Embedded[Effective(mach'[x].from)]
      BY <3>1, ResolveFinds
    <3> QED BY <2>1, <3>2
  <2> QED BY <2>2, <2>3, <2>4, <2>5
<1>2. Init => OfferNamed /\ NotFoundExplained
  BY OffTyped DEF Init, OfferNamed, NotFoundExplained
<1> QED BY <1>1, <1>2, OfferNext, TypesInit, TypesNext, PTL DEF Spec

-----------------------------------------------------------------------------
(* The selection that survives.                                            *)

\* A request that has had the selection to itself: nobody else selects, and
\* what it will write is what it promised.  A command only writes.
Alone(w) ==
    adm[w].alone =>
        /\ \A v \in Worker \ {w} : ~ Selecting(v)
        /\ adm[w].pc = "read" => active = adm[w].want
        /\ adm[w].pc \in {"open", "write"} => adm[w].set = adm[w].want
        /\ adm[w].pc = "write" => saved = "empty"
        /\ adm[w].cli => adm[w].pc \in {"open", "write"}

SaveInv ==
    /\ Types
    /\ \A w \in Worker : Selecting(w) => Alone(w)
    /\ \A w \in Worker : adm[w].pc \in {"check", "reset"} => adm[w].want = NoName
    /\ clean /\ (\A w \in Worker : adm[w].pc # "write") => Loaded(saved) = chosen

LEMMA LoadedSelectable == \A name \in Selectable : Loaded(name) = name
<1>1. Selectable \cap NoConfig = {}
  BY BootloadersAssumption DEF Selectable, SetName, NoConfig, NoName, Embedded
<1> QED BY <1>1 DEF Loaded

\* Steps that leave the selection and every selecting request alone.
LEMMA SaveKept ==
    ASSUME SaveInv, Types', UNCHANGED <<active, saved, chosen, clean>>,
           \A w \in Worker : \/ adm'[w] = adm[w]
                             \/ ~Selecting(w) /\ ~Selecting(w)' /\ adm'[w].pc # "write"
    PROVE  SaveInv'
<1>1. \A w \in Worker : Selecting(w)' = Selecting(w)
  BY DEF Selecting
<1>2. \A w \in Worker : Selecting(w) => adm'[w] = adm[w]
  OBVIOUS
<1>3. ASSUME NEW w \in Worker, Selecting(w)' PROVE Alone(w)'
  <2>1. adm'[w] = adm[w] /\ Alone(w)
    BY <1>1, <1>2, <1>3 DEF SaveInv
  <2> QED BY <1>1, <2>1 DEF Alone
<1>4. \A w \in Worker : adm'[w].pc \in {"check", "reset"} => adm'[w].want = NoName
  BY DEF SaveInv, Selecting
<1>5. \A w \in Worker : adm[w].pc = "write" <=> adm'[w].pc = "write"
  BY DEF Selecting
<1> QED BY <1>3, <1>4, <1>5 DEF SaveInv

\* A selecting request that goes on, or ends without a word, while the file
\* stays as it is.
LEMMA SaveGoesOn ==
    ASSUME SaveInv, Types', NEW w \in Worker, Selecting(w), adm[w].pc # "write",
           UNCHANGED <<saved, chosen, clean>>,
           \A v \in Worker \ {w} : adm'[v] = adm[v],
           adm'[w].pc # "write", Selecting(w)' => Alone(w)',
           adm'[w].pc \in {"check", "reset"} => adm'[w].want = NoName
    PROVE  SaveInv'
<1>1. ASSUME NEW v \in Worker, Selecting(v)' PROVE Alone(v)'
  <2>1. CASE v = w
    BY <1>1, <2>1
  <2>2. CASE v # w
    <3>1. adm'[v] = adm[v] /\ Selecting(v)
      BY <1>1, <2>2 DEF Selecting
    <3>2. ~adm[v].alone
      BY <2>2, <3>1 DEF SaveInv, Alone
    <3> QED BY <3>1, <3>2 DEF Alone
  <2> QED BY <2>1, <2>2
<1>2. \A v \in Worker : adm'[v].pc \in {"check", "reset"} => adm'[v].want = NoName
  BY DEF SaveInv
<1>3. (\A v \in Worker : adm'[v].pc # "write") => (\A v \in Worker : adm[v].pc # "write")
  OBVIOUS
<1> QED BY <1>1, <1>2, <1>3 DEF SaveInv

\* What is left of a request that is marked.
LEMMA MarkedRequest ==
    ASSUME NEW x \in AdminRequest, NEW v,
           NEW y, y = [x EXCEPT !.alone = ~ Selecting(v)]
    PROVE  y.pc = x.pc /\ y.want = x.want /\ y.alone = ~ Selecting(v)
<1> DEFINE b == ~ Selecting(v)
<1>1. y = [x EXCEPT !.alone = b]
  OBVIOUS
<1> HIDE DEF b
<1>2. y.pc = x.pc /\ y.want = x.want /\ y.alone = b
  BY <1>1 DEF AdminRequest
<1> QED BY <1>2 DEF b

\* A new selecting request has the selection to itself only when no other has
\* begun, and takes it from those that have.
LEMMA SaveBegins ==
    ASSUME SaveInv, Types', NEW w \in Worker, NEW q \in AdminRequest, SetKnown(q),
           BeginSelecting(w, q), UNCHANGED <<saved, chosen, clean>>,
           q.pc \in {"check", "read", "open"},
           q.pc = "check" => q.want = NoName,
           q.pc = "read" => active' = q.want,
           q.pc = "open" => q.set = q.want,
           q.cli => q.pc = "open"
    PROVE  SaveInv'
<1>1. AdminOK /\ adm \in [Worker -> AdminRequest]
  BY DEF SaveInv, Types, AdminOK
<1>2. /\ adm'[w] = [q EXCEPT !.alone = \A u \in Worker : ~ Selecting(u)]
      /\ \A v \in Worker \ {w} : adm'[v] = [adm[v] EXCEPT !.alone = ~ Selecting(v)]
  BY <1>1, SelectingStep
<1>3. adm[w].pc = "idle"
  BY DEF BeginSelecting
<1>4. /\ adm'[w].pc = q.pc /\ adm'[w].want = q.want
      /\ adm'[w].set = q.set /\ adm'[w].cli = q.cli
      /\ adm'[w].alone = \A u \in Worker : ~ Selecting(u)
  BY <1>2 DEF AdminRequest
<1>5. \A v \in Worker \ {w} : /\ adm'[v].pc = adm[v].pc /\ adm'[v].want = adm[v].want
                              /\ adm'[v].alone = ~ Selecting(v)
  <2> SUFFICES ASSUME NEW v \in Worker \ {w}
               PROVE  /\ adm'[v].pc = adm[v].pc /\ adm'[v].want = adm[v].want
                      /\ adm'[v].alone = ~ Selecting(v)
    OBVIOUS
  <2>1. adm'[v] = [adm[v] EXCEPT !.alone = ~ Selecting(v)] /\ adm[v] \in AdminRequest
    BY <1>1, <1>2
  <2> QED BY <2>1, MarkedRequest
<1>6. \A v \in Worker \ {w} : Selecting(v)' = Selecting(v)
  BY <1>5 DEF Selecting
<1>7. ASSUME NEW v \in Worker, Selecting(v)' PROVE Alone(v)'
  <2>1. CASE v = w
    BY <1>4, <1>6, <2>1 DEF Alone
  <2>2. CASE v # w
    BY <1>5, <1>6, <1>7, <2>2 DEF Alone
  <2> QED BY <2>1, <2>2
<1>8. \A v \in Worker : adm'[v].pc \in {"check", "reset"} => adm'[v].want = NoName
  BY <1>4, <1>5 DEF SaveInv
<1>9. (\A v \in Worker : adm'[v].pc # "write") => (\A v \in Worker : adm[v].pc # "write")
  BY <1>3, <1>5
<1> QED BY <1>7, <1>8, <1>9 DEF SaveInv

LEMMA SaveNext == SaveInv /\ [Next]_vars => SaveInv'
<1> SUFFICES ASSUME SaveInv, [Next]_vars PROVE SaveInv'
  OBVIOUS
<1>0. Types /\ Types' /\ adm \in [Worker -> AdminRequest]
  BY TypesNext DEF SaveInv, Types, AdminOK
<1>1. CASE UNCHANGED vars
  BY <1>0, <1>1, SaveKept DEF vars
<1>2. ASSUME NEW m \in Machine, Boot(m) PROVE SaveInv'
  BY <1>0, <1>2, SaveKept DEF Boot, Offer, Request, TFTPAnswer, HTTPAnswer, Ended,
                              PowerCycle, history
<1>3. ASSUME NEW w \in Worker,
             \/ CreateBootloaderSet(w) \/ MakeSet(w)
             \/ UploadBootloader(w) \/ UploadCreate(w) \/ UploadCopy(w)
             \/ DeleteBootloaderFile(w)
      PROVE  SaveInv'
  <2>1. UNCHANGED <<active, saved, chosen, clean>>
    BY <1>3 DEF CreateBootloaderSet, MakeSet, UploadBootloader, UploadCreate,
                UploadCopy, DeleteBootloaderFile, history
  <2>2. adm[w].pc \in {"idle", "create", "upload", "copy"}
    BY <1>3 DEF CreateBootloaderSet, MakeSet, UploadBootloader, UploadCreate,
                UploadCopy, DeleteBootloaderFile, Begin
  <2>3. /\ \A v \in Worker \ {w} : adm'[v] = adm[v]
        /\ adm'[w].pc \in {"idle", "create", "upload", "copy"}
    <3>1. ASSUME NEW q, adm' = [adm EXCEPT ![w] = q],
                 q.pc \in {"idle", "create", "upload", "copy"}
          PROVE  /\ \A v \in Worker \ {w} : adm'[v] = adm[v]
                 /\ adm'[w].pc \in {"idle", "create", "upload", "copy"}
      BY <1>0, <3>1
    <3>2. CASE Done(w)
      BY <3>1, <3>2, IdleTyped DEF Done
    <3>3. CASE CreateBootloaderSet(w)
      <4>1. PICK c \in Custom : adm' = [adm EXCEPT ![w] = Req("create", c, "", NoName)]
        BY <3>3 DEF CreateBootloaderSet, Begin
      <4>2. Req("create", c, "", NoName).pc = "create"
        BY DEF Req
      <4> QED BY <3>1, <4>1, <4>2
    <3>4. CASE UploadBootloader(w)
      <4>1. PICK c \in Custom, f \in FileName :
              adm' = [adm EXCEPT ![w] = Req("upload", c, f, NoName)]
        BY <3>4 DEF UploadBootloader, Begin
      <4>2. Req("upload", c, f, NoName).pc = "upload"
        BY DEF Req
      <4> QED BY <3>1, <4>1, <4>2
    <3>5. CASE UploadCreate(w)
      <4>1. Done(w) \/ adm' = [adm EXCEPT ![w] = [adm[w] EXCEPT !.pc = "copy"]]
        BY <3>5 DEF UploadCreate
      <4>2. [adm[w] EXCEPT !.pc = "copy"].pc = "copy"
        BY <1>0 DEF AdminRequest
      <4> QED BY <3>1, <3>2, <4>1, <4>2
    <3>6. CASE DeleteBootloaderFile(w)
      <4>1. adm' = [adm EXCEPT ![w] = Idle]
        BY <3>6 DEF DeleteBootloaderFile, Begin
      <4> QED BY <3>1, <4>1, IdleTyped
    <3> QED BY <1>3, <3>2, <3>3, <3>4, <3>5, <3>6 DEF MakeSet, UploadCopy
  <2>4. ~Selecting(w) /\ ~Selecting(w)' /\ adm'[w].pc # "write"
    BY <2>2, <2>3 DEF Selecting
  <2> QED BY <1>0, <2>1, <2>3, <2>4, SaveKept
<1>4. ASSUME NEW w \in Worker, DeleteBootloaderSet(w) PROVE SaveInv'
  <2>1. PICK c \in Custom : BeginSelecting(w, Req("check", c, "", NoName))
    BY <1>4 DEF DeleteBootloaderSet
  <2> DEFINE q == Req("check", c, "", NoName)
  <2>2. q \in AdminRequest /\ SetKnown(q) /\ q.pc = "check" /\ q.want = NoName /\ ~q.cli
    BY NamesTyped DEF Req, AdminRequest, SetKnown
  <2>3. BeginSelecting(w, q) /\ UNCHANGED <<saved, chosen, clean>>
    BY <1>4, <2>1 DEF DeleteBootloaderSet, history
  <2> HIDE DEF q
  <2> QED BY <1>0, <2>2, <2>3, SaveBegins
<1>5. ASSUME NEW w \in Worker, SelectBootloader(w) PROVE SaveInv'
  <2>1. PICK name \in Selectable :
          BeginSelecting(w, Req("read", name, "", name)) /\ active' = name
    BY <1>5 DEF SelectBootloader
  <2> DEFINE q == Req("read", name, "", name)
  <2>2. q \in AdminRequest /\ SetKnown(q) /\ q.pc = "read" /\ q.want = name /\ ~q.cli
    BY DEF Req, AdminRequest, SetKnown
  <2>3. BeginSelecting(w, q) /\ active' = name /\ UNCHANGED <<saved, chosen, clean>>
    BY <1>5, <2>1 DEF SelectBootloader, history
  <2> HIDE DEF q
  <2> QED BY <1>0, <2>2, <2>3, SaveBegins
<1>6. ASSUME NEW w \in Worker, DeleteCheck(w) PROVE SaveInv'
  <2>1. Selecting(w) /\ adm[w].pc = "check" /\ UNCHANGED <<active, saved, chosen, clean>>
    BY <1>6 DEF DeleteCheck, Selecting, history
  <2>2. CASE Done(w)
    <3>1. adm'[w] = Idle /\ \A v \in Worker \ {w} : adm'[v] = adm[v]
      BY <1>0, <2>2 DEF Done
    <3>2. adm'[w].pc = "idle"
      BY <3>1, IdleTyped
    <3> QED BY <1>0, <2>1, <3>1, <3>2, SaveGoesOn DEF Selecting
  <2>3. CASE adm' = [adm EXCEPT ![w].pc = "reset"]
    <3>1. /\ adm'[w].pc = "reset" /\ adm'[w].want = adm[w].want
          /\ adm'[w].alone = adm[w].alone /\ adm'[w].cli = adm[w].cli
          /\ \A v \in Worker \ {w} : adm'[v] = adm[v]
      BY <1>0, <2>3 DEF AdminRequest
    <3>2. Alone(w)'
      BY <2>1, <3>1 DEF SaveInv, Alone, Selecting
    <3>3. adm'[w].want = NoName
      BY <2>1, <3>1 DEF SaveInv
    <3> QED BY <1>0, <2>1, <3>1, <3>2, <3>3, SaveGoesOn
  <2> QED BY <1>6, <2>2, <2>3 DEF DeleteCheck
<1>7. ASSUME NEW w \in Worker, DeleteReset(w) PROVE SaveInv'
  <2>1. Selecting(w) /\ adm[w].pc = "reset" /\ UNCHANGED <<saved, chosen, clean>>
    BY <1>7 DEF DeleteReset, Selecting, history
  <2>2. /\ adm'[w].pc = "read" /\ adm'[w].want = adm[w].want
        /\ adm'[w].alone = adm[w].alone /\ adm'[w].cli = adm[w].cli
        /\ \A v \in Worker \ {w} : adm'[v] = adm[v]
    BY <1>0, <1>7 DEF DeleteReset, AdminRequest
  <2>3. adm[w].want = NoName /\ active' = NoName
    BY <1>7, <2>1 DEF SaveInv, DeleteReset
  <2>4. Alone(w)'
    BY <2>1, <2>2, <2>3 DEF SaveInv, Alone, Selecting
  <2> QED BY <1>0, <2>1, <2>2, <2>4, SaveGoesOn
<1>8. ASSUME NEW w \in Worker, SaveRead(w) PROVE SaveInv'
  <2>1. Selecting(w) /\ adm[w].pc = "read" /\ UNCHANGED <<active, saved, chosen, clean>>
    BY <1>8 DEF SaveRead, Selecting, history
  <2>2. /\ adm'[w].pc = "open" /\ adm'[w].want = adm[w].want
        /\ adm'[w].alone = adm[w].alone /\ adm'[w].cli = adm[w].cli
        /\ adm'[w].set = active
        /\ \A v \in Worker \ {w} : adm'[v] = adm[v]
    BY <1>0, <1>8 DEF SaveRead, AdminRequest
  <2>3. Alone(w)'
    BY <2>1, <2>2 DEF SaveInv, Alone, Selecting
  <2> QED BY <1>0, <2>1, <2>2, <2>3, SaveGoesOn
<1>9. ASSUME NEW w \in Worker, SaveOpen(w) PROVE SaveInv'
  <2>1. /\ Selecting(w) /\ adm[w].pc = "open"
        /\ UNCHANGED <<active, chosen, clean>> /\ saved' = "empty"
    BY <1>9 DEF SaveOpen, Selecting, history
  <2>2. /\ adm'[w].pc = "write" /\ adm'[w].want = adm[w].want
        /\ adm'[w].alone = adm[w].alone /\ adm'[w].cli = adm[w].cli
        /\ adm'[w].set = adm[w].set
        /\ \A v \in Worker \ {w} : adm'[v] = adm[v]
    BY <1>0, <1>9 DEF SaveOpen, AdminRequest
  <2>3. ASSUME NEW v \in Worker, Selecting(v)' PROVE Alone(v)'
    <3>1. CASE v = w
      BY <2>1, <2>2, <3>1 DEF SaveInv, Alone, Selecting
    <3>2. CASE v # w
      <4>1. adm'[v] = adm[v] /\ Selecting(v)
        BY <2>2, <2>3, <3>2 DEF Selecting
      <4>2. ~adm[v].alone
        BY <2>1, <3>2, <4>1 DEF SaveInv, Alone
      <4> QED BY <4>1, <4>2 DEF Alone
    <3> QED BY <3>1, <3>2
  <2>4. \A v \in Worker : adm'[v].pc \in {"check", "reset"} => adm'[v].want = NoName
    BY <2>2 DEF SaveInv
  <2> QED BY <1>0, <2>2, <2>3, <2>4 DEF SaveInv
<1>10. ASSUME NEW w \in Worker, SaveWrite(w) \/ SaveFails(w) PROVE SaveInv'
  <2>1. Selecting(w) /\ UNCHANGED active
    BY <1>10 DEF SaveWrite, SaveFails, Selecting
  <2>2. adm'[w] = Idle /\ \A v \in Worker \ {w} : adm'[v] = adm[v]
    BY <1>0, <1>10 DEF SaveWrite, SaveFails, Done
  <2>3. ASSUME NEW v \in Worker, Selecting(v)' PROVE Alone(v)'
    <3>1. v # w
      BY <2>2, <2>3, IdleTyped DEF Selecting
    <3>2. adm'[v] = adm[v] /\ Selecting(v)
      BY <2>2, <2>3, <3>1 DEF Selecting
    <3>3. ~adm[v].alone
      BY <2>1, <3>1, <3>2 DEF SaveInv, Alone
    <3> QED BY <3>2, <3>3 DEF Alone
  <2>4. \A v \in Worker : adm'[v].pc \in {"check", "reset"} => adm'[v].want = NoName
    BY <2>2, IdleTyped DEF SaveInv
  <2>5. clean' => Loaded(saved)' = chosen'
    <3>1. CASE SaveFails(w)
      BY <3>1 DEF SaveFails
    <3>2. CASE SaveWrite(w) /\ clean'
      <4>1. adm[w].alone /\ adm[w].pc = "write" /\ Alone(w)
        BY <2>1, <3>2 DEF SaveWrite, SaveInv
      <4>2. saved' = adm[w].want /\ chosen' = adm[w].want
        BY <3>2, <4>1 DEF SaveWrite, Alone
      <4>3. adm[w].want \in Selectable
        BY <1>0 DEF AdminRequest
      <4>4. Loaded(saved)' = Loaded(adm[w].want)
        BY <4>2 DEF Loaded
      <4> QED BY <4>2, <4>3, <4>4, LoadedSelectable
    <3> QED BY <1>10, <3>1, <3>2
  <2> QED BY <1>0, <2>3, <2>4, <2>5 DEF SaveInv
<1>11. ASSUME NEW w \in Worker, CLIUse(w) PROVE SaveInv'
  <2>1. PICK set \in Selectable :
          BeginSelecting(w, [Req("open", set, "", set) EXCEPT !.cli = TRUE])
    BY <1>11, CLIBegins
  <2> DEFINE q == [Req("open", set, "", set) EXCEPT !.cli = TRUE]
  <2>2. q \in AdminRequest /\ SetKnown(q) /\ q.pc = "open" /\ q.set = q.want
    BY CLIRequest
  <2>3. BeginSelecting(w, q) /\ UNCHANGED <<saved, chosen, clean>>
    BY <1>11, <2>1 DEF CLIUse, history
  <2> HIDE DEF q
  <2> QED BY <1>0, <2>2, <2>3, SaveBegins
<1>12. CASE Restart
  <2>1. \A v \in Worker : adm'[v] = IF adm[v].cli THEN adm[v] ELSE Idle
    BY <1>12 DEF Restart
  <2>2. \A v \in Worker : Selecting(v)' => adm'[v] = adm[v] /\ adm[v].cli /\ Selecting(v)
    BY <2>1, IdleTyped DEF Selecting
  <2>3. clean' => clean /\ \A v \in Worker : adm[v].pc # "write"
    BY <1>12 DEF Restart, Selecting
  <2>4. UNCHANGED <<saved, chosen>>
    BY <1>12 DEF Restart
  <2>5. clean' => Loaded(saved)' = chosen'
    BY <2>3, <2>4 DEF SaveInv, Loaded
  <2>6. ASSUME NEW v \in Worker, Selecting(v)' PROVE Alone(v)'
    <3>1. adm'[v] = adm[v] /\ adm[v].cli /\ Alone(v)
      BY <2>2, <2>6 DEF SaveInv
    <3> QED BY <2>2, <2>4, <3>1 DEF Alone
  <2>7. \A v \in Worker : adm'[v].pc \in {"check", "reset"} => adm'[v].want = NoName
    BY <2>1, IdleTyped DEF SaveInv
  <2> QED BY <1>0, <2>5, <2>6, <2>7 DEF SaveInv
<1> QED BY <1>1, <1>2, <1>3, <1>4, <1>5, <1>6, <1>7, <1>8, <1>9, <1>10, <1>11, <1>12
           DEF Next, Administer

\* The selection confirmed last is the one a restart brings back, unless its
\* request overlapped another one, or a later one failed or died.
THEOREM SelectionIsDurable == Spec => []SelectionDurable
<1>1. Init => SaveInv
  <2> SUFFICES ASSUME Init PROVE SaveInv
    OBVIOUS
  <2>1. \A w \in Worker : adm[w].pc = "idle"
    BY IdleTyped DEF Init
  <2>2. Loaded(saved) = chosen
    BY DEF Init, Loaded, NoConfig
  <2> QED BY <2>1, <2>2, TypesInit DEF SaveInv, Selecting
<1>2. SaveInv => SelectionDurable
  BY DEF SaveInv, SelectionDurable, Selecting
<1> QED BY <1>1, <1>2, SaveNext, PTL DEF Spec
==============================================================================
