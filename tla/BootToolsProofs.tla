--------------------------- MODULE BootToolsProofs --------------------------
(* Theorems about BootTools, for any tools, requests and downloads.        *)
EXTENDS BootTools, TLAPS

-----------------------------------------------------------------------------
(* Types.                                                                  *)

\* A download that is past its first look has a row and a definition.
Active == {"connect", "copy", "extract", "write", "save"}

\* What a download knows at each step.
DlKnows(q) ==
    /\ q.pc # "idle" => q.n \in Names
    /\ q.pc \in Active => q.def \in Def
    /\ q.pc = "write" => q.file \in Paths
    /\ q.pc = "save" => q.row \in Row

\* What a request knows: a save keeps the key and the kind of its row.
ReqKnows(q) ==
    /\ q.pc \notin {"idle", "apply"} => q.n \in Names
    /\ q.pc \in {"save", "applySave"} =>
          /\ q.row \in Row /\ q.new \in Row
          /\ q.new.id = q.row.id /\ q.new.custom = q.row.custom

DlOK == dl \in [Slots -> Download] /\ \A d \in Slots : DlKnows(dl[d])
ReqOK == req \in [Requests -> Request] /\ \A r \in Requests : ReqKnows(req[r])

TableOK ==
    /\ tool \in [Names -> Row \cup {None}]
    /\ ids \in [Names -> 0..MaxId]
    /\ odd \subseteq Names
    /\ gone \subseteq Names

RestOK ==
    /\ builtIn \in [Names -> Defs \cup {None}]
    /\ disk \in [Names -> Files]
    /\ progress \in [Names -> {"idle", "downloading", "extracting", "done", "error"}]
    /\ ops \in 0..MaxOps

Types == DlOK /\ ReqOK /\ TableOK /\ RestOK

LEMMA TypesAreTypeOK == Types => TypeOK
BY DEF Types, DlOK, ReqOK, TableOK, RestOK, TypeOK

LEMMA IdleTyped ==
    /\ Idle \in Request /\ Idle.pc = "idle" /\ Idle.todo = NoManifest
    /\ NoDownload \in Download /\ NoDownload.pc = "idle"
BY DEF Idle, NoManifest, Request, NoDownload, Download

LEMMA DlStep ==
    ASSUME DlOK, NEW d \in Slots, NEW q \in Download, DlKnows(q),
           dl' = [dl EXCEPT ![d] = q]
    PROVE  DlOK' /\ dl'[d] = q /\ \A e \in Slots \ {d} : dl'[e] = dl[e]
BY DEF DlOK

LEMMA ReqStep ==
    ASSUME ReqOK, NEW r \in Requests, NEW q \in Request, ReqKnows(q),
           req' = [req EXCEPT ![r] = q]
    PROVE  ReqOK' /\ req'[r] = q /\ \A s \in Requests \ {r} : req'[s] = req[s]
BY DEF ReqOK

LEMMA EndStep ==
    ASSUME DlOK, NEW d \in Slots, End(d)
    PROVE  DlOK' /\ dl'[d] = NoDownload /\ \A e \in Slots \ {d} : dl'[e] = dl[e]
BY DlStep, IdleTyped DEF End, DlKnows, Active

LEMMA DoneStep ==
    ASSUME ReqOK, NEW r \in Requests, Done(r)
    PROVE  ReqOK' /\ req'[r] = Idle /\ \A s \in Requests \ {r} : req'[s] = req[s]
BY ReqStep, IdleTyped DEF Done, ReqKnows

LEMMA BeginStep == ASSUME RestOK, Begin PROVE ops' \in 0..MaxOps
BY BootToolsAssumption DEF RestOK, Begin

\* Rows that exist are rows.
LEMMA RowTyped ==
    ASSUME TableOK, NEW n \in Names
    PROVE  Exists(n) <=> tool[n] \in Row
BY NoneIsNoRow DEF TableOK, Exists

LEMMA Downloadable ==
    ASSUME NEW n, NEW defs PROVE IsDownloaded(n, defs) \in BOOLEAN
BY DEF IsDownloaded

\* The row under a new definition keeps its key and its kind.
LEMMA AppliedTyped ==
    ASSUME NEW n, NEW row \in Row, NEW def \in Defs, NEW defs
    PROVE  /\ Applied(n, row, def, defs) \in Row
           /\ Applied(n, row, def, defs).id = row.id
           /\ Applied(n, row, def, defs).custom = row.custom
           /\ row.custom => Applied(n, row, def, defs) = row
           /\ ~row.custom => Applied(n, row, def, defs).downloaded = IsDownloaded(n, defs)
<1>1. def \in Def /\ IsDownloaded(n, defs) \in BOOLEAN
  BY BootToolsAssumption, Downloadable
<1> DEFINE b == IsDownloaded(n, defs)
<1>2. Applied(n, row, def, defs) =
         IF row.custom THEN row ELSE [row EXCEPT !.def = def, !.downloaded = b]
  BY DEF Applied
<1>3. b \in BOOLEAN
  BY <1>1
<1> HIDE DEF b
<1>4. LET new == [row EXCEPT !.def = def, !.downloaded = b] IN
         new \in Row /\ new.id = row.id /\ new.custom = row.custom /\ new.downloaded = b
  BY <1>1, <1>3 DEF Row
<1> HIDE DEF Applied
<1>5. CASE row.custom
  BY <1>2, <1>5
<1>6. CASE ~row.custom
  <2>1. Applied(n, row, def, defs) = [row EXCEPT !.def = def, !.downloaded = b]
    BY <1>2, <1>6
  <2>2. /\ Applied(n, row, def, defs) \in Row
        /\ Applied(n, row, def, defs).id = row.id
        /\ Applied(n, row, def, defs).custom = row.custom
        /\ Applied(n, row, def, defs).downloaded = b
    BY <1>4, <2>1
  <2>3. Applied(n, row, def, defs).downloaded = IsDownloaded(n, defs)
    BY <2>2 DEF b
  <2> QED BY <1>6, <2>2, <2>3
<1> QED BY <1>5, <1>6

LEMMA NewRowTyped ==
    ASSUME TableOK, NEW n \in Names, ids[n] < MaxId, NEW c \in BOOLEAN, NEW def \in Defs,
           NEW b \in BOOLEAN
    PROVE  /\ NewRow(n, c, def, b) \in Row
           /\ NewRow(n, c, def, b).id = ids[n] + 1
           /\ ~NewRow(n, c, def, b).enabled
BY BootToolsAssumption DEF NewRow, Row, TableOK

\* A save stores its row, or leaves a row with another key.
LEMMA StoredIs ==
    ASSUME TableOK, NEW n \in Names, NEW row \in Row, tool' = Stored(n, row)
    PROVE  /\ tool' \in [Names -> Row \cup {None}]
           /\ tool'[n] = IF Exists(n) /\ tool[n].id # row.id THEN tool[n] ELSE row
           /\ \A m \in Names \ {n} : tool'[m] = tool[m]
           /\ tool'[n] \in Row
<1>1. Exists(n) => tool[n] \in Row
  BY RowTyped
<1> QED BY <1>1 DEF TableOK, Stored

LEMMA SaveIs ==
    ASSUME TableOK, NEW n \in Names, NEW read, NEW row \in Row, SaveBootTool(n, read, row)
    PROVE  /\ TableOK'
           /\ tool'[n] = IF Exists(n) /\ tool[n].id # row.id THEN tool[n] ELSE row
           /\ \A m \in Names \ {n} : tool'[m] = tool[m]
           /\ tool'[n] \in Row
           /\ ids' = ids /\ gone' = gone /\ odd \subseteq odd'
           /\ n \notin odd' => n \notin odd /\ ~Stale(n, read, row)
           /\ \A m \in Names \ {n} : m \in odd' <=> m \in odd
<1>1. tool' = Stored(n, row) /\ ids' = ids /\ gone' = gone
      /\ odd' = IF Stale(n, read, row) THEN odd \cup {n} ELSE odd
  BY DEF SaveBootTool
<1>2. TableOK'
  BY <1>1, StoredIs DEF TableOK
<1> QED BY <1>1, <1>2, StoredIs

\* A statement that fails touches no row, and marks the tool if it matters.
LEMMA FailIs ==
    ASSUME TableOK, NEW n \in Names, NEW row, GetFails(n) \/ SaveFails(n, row)
    PROVE  /\ TableOK' /\ UNCHANGED <<tool, ids, gone>> /\ odd \subseteq odd'
           /\ \A m \in Names \ {n} : m \in odd' <=> m \in odd
           /\ n \notin odd' => (GetFails(n) /\ ~Exists(n)) \/ (SaveFails(n, row) /\ row.downloaded)
<1>1. UNCHANGED <<tool, ids, gone>> /\ (odd' = odd \/ odd' = odd \cup {n})
  BY DEF GetFails, SaveFails
<1>2. TableOK'
  BY <1>1 DEF TableOK
<1>3. n \notin odd' => (GetFails(n) /\ ~Exists(n)) \/ (SaveFails(n, row) /\ row.downloaded)
  BY DEF GetFails, SaveFails
<1> QED BY <1>1, <1>2, <1>3

LEMMA InsertIs ==
    ASSUME TableOK, NEW n \in Names, NEW c \in BOOLEAN, NEW def \in Defs, NEW b \in BOOLEAN,
           InsertBootTool(n, c, def, b)
    PROVE  /\ TableOK'
           /\ ids'[n] = ids[n] + 1 /\ tool'[n] \in Row /\ tool'[n].id = ids[n] + 1
           /\ ~tool'[n].enabled
           /\ \A m \in Names \ {n} : tool'[m] = tool[m] /\ ids'[m] = ids[m]
           /\ odd' = odd /\ gone' = gone
<1>1. ids[n] < MaxId /\ ids[n] \in Nat
  BY DEF InsertBootTool, TableOK
<1>2. ids' = [ids EXCEPT ![n] = @ + 1] /\ ids[n] + 1 \in 0..MaxId /\ odd' = odd /\ gone' = gone
  BY <1>1, BootToolsAssumption DEF InsertBootTool
<1>3. ids' \in [Names -> 0..MaxId] /\ ids'[n] = ids[n] + 1
      /\ \A m \in Names \ {n} : ids'[m] = ids[m]
  BY <1>2 DEF TableOK
<1>4. tool' = [tool EXCEPT ![n] = NewRow(n, c, def, b)]
  BY DEF InsertBootTool
<1>5. tool' \in [Names -> Row \cup {None}] /\ tool'[n] = NewRow(n, c, def, b)
      /\ \A m \in Names \ {n} : tool'[m] = tool[m]
  BY <1>1, <1>4, NewRowTyped DEF TableOK
<1>6. TableOK'
  BY <1>2, <1>3, <1>5 DEF TableOK
<1> QED BY <1>1, <1>2, <1>3, <1>5, <1>6, NewRowTyped

-----------------------------------------------------------------------------
(* The steps of a download, as far as it is concerned.                     *)

\* Every step of download d leaves the others alone; this one ends, or goes
\* on with the same tool.
Moved(d, pc) ==
    /\ \A e \in Slots \ {d} : dl'[e] = dl[e]
    /\ dl'[d].pc = pc /\ dl'[d].n = dl[d].n

Ended(d) == (\A e \in Slots \ {d} : dl'[e] = dl[e]) /\ dl'[d] = NoDownload

LEMMA EndIs ==
    ASSUME DlOK, NEW d \in Slots, End(d)
    PROVE  DlOK' /\ Ended(d)
BY EndStep DEF Ended

LEMMA DownloadToolIs ==
    ASSUME Types, NEW d \in Slots, DownloadTool(d)
    PROVE  /\ DlOK'
           /\ \A e \in Slots \ {d} : dl'[e] = dl[e]
           /\ dl[d].pc = "idle" /\ dl'[d].pc = "start"
<1>1. PICK n \in Names : dl' = [dl EXCEPT ![d] = [NoDownload EXCEPT !.pc = "start", !.n = n]]
  BY DEF DownloadTool
<1> DEFINE q == [NoDownload EXCEPT !.pc = "start", !.n = n]
<1>2. q \in Download /\ q.pc = "start" /\ q.n = n
  BY DEF Download, NoDownload
<1>3. dl[d].pc = "idle" /\ dl' = [dl EXCEPT ![d] = q]
  BY <1>1 DEF DownloadTool, Running
<1> HIDE DEF q
<1>4. DlKnows(q)
  BY <1>2 DEF DlKnows, Active
<1> QED BY <1>2, <1>3, <1>4, DlStep DEF Types

LEMMA DownloadStartIs ==
    ASSUME Types, NEW d \in Slots, DownloadStart(d)
    PROVE  /\ DlOK' /\ dl[d].pc = "start"
           /\ Ended(d) \/ (Moved(d, "connect") /\ Exists(dl[d].n))
<1> DEFINE n == dl[d].n
           def == IF builtIn[n] # None THEN builtIn[n] ELSE tool[n].def
           def2 == [def EXCEPT !.url = tool[n].def.url]
<1>1. dl[d] \in Download /\ dl[d].pc = "start" /\ n \in Names
  BY DEF Types, DlOK, DlKnows, DownloadStart
<1>2. CASE End(d)
  BY <1>1, <1>2, EndIs DEF Types
<1>3. CASE /\ Exists(n)
           /\ dl' = [dl EXCEPT ![d].pc = "connect", ![d].def = def2]
  <2>1. tool[n] \in Row
    BY <1>1, <1>3, RowTyped DEF Types
  <2>2. def \in Def /\ tool[n].def.url \in Urls
    <3>1. tool[n].def \in Def
      BY <2>1 DEF Row
    <3>2. builtIn[n] # None => builtIn[n] \in Def
      BY <1>1, BootToolsAssumption DEF Types, RestOK
    <3> QED BY <3>1, <3>2 DEF Def
  <2>3. def2 \in Def
    BY <2>2 DEF Def
  <2> DEFINE q == [dl[d] EXCEPT !.pc = "connect", !.def = def2]
  <2>4. dl' = [dl EXCEPT ![d] = q]
    BY <1>3 DEF Types, DlOK
  <2> HIDE DEF def2, def
  <2>5. q \in Download /\ q.pc = "connect" /\ q.n = n /\ q.def = def2
    BY <1>1, <2>3 DEF Download
  <2> HIDE DEF q
  <2>6. DlKnows(q)
    BY <1>1, <2>3, <2>5 DEF DlKnows
  <2> QED BY <1>1, <1>3, <2>4, <2>5, <2>6, DlStep DEF Moved, Types
<1> QED BY <1>2, <1>3 DEF DownloadStart

LEMMA DownloadConnectIs ==
    ASSUME Types, NEW d \in Slots, DownloadConnect(d)
    PROVE  /\ DlOK' /\ dl[d].pc = "connect"
           /\ \/ Ended(d) /\ progress' = progress
              \/ Ended(d) /\ SetProgress(dl[d].n, "error")
              \/ Moved(d, "copy") /\ SetProgress(dl[d].n, "downloading")
<1>1. dl[d] \in Download /\ dl[d].pc = "connect" /\ DlKnows(dl[d])
  BY DEF Types, DlOK, DownloadConnect
<1>2. CASE End(d) /\ (progress' = progress \/ SetProgress(dl[d].n, "error"))
  BY <1>1, <1>2, EndIs DEF Types
<1>3. CASE dl' = [dl EXCEPT ![d].pc = "copy"] /\ SetProgress(dl[d].n, "downloading")
  <2> DEFINE q == [dl[d] EXCEPT !.pc = "copy"]
  <2>1. dl' = [dl EXCEPT ![d] = q]
    BY <1>3 DEF Types, DlOK
  <2>2. q \in Download /\ q.pc = "copy" /\ q.n = dl[d].n /\ q.def = dl[d].def
    BY <1>1 DEF Download
  <2> HIDE DEF q
  <2>3. DlKnows(q)
    BY <1>1, <2>2 DEF DlKnows, Active
  <2> QED BY <1>1, <1>3, <2>1, <2>2, <2>3, DlStep DEF Moved, Types
<1> QED BY <1>2, <1>3 DEF DownloadConnect

LEMMA DownloadCopyIs ==
    ASSUME Types, NEW d \in Slots, DownloadCopy(d)
    PROVE  /\ DlOK' /\ dl[d].pc = "copy"
           /\ \/ Ended(d) /\ SetProgress(dl[d].n, "error")
              \/ Moved(d, "extract") /\ SetProgress(dl[d].n, "extracting")
<1>1. dl[d] \in Download /\ dl[d].pc = "copy" /\ DlKnows(dl[d]) /\ dl[d].def \in Def
  BY DEF Types, DlOK, DownloadCopy, DlKnows, Active
<1>2. CASE End(d) /\ SetProgress(dl[d].n, "error")
  BY <1>1, <1>2, EndIs DEF Types
<1>3. CASE /\ dl' = [dl EXCEPT ![d].pc = "extract", ![d].todo = Contents(dl[d].def)]
           /\ SetProgress(dl[d].n, "extracting")
  <2> DEFINE t == Contents(dl[d].def)
             q == [dl[d] EXCEPT !.pc = "extract", !.todo = t]
  <2>1. dl' = [dl EXCEPT ![d] = q]
    BY <1>3 DEF Types, DlOK
  <2>2. t \in SUBSET Paths
    BY <1>1, BootToolsAssumption DEF Contents, Def
  <2> HIDE DEF t
  <2>3. q \in Download /\ q.pc = "extract" /\ q.n = dl[d].n /\ q.def = dl[d].def
    BY <1>1, <2>2 DEF Download
  <2> HIDE DEF q
  <2>4. DlKnows(q)
    BY <1>1, <2>3 DEF DlKnows, Active
  <2> QED BY <1>1, <1>3, <2>1, <2>3, <2>4, DlStep DEF Moved, Types
<1> QED BY <1>2, <1>3 DEF DownloadCopy

\* Files that are there stay there while a tool is extracted.
Fuller ==
    /\ disk' \in [Names -> Files]
    /\ \A n \in Names, p \in Paths : disk[n][p] # "absent" => disk'[n][p] # "absent"

LEMMA ExtractOpenIs ==
    ASSUME Types, NEW d \in Slots, ExtractOpen(d)
    PROVE  /\ DlOK' /\ dl[d].pc = "extract" /\ Fuller
           /\ \/ Moved(d, "write") /\ progress' = progress
              \/ Ended(d) /\ SetProgress(dl[d].n, "error")
<1>0. CASE End(d) /\ SetProgress(dl[d].n, "error") /\ UNCHANGED disk
  BY <1>0, EndIs DEF ExtractOpen, Types, Fuller, RestOK
<1> SUFFICES ASSUME /\ \E p \in dl[d].todo :
                          /\ disk' = [disk EXCEPT ![dl[d].n][p] = "partial"]
                          /\ dl' = [dl EXCEPT ![d].pc = "write", ![d].todo = @ \ {p}, ![d].file = p]
                    /\ progress' = progress
             PROVE  DlOK' /\ dl[d].pc = "extract" /\ Fuller /\ Moved(d, "write")
  BY <1>0 DEF ExtractOpen
<1>1. dl[d] \in Download /\ dl[d].pc = "extract" /\ DlKnows(dl[d]) /\ dl[d].n \in Names
      /\ dl[d].todo \subseteq Paths
  BY DEF Types, DlOK, ExtractOpen, DlKnows, Active, Download
<1>2. PICK p \in dl[d].todo :
         /\ disk' = [disk EXCEPT ![dl[d].n][p] = "partial"]
         /\ dl' = [dl EXCEPT ![d].pc = "write", ![d].todo = @ \ {p}, ![d].file = p]
  OBVIOUS
<1> DEFINE t == dl[d].todo \ {p}
           q == [dl[d] EXCEPT !.pc = "write", !.todo = t, !.file = p]
<1>3. dl' = [dl EXCEPT ![d] = q]
  BY <1>2 DEF Types, DlOK
<1>4. p \in Paths /\ t \in SUBSET Paths
  BY <1>1
<1> HIDE DEF t
<1>5. q \in Download /\ q.pc = "write" /\ q.n = dl[d].n /\ q.def = dl[d].def /\ q.file = p
  BY <1>1, <1>4 DEF Download
<1> HIDE DEF q
<1>6. DlKnows(q)
  BY <1>1, <1>4, <1>5 DEF DlKnows, Active
<1>7. Fuller
  BY <1>1, <1>2, <1>4 DEF Fuller, Types, RestOK, Files
<1> QED BY <1>1, <1>3, <1>5, <1>6, <1>7, DlStep DEF Moved, Types

LEMMA ExtractWriteIs ==
    ASSUME Types, NEW d \in Slots, ExtractWrite(d)
    PROVE  /\ DlOK' /\ dl[d].pc = "write" /\ Fuller
           /\ \/ Moved(d, "extract") /\ progress' = progress
              \/ Ended(d) /\ SetProgress(dl[d].n, "error")
<1> DEFINE n == dl[d].n  p == dl[d].file
<1>1. dl[d] \in Download /\ dl[d].pc = "write" /\ DlKnows(dl[d]) /\ n \in Names /\ p \in Paths
  BY DEF Types, DlOK, ExtractWrite, DlKnows, Active
<1>2. CASE End(d) /\ SetProgress(n, "error") /\ UNCHANGED disk
  BY <1>1, <1>2, EndIs DEF Types, Fuller, RestOK
<1>3. CASE /\ dl' = [dl EXCEPT ![d].pc = "extract"]
           /\ disk' = [disk EXCEPT ![n][p] = IF @ = "absent" THEN @ ELSE "whole"]
           /\ progress' = progress
  <2> DEFINE q == [dl[d] EXCEPT !.pc = "extract"]
  <2>1. dl' = [dl EXCEPT ![d] = q]
    BY <1>3 DEF Types, DlOK
  <2>2. q \in Download /\ q.pc = "extract" /\ q.n = n /\ q.def = dl[d].def
    BY <1>1 DEF Download
  <2> HIDE DEF q
  <2>3. DlKnows(q)
    BY <1>1, <2>2 DEF DlKnows, Active
  <2>4. Fuller
    BY <1>1, <1>3 DEF Fuller, Types, RestOK, Files
  <2> QED BY <1>1, <1>3, <2>1, <2>2, <2>3, <2>4, DlStep DEF Moved, Types
<1> QED BY <1>2, <1>3 DEF ExtractWrite

LEMMA DownloadGetIs ==
    ASSUME Types, NEW d \in Slots, DownloadGet(d)
    PROVE  /\ DlOK' /\ dl[d].pc = "extract"
           /\ \/ Ended(d) /\ EndUnreported(d)
              \/ /\ Moved(d, "save") /\ Exists(dl[d].n) /\ UNCHANGED <<table, progress>>
                 /\ dl'[d].row = tool[dl[d].n]
<1> DEFINE n == dl[d].n
<1>1. dl[d] \in Download /\ dl[d].pc = "extract" /\ DlKnows(dl[d]) /\ n \in Names
  BY DEF Types, DlOK, DownloadGet, DlKnows, Active
<1>2. CASE EndUnreported(d)
  BY <1>1, <1>2, EndIs DEF Types, EndUnreported
<1>3. CASE /\ Exists(n) /\ UNCHANGED <<table, progress>>
           /\ dl' = [dl EXCEPT ![d].pc = "save", ![d].row = tool[n]]
  <2> DEFINE q == [dl[d] EXCEPT !.pc = "save", !.row = tool[n]]
  <2>1. dl' = [dl EXCEPT ![d] = q]
    BY <1>3 DEF Types, DlOK
  <2>2. tool[n] \in Row
    BY <1>1, <1>3, RowTyped DEF Types
  <2>3. q \in Download /\ q.pc = "save" /\ q.n = n /\ q.def = dl[d].def /\ q.row = tool[n]
    BY <1>1, <2>2 DEF Download
  <2> HIDE DEF q
  <2>4. DlKnows(q)
    BY <1>1, <2>2, <2>3 DEF DlKnows, Active
  <2> QED BY <1>1, <1>3, <2>1, <2>3, <2>4, DlStep DEF Moved, Types
<1> QED BY <1>2, <1>3 DEF DownloadGet

LEMMA UnreportedIs ==
    ASSUME Types, NEW d \in Slots, Running(d), EndUnreported(d)
    PROVE  /\ DlOK' /\ TableOK' /\ Ended(d) /\ dl[d].n \in Names
           /\ UNCHANGED <<tool, ids, odd, progress>> /\ gone' = gone \cup {dl[d].n}
<1>1. dl[d].n \in Names
  BY DEF Types, DlOK, DlKnows, Running
<1>2. UNCHANGED <<tool, ids, odd, progress>> /\ gone' = gone \cup {dl[d].n}
  BY DEF EndUnreported
<1>3. TableOK'
  BY <1>1, <1>2 DEF Types, TableOK
<1> QED BY <1>1, <1>2, <1>3, EndIs DEF EndUnreported, Types

\* The row that a download saves.
LEMMA MarkDownloadedIs ==
    ASSUME Types, NEW d \in Slots, dl[d].pc = "save", MarkDownloaded(d)
    PROVE  /\ DlOK' /\ TableOK' /\ dl[d].pc = "save" /\ Ended(d)
           /\ dl[d].n \in Names /\ dl[d].row \in Row
           /\ LET n == dl[d].n  row == dl[d].row IN
              /\ tool'[n] = IF Exists(n) /\ tool[n].id # row.id THEN tool[n]
                            ELSE [row EXCEPT !.downloaded = TRUE]
              /\ tool'[n] \in Row
              /\ \A m \in Names \ {n} : tool'[m] = tool[m]
              /\ odd \subseteq odd'
              /\ n \notin odd' => /\ tool[n] = row
                                  /\ tool[n].enabled /\ GetDefinition(n, builtIn) # None
                                        => IsDownloaded(n, builtIn)
<1> DEFINE n == dl[d].n  row == dl[d].row  new == [row EXCEPT !.downloaded = TRUE]
<1>1. dl[d] \in Download /\ dl[d].pc = "save" /\ n \in Names /\ row \in Row /\ End(d)
  BY DEF Types, DlOK, MarkDownloaded, DlKnows, Active
<1>2. new \in Row /\ new.id = row.id
  BY <1>1 DEF Row
<1>3. tool' = Stored(n, new) /\ ids' = ids /\ gone' = gone
  BY DEF MarkDownloaded
<1>4. odd' = odd \/ odd' = odd \cup {n}
  BY DEF MarkDownloaded
<1>5. n \notin odd' => /\ tool[n] = row
                       /\ tool[n].enabled /\ GetDefinition(n, builtIn) # None
                             => IsDownloaded(n, builtIn)
  BY DEF MarkDownloaded
<1> HIDE DEF new
<1>6. /\ tool' \in [Names -> Row \cup {None}]
      /\ tool'[n] = IF Exists(n) /\ tool[n].id # new.id THEN tool[n] ELSE new
      /\ \A m \in Names \ {n} : tool'[m] = tool[m]
      /\ tool'[n] \in Row
  BY <1>1, <1>2, <1>3, StoredIs DEF Types
<1>7. TableOK'
  BY <1>1, <1>3, <1>4, <1>6 DEF Types, TableOK
<1>8. DlOK' /\ Ended(d)
  BY <1>1, EndIs DEF Types
<1>9. tool'[n] = IF Exists(n) /\ tool[n].id # row.id THEN tool[n] ELSE new
  BY <1>2, <1>6
<1> QED BY <1>1, <1>4, <1>5, <1>6, <1>7, <1>8, <1>9 DEF new

-----------------------------------------------------------------------------
(* The steps of a request, as far as it and the table are concerned.       *)

Others(r) == \A s \in Requests \ {r} : req'[s] = req[s]

LEMMA ThenSaveIs ==
    ASSUME Types, NEW r \in Requests, NEW n \in Names, Exists(n), NEW new \in Row,
           new.id = tool[n].id, new.custom = tool[n].custom, ThenSave(r, n, new)
    PROVE  /\ ReqOK' /\ Others(r)
           /\ req'[r].pc = "save" /\ req'[r].n = n /\ req'[r].row = tool[n]
           /\ req'[r].new = new
<1> DEFINE q == [Idle EXCEPT !.pc = "save", !.n = n, !.row = tool[n], !.new = new]
<1>1. tool[n] \in Row
  BY RowTyped DEF Types
<1>2. q \in Request /\ q.pc = "save" /\ q.n = n /\ q.row = tool[n] /\ q.new = new
  BY <1>1, IdleTyped DEF Request, Idle
<1>3. req' = [req EXCEPT ![r] = q]
  BY DEF ThenSave
<1> HIDE DEF q
<1>4. ReqKnows(q)
  BY <1>1, <1>2 DEF ReqKnows
<1> QED BY <1>2, <1>3, <1>4, ReqStep DEF Types, Others

LEMMA ToggleToolIs ==
    ASSUME Types, NEW r \in Requests, ToggleTool(r)
    PROVE  /\ ReqOK' /\ Others(r) /\ req[r] = Idle
           /\ req'[r].pc = "save" /\ req'[r].n \in Names
           /\ Exists(req'[r].n) /\ req'[r].row = tool[req'[r].n]
<1>1. PICK n \in Names, e \in BOOLEAN :
         Exists(n) /\ ThenSave(r, n, [tool[n] EXCEPT !.enabled = e])
  BY DEF ToggleTool
<1> DEFINE new == [tool[n] EXCEPT !.enabled = e]
<1>2. tool[n] \in Row
  BY <1>1, RowTyped DEF Types
<1>3. new \in Row /\ new.id = tool[n].id /\ new.custom = tool[n].custom
  BY <1>2 DEF Row
<1>4. ThenSave(r, n, new) /\ req[r] = Idle
  BY <1>1 DEF ToggleTool
<1> HIDE DEF new
<1> QED BY <1>1, <1>3, <1>4, ThenSaveIs

LEMMA UpdateToolURLIs ==
    ASSUME Types, NEW r \in Requests, UpdateToolURL(r)
    PROVE  /\ ReqOK' /\ Others(r) /\ req[r] = Idle
           /\ req'[r].pc = "save" /\ req'[r].n \in Names
           /\ Exists(req'[r].n) /\ req'[r].row = tool[req'[r].n]
<1>1. PICK n \in Names, u \in Urls :
         Exists(n) /\ ThenSave(r, n, [tool[n] EXCEPT !.def.url = u])
  BY DEF UpdateToolURL
<1> DEFINE new == [tool[n] EXCEPT !.def.url = u]
<1>2. tool[n] \in Row
  BY <1>1, RowTyped DEF Types
<1>3. new \in Row /\ new.id = tool[n].id /\ new.custom = tool[n].custom
  BY <1>2 DEF Row, Def
<1>4. ThenSave(r, n, new) /\ req[r] = Idle
  BY <1>1 DEF UpdateToolURL
<1> HIDE DEF new
<1> QED BY <1>1, <1>3, <1>4, ThenSaveIs

LEMMA DeleteToolIs ==
    ASSUME Types, NEW r \in Requests, DeleteTool(r)
    PROVE  ReqOK' /\ Others(r) /\ req[r] = Idle /\ req'[r].pc = "remove"
<1>1. PICK n \in Names, c \in BOOLEAN :
         req' = [req EXCEPT ![r] = [Idle EXCEPT !.pc = "remove", !.n = n, !.custom = c]]
  BY DEF DeleteTool
<1> DEFINE q == [Idle EXCEPT !.pc = "remove", !.n = n, !.custom = c]
<1>2. q \in Request /\ q.pc = "remove" /\ q.n = n
  BY IdleTyped DEF Request, Idle
<1>3. req' = [req EXCEPT ![r] = q] /\ req[r] = Idle
  BY <1>1 DEF DeleteTool
<1> HIDE DEF q
<1>4. ReqKnows(q)
  BY <1>2 DEF ReqKnows
<1> QED BY <1>2, <1>3, <1>4, ReqStep DEF Types, Others

LEMMA DropIs ==
    ASSUME Types, NEW r \in Requests, req[r].n \in Names,
           req' = [req EXCEPT ![r].pc = "drop"] \/ Done(r)
    PROVE  ReqOK' /\ Others(r) /\ req'[r].pc \in {"drop", "idle"}
<1>1. CASE Done(r)
  BY <1>1, DoneStep, IdleTyped DEF Types, Others
<1>2. CASE req' = [req EXCEPT ![r].pc = "drop"]
  <2> DEFINE q == [req[r] EXCEPT !.pc = "drop"]
  <2>1. req' = [req EXCEPT ![r] = q] /\ req[r] \in Request
    BY <1>2 DEF Types, ReqOK
  <2>2. q \in Request /\ q.pc = "drop" /\ q.n = req[r].n
    BY <2>1 DEF Request
  <2> HIDE DEF q
  <2>3. ReqKnows(q)
    BY <2>2 DEF ReqKnows
  <2> QED BY <2>1, <2>2, <2>3, ReqStep DEF Types, Others
<1> QED BY <1>1, <1>2

\* The files of one tool go, all of them or, on an error, some.
LEMMA RemoveFilesIs ==
    ASSUME Types, NEW r \in Requests, RemoveFiles(r)
    PROVE  /\ ReqOK' /\ TableOK' /\ Others(r) /\ req[r].pc = "remove" /\ req[r].n \in Names
           /\ disk' \in [Names -> Files]
           /\ \A m \in Names \ {req[r].n} : disk'[m] = disk[m]
           /\ \/ req'[r].pc = "clear" /\ req'[r].n = req[r].n /\ UNCHANGED table
              \/ req'[r].pc \in {"drop", "idle"} /\ GetFails(req[r].n)
<1> DEFINE n == req[r].n
           q == [req[r] EXCEPT !.pc = "clear"]
<1>1. req[r] \in Request /\ req[r].pc = "remove" /\ n \in Names
  BY DEF Types, ReqOK, ReqKnows, RemoveFiles
<1>2. q \in Request /\ q.pc = "clear" /\ q.n = n
  BY <1>1 DEF Request
<1>3. CASE /\ disk' = [disk EXCEPT ![n] = Empty]
           /\ req' = [req EXCEPT ![r].pc = "clear"]
           /\ UNCHANGED table
  <2>1. req' = [req EXCEPT ![r] = q]
    BY <1>3 DEF Types, ReqOK
  <2>2. Empty \in Files
    BY DEF Empty, Files
  <2> HIDE DEF q
  <2>3. ReqKnows(q)
    BY <1>1, <1>2 DEF ReqKnows
  <2>4. disk' \in [Names -> Files] /\ \A m \in Names \ {n} : disk'[m] = disk[m]
    BY <1>1, <1>3, <2>2 DEF Types, RestOK
  <2>5. TableOK'
    BY <1>3 DEF table, Types, TableOK
  <2> QED BY <1>1, <1>2, <1>3, <2>1, <2>3, <2>4, <2>5, ReqStep DEF Types, Others
<1>4. ASSUME NEW removed \in SUBSET Paths,
             disk' = [disk EXCEPT ![n] =
                        [p \in Paths |-> IF p \in removed THEN "absent" ELSE disk[n][p]]],
             GetFails(n), Deleted(r)
      PROVE  /\ ReqOK' /\ TableOK' /\ Others(r) /\ req'[r].pc \in {"drop", "idle"}
             /\ disk' \in [Names -> Files]
             /\ \A m \in Names \ {n} : disk'[m] = disk[m]
  <2> DEFINE left == [p \in Paths |-> IF p \in removed THEN "absent" ELSE disk[n][p]]
  <2>1. disk[n] \in Files
    BY <1>1 DEF Types, RestOK
  <2>2. left \in Files
    BY <2>1 DEF Files
  <2>3. disk' = [disk EXCEPT ![n] = left]
    BY <1>4
  <2> HIDE DEF left
  <2>4. disk' \in [Names -> Files] /\ \A m \in Names \ {n} : disk'[m] = disk[m]
    BY <1>1, <2>2, <2>3 DEF Types, RestOK
  <2>5. req' = [req EXCEPT ![r].pc = "drop"] \/ Done(r)
    BY <1>4 DEF Deleted
  <2>6. TableOK'
    BY <1>1, <1>4, FailIs DEF Types
  <2> QED BY <1>1, <2>4, <2>5, <2>6, DropIs
<1> HIDE DEF q
<1> QED BY <1>1, <1>3, <1>4 DEF RemoveFiles

LEMMA ClearFlagsIs ==
    ASSUME Types, NEW r \in Requests, ClearFlags(r)
    PROVE  /\ ReqOK' /\ TableOK' /\ Others(r) /\ req[r].pc = "clear" /\ req[r].n \in Names
           /\ \/ /\ Exists(req[r].n) /\ UNCHANGED table
                 /\ req'[r].pc = "save" /\ req'[r].n = req[r].n
                 /\ req'[r].row = tool[req[r].n] /\ ~req'[r].new.downloaded
              \/ GetFails(req[r].n) /\ req'[r].pc \in {"drop", "idle"}
<1> DEFINE n == req[r].n
<1>1. req[r] \in Request /\ req[r].pc = "clear" /\ n \in Names
  BY DEF Types, ReqOK, ReqKnows, ClearFlags
<1>2. CASE /\ Exists(n) /\ UNCHANGED table
           /\ req' = [req EXCEPT ![r].pc = "save", ![r].row = tool[n],
                        ![r].new = [tool[n] EXCEPT !.downloaded = FALSE, !.enabled = FALSE]]
  <2> DEFINE new == [tool[n] EXCEPT !.downloaded = FALSE, !.enabled = FALSE]
             q == [req[r] EXCEPT !.pc = "save", !.row = tool[n], !.new = new]
  <2>0. TableOK'
    BY <1>2 DEF table, Types, TableOK
  <2>1. req' = [req EXCEPT ![r] = q]
    BY <1>2 DEF Types, ReqOK
  <2>2. tool[n] \in Row
    BY <1>1, <1>2, RowTyped DEF Types
  <2>3. new \in Row /\ new.id = tool[n].id /\ new.custom = tool[n].custom /\ ~new.downloaded
    BY <2>2 DEF Row
  <2> HIDE DEF new
  <2>4. q \in Request /\ q.pc = "save" /\ q.n = n /\ q.row = tool[n] /\ q.new = new
    BY <1>1, <2>2, <2>3 DEF Request
  <2> HIDE DEF q
  <2>5. ReqKnows(q)
    BY <1>1, <2>2, <2>3, <2>4 DEF ReqKnows
  <2> QED BY <1>1, <1>2, <2>0, <2>1, <2>3, <2>4, <2>5, ReqStep DEF Types, Others
<1>3. CASE GetFails(n) /\ Deleted(r)
  <2>1. TableOK'
    BY <1>1, <1>3, FailIs DEF Types
  <2> QED BY <1>1, <1>3, <2>1, DropIs DEF Deleted
<1> QED BY <1>1, <1>2, <1>3 DEF ClearFlags

LEMMA SaveToolIs ==
    ASSUME Types, NEW r \in Requests, SaveTool(r)
    PROVE  /\ ReqOK' /\ Others(r) /\ req[r].pc = "save" /\ req[r].n \in Names
           /\ req[r].row \in Row /\ req[r].new \in Row
           /\ req[r].new.id = req[r].row.id /\ req[r].new.custom = req[r].row.custom
           /\ req'[r].pc \in {"drop", "idle"}
           /\ \/ SaveBootTool(req[r].n, req[r].row, req[r].new)
              \/ SaveFails(req[r].n, req[r].new)
<1>1. /\ req[r].pc = "save" /\ req[r].n \in Names
      /\ req[r].row \in Row /\ req[r].new \in Row
      /\ req[r].new.id = req[r].row.id /\ req[r].new.custom = req[r].row.custom
  BY DEF Types, ReqOK, ReqKnows, SaveTool
<1>2. req' = [req EXCEPT ![r].pc = "drop"] \/ Done(r)
  BY DEF SaveTool, Deleted
<1>3. SaveBootTool(req[r].n, req[r].row, req[r].new) \/ SaveFails(req[r].n, req[r].new)
  BY DEF SaveTool
<1> QED BY <1>1, <1>2, <1>3, DropIs

LEMMA DeleteCustomToolIs ==
    ASSUME Types, NEW r \in Requests, DeleteCustomTool(r)
    PROVE  /\ ReqOK' /\ Others(r) /\ req'[r] = Idle /\ TableOK'
           /\ req[r].n \in Names /\ gone \subseteq gone' /\ ids' = ids /\ odd' = odd
           /\ req[r].pc = "drop"
           /\ UNCHANGED table \/ (tool'[req[r].n] = None /\ req[r].n \in gone')
           /\ \A m \in Names \ {req[r].n} : tool'[m] = tool[m]
<1>1. req[r].pc = "drop" /\ req[r].n \in Names
  BY DEF Types, ReqOK, ReqKnows, DeleteCustomTool
<1>2. ReqOK' /\ Others(r) /\ req'[r] = Idle
  BY DoneStep DEF DeleteCustomTool, Types, Others
<1>3. CASE UNCHANGED table
  BY <1>1, <1>2, <1>3 DEF table, Types, TableOK
<1>4. CASE DeleteBootTool(req[r].n)
  <2>1. /\ tool' = [tool EXCEPT ![req[r].n] = None] /\ gone' = gone \cup {req[r].n}
        /\ ids' = ids /\ odd' = odd
    BY <1>4 DEF DeleteBootTool
  <2>2. TableOK'
    BY <1>1, <2>1 DEF Types, TableOK
  <2> QED BY <1>1, <1>2, <2>1, <2>2 DEF Types, TableOK
<1> QED BY <1>3, <1>4 DEF DeleteCustomTool

LEMMA UpdateFromRemoteIs ==
    ASSUME Types, NEW r \in Requests, UpdateFromRemote(r)
    PROVE  /\ ReqOK' /\ Others(r) /\ req[r] = Idle
           /\ req'[r].pc = "apply" /\ req'[r].todo = builtIn'
           /\ builtIn' \in [Names -> Defs \cup {None}]
<1>1. PICK m \in Manifests :
         /\ builtIn' = m
         /\ req' = [req EXCEPT ![r] = [Idle EXCEPT !.pc = "apply", !.todo = m]]
  BY DEF UpdateFromRemote
<1> DEFINE q == [Idle EXCEPT !.pc = "apply", !.todo = m]
<1>2. q \in Request /\ q.pc = "apply" /\ q.todo = m
  BY IdleTyped DEF Request, Idle, Manifests
<1>3. req' = [req EXCEPT ![r] = q] /\ req[r] = Idle
  BY <1>1 DEF UpdateFromRemote
<1> HIDE DEF q
<1>4. ReqKnows(q)
  BY <1>2 DEF ReqKnows
<1> QED BY <1>1, <1>2, <1>3, <1>4, ReqStep DEF Types, Others, Manifests

\* A definition is inserted or read to be saved, or none is left.
LEMMA ApplyManifestIs ==
    ASSUME Types, NEW r \in Requests, ApplyManifest(r)
    PROVE  /\ ReqOK' /\ Others(r) /\ req[r].pc = "apply"
           /\ \/ \E n \in Names :
                 LET rest == [req[r].todo EXCEPT ![n] = None] IN
                 \/ \E def \in Defs :
                       /\ ~Exists(n)
                       /\ InsertBootTool(n, FALSE, def, IsDownloaded(n, builtIn))
                       /\ req'[r].pc = "apply" /\ req'[r].todo = rest
                 \/ /\ GetFails(n)
                    /\ req'[r].pc = "apply" /\ req'[r].todo = rest
                 \/ /\ Exists(n) /\ UNCHANGED table
                    /\ req'[r].pc = "applySave" /\ req'[r].n = n /\ req'[r].row = tool[n]
                    /\ ~tool[n].custom => req'[r].new.downloaded = IsDownloaded(n, builtIn)
                    /\ req'[r].todo = rest
              \/ Named(req[r].todo) = {} /\ req'[r] = Idle /\ UNCHANGED table
<1>1. /\ req[r] \in Request /\ req[r].pc = "apply"
      /\ req[r].todo \in [Names -> Defs \cup {None}]
  BY DEF Types, ReqOK, ApplyManifest, Request
<1>2. CASE Named(req[r].todo) = {} /\ Done(r) /\ UNCHANGED table
  BY <1>1, <1>2, DoneStep DEF Types, Others
<1>3. ASSUME NEW n \in Named(req[r].todo),
             req' = [req EXCEPT ![r].todo = [req[r].todo EXCEPT ![n] = None]]
      PROVE  /\ ReqOK' /\ Others(r)
             /\ n \in Names /\ req[r].todo[n] \in Defs
             /\ req'[r].pc = "apply" /\ req'[r].todo = [req[r].todo EXCEPT ![n] = None]
  <2> DEFINE rest == [req[r].todo EXCEPT ![n] = None]
             q == [req[r] EXCEPT !.todo = rest]
  <2>1. n \in Names /\ req[r].todo[n] \in Defs
    BY <1>1 DEF Named
  <2>2. rest \in [Names -> Defs \cup {None}]
    BY <1>1
  <2>3. req' = [req EXCEPT ![r] = q]
    BY <1>3 DEF Types, ReqOK
  <2> HIDE DEF rest
  <2>4. q \in Request /\ q.pc = "apply" /\ q.todo = rest
    BY <1>1, <2>2 DEF Request
  <2> HIDE DEF q
  <2>5. ReqKnows(q)
    BY <2>4 DEF ReqKnows
  <2>6. ReqOK' /\ Others(r) /\ req'[r] = q
    BY <2>3, <2>4, <2>5, ReqStep DEF Types, Others
  <2> QED BY <2>1, <2>4, <2>6 DEF rest
<1>4. ASSUME NEW n \in Named(req[r].todo), Exists(n), UNCHANGED table,
             req' = [req EXCEPT ![r] = [Idle EXCEPT !.pc = "applySave", !.n = n,
                        !.row = tool[n], !.todo = [req[r].todo EXCEPT ![n] = None],
                        !.new = Applied(n, tool[n], req[r].todo[n], builtIn)]]
      PROVE  /\ ReqOK' /\ Others(r) /\ n \in Names
             /\ req'[r].pc = "applySave" /\ req'[r].n = n /\ req'[r].row = tool[n]
             /\ ~tool[n].custom => req'[r].new.downloaded = IsDownloaded(n, builtIn)
             /\ req'[r].todo = [req[r].todo EXCEPT ![n] = None]
  <2> DEFINE rest == [req[r].todo EXCEPT ![n] = None]
             new == Applied(n, tool[n], req[r].todo[n], builtIn)
             q == [Idle EXCEPT !.pc = "applySave", !.n = n, !.row = tool[n],
                               !.todo = rest, !.new = new]
  <2>1. n \in Names /\ req[r].todo[n] \in Defs /\ rest \in [Names -> Defs \cup {None}]
    BY <1>1 DEF Named
  <2>2. tool[n] \in Row
    BY <1>4, <2>1, RowTyped DEF Types
  <2>3. /\ new \in Row /\ new.id = tool[n].id /\ new.custom = tool[n].custom
        /\ ~tool[n].custom => new.downloaded = IsDownloaded(n, builtIn)
    BY <2>1, <2>2, AppliedTyped
  <2>4. req' = [req EXCEPT ![r] = q]
    BY <1>4
  <2> HIDE DEF rest, new
  <2>5. /\ q \in Request /\ q.pc = "applySave" /\ q.n = n /\ q.row = tool[n]
        /\ q.todo = rest /\ q.new = new
    BY <2>1, <2>2, <2>3, IdleTyped DEF Request, Idle
  <2> HIDE DEF q
  <2>6. ReqKnows(q)
    BY <2>1, <2>2, <2>3, <2>5 DEF ReqKnows
  <2>7. ReqOK' /\ Others(r) /\ req'[r] = q
    BY <2>4, <2>5, <2>6, ReqStep DEF Types, Others
  <2> QED BY <2>1, <2>3, <2>5, <2>7 DEF rest
<1> HIDE DEF IsDownloaded
<1> QED BY <1>1, <1>2, <1>3, <1>4 DEF ApplyManifest

LEMMA ApplySaveIs ==
    ASSUME Types, NEW r \in Requests, ApplySave(r)
    PROVE  /\ ReqOK' /\ Others(r) /\ req[r].pc = "applySave" /\ req[r].n \in Names
           /\ req[r].row \in Row /\ req[r].new \in Row
           /\ req[r].new.id = req[r].row.id /\ req[r].new.custom = req[r].row.custom
           /\ req'[r].pc = "apply" /\ req'[r].todo = req[r].todo
           /\ \/ req[r].row.custom /\ UNCHANGED table
              \/ ~req[r].row.custom /\ SaveBootTool(req[r].n, req[r].row, req[r].new)
              \/ ~req[r].row.custom /\ SaveFails(req[r].n, req[r].new)
<1>1. /\ req[r].pc = "applySave" /\ req[r].n \in Names
      /\ req[r].row \in Row /\ req[r].new \in Row
      /\ req[r].new.id = req[r].row.id /\ req[r].new.custom = req[r].row.custom
      /\ req[r].todo \in [Names -> Defs \cup {None}]
  BY DEF Types, ReqOK, ReqKnows, ApplySave, Request
<1> DEFINE q == [Idle EXCEPT !.pc = "apply", !.todo = req[r].todo]
<1>2. q \in Request /\ q.pc = "apply" /\ q.todo = req[r].todo
  BY <1>1, IdleTyped DEF Request, Idle
<1>3. req' = [req EXCEPT ![r] = q]
  BY DEF ApplySave
<1>4. \/ req[r].row.custom /\ UNCHANGED table
      \/ ~req[r].row.custom /\ SaveBootTool(req[r].n, req[r].row, req[r].new)
      \/ ~req[r].row.custom /\ SaveFails(req[r].n, req[r].new)
  BY DEF ApplySave
<1> HIDE DEF q
<1>5. ReqKnows(q)
  BY <1>2 DEF ReqKnows
<1>6. ReqOK' /\ Others(r) /\ req'[r] = q
  BY <1>2, <1>3, <1>5, ReqStep DEF Types, Others
<1> QED BY <1>1, <1>2, <1>4, <1>6

\* A start keeps every row, its key and its kind.
LEMMA SeedToolsIs ==
    ASSUME Types, NEW m \in Manifests, NEW failed \in SUBSET Named(m), SeedTools(m, failed)
    PROVE  /\ TableOK' /\ gone' = gone
           /\ builtIn' = m /\ builtIn' \in [Names -> Defs \cup {None}]
           /\ \A n \in Names :
                \/ /\ m[n] # None /\ ~Exists(n) /\ ids'[n] = ids[n] + 1
                   /\ tool'[n] \in Row /\ tool'[n].id = ids[n] + 1 /\ ~tool'[n].enabled
                \/ /\ m[n] = None \/ n \in odd' \/ ~Exists(n)
                   /\ ids'[n] = ids[n] /\ tool'[n] = tool[n]
                \/ /\ m[n] # None /\ Exists(n) /\ ids'[n] = ids[n]
                   /\ tool'[n] \in Row /\ tool'[n].id = tool[n].id
                   /\ tool'[n].custom = tool[n].custom
                   /\ ~tool[n].custom => tool'[n].downloaded = IsDownloaded(n, m)
<1> DEFINE missing == {n \in Named(m) \ failed : ~Exists(n)}
<1>1. /\ \A n \in missing : ids[n] < MaxId
      /\ ids' = [n \in Names |-> IF n \in missing THEN ids[n] + 1 ELSE ids[n]]
      /\ tool' = [n \in Names |->
            IF n \in missing THEN NewRow(n, FALSE, m[n], IsDownloaded(n, m))
            ELSE IF m[n] = None \/ n \in failed THEN tool[n] ELSE Applied(n, tool[n], m[n], m)]
      /\ builtIn' = m /\ odd' = odd \cup {n \in failed : Exists(n)} /\ gone' = gone
  BY DEF SeedTools
<1>2. m \in [Names -> Defs \cup {None}]
  BY DEF Manifests
<1>3. \A n \in Names : n \in missing <=> m[n] # None /\ ~Exists(n) /\ n \notin failed
  BY DEF Named
<1> HIDE DEF missing
<1>4. ASSUME NEW n \in Names, n \in missing
      PROVE  /\ ids'[n] = ids[n] + 1 /\ ids'[n] \in 0..MaxId
             /\ tool'[n] \in Row /\ tool'[n].id = ids[n] + 1 /\ ~tool'[n].enabled
  <2>1. ids[n] < MaxId /\ ids[n] \in 0..MaxId /\ ids'[n] = ids[n] + 1
    BY <1>1, <1>4 DEF Types, TableOK
  <2>2. tool'[n] = NewRow(n, FALSE, m[n], IsDownloaded(n, m)) /\ m[n] \in Defs
    BY <1>1, <1>2, <1>3, <1>4
  <2>3. IsDownloaded(n, m) \in BOOLEAN
    BY Downloadable
  <2>4. tool'[n] \in Row /\ tool'[n].id = ids[n] + 1 /\ ~tool'[n].enabled
    BY <2>1, <2>2, <2>3, NewRowTyped DEF Types
  <2> QED BY <2>1, <2>4, BootToolsAssumption
<1>5. ASSUME NEW n \in Names, n \notin missing, m[n] = None \/ n \in failed
      PROVE  ids'[n] = ids[n] /\ tool'[n] = tool[n]
  BY <1>1, <1>5
<1>6. ASSUME NEW n \in Names, n \notin missing, m[n] # None, n \notin failed
      PROVE  /\ Exists(n) /\ ids'[n] = ids[n]
             /\ tool'[n] \in Row /\ tool'[n].id = tool[n].id
             /\ tool'[n].custom = tool[n].custom
             /\ ~tool[n].custom => tool'[n].downloaded = IsDownloaded(n, m)
  <2>1. Exists(n) /\ m[n] \in Defs /\ ids'[n] = ids[n]
        /\ tool'[n] = Applied(n, tool[n], m[n], m)
    BY <1>1, <1>2, <1>3, <1>6
  <2>2. tool[n] \in Row
    BY <2>1, RowTyped DEF Types
  <2> QED BY <2>1, <2>2, AppliedTyped
<1>7. \A n \in Names : ids'[n] \in 0..MaxId /\ tool'[n] \in Row \cup {None}
  BY <1>4, <1>5, <1>6 DEF Types, TableOK
<1>8. tool' \in [Names -> Row \cup {None}] /\ ids' \in [Names -> 0..MaxId]
  <2>1. \E f : tool' = [n \in Names |-> f[n]]
    <3>1. tool' = [n \in Names |-> tool'[n]]
      BY <1>1
    <3> QED BY <3>1
  <2>2. ids' = [n \in Names |-> ids'[n]]
    BY <1>1
  <2> QED BY <1>7, <2>1, <2>2
<1>9. TableOK' /\ \A n \in failed : n \in odd' \/ ~Exists(n)
  <2>1. failed \subseteq Names
    BY DEF Named
  <2> QED BY <1>1, <1>8, <2>1 DEF Types, TableOK
<1>10. ASSUME NEW n \in Names
       PROVE  \/ /\ m[n] # None /\ ~Exists(n) /\ ids'[n] = ids[n] + 1
                 /\ tool'[n] \in Row /\ tool'[n].id = ids[n] + 1 /\ ~tool'[n].enabled
              \/ /\ m[n] = None \/ n \in odd' \/ ~Exists(n)
                 /\ ids'[n] = ids[n] /\ tool'[n] = tool[n]
              \/ /\ m[n] # None /\ Exists(n) /\ ids'[n] = ids[n]
                 /\ tool'[n] \in Row /\ tool'[n].id = tool[n].id
                 /\ tool'[n].custom = tool[n].custom
                 /\ ~tool[n].custom => tool'[n].downloaded = IsDownloaded(n, m)
  BY <1>3, <1>4, <1>5, <1>6, <1>9
<1> QED BY <1>1, <1>2, <1>9, <1>10

-----------------------------------------------------------------------------
(* Type correctness.                                                       *)

LEMMA ProgressStep ==
    ASSUME RestOK, NEW n \in Names,
           NEW status \in {"idle", "downloading", "extracting", "done", "error"},
           SetProgress(n, status)
    PROVE  /\ progress' \in [Names -> {"idle", "downloading", "extracting", "done", "error"}]
           /\ progress'[n] = status
           /\ \A m \in Names \ {n} : progress'[m] = progress[m]
BY DEF RestOK, SetProgress

LEMMA TypesInit == Init => Types
<1> SUFFICES ASSUME Init PROVE Types
  OBVIOUS
<1>1. DlOK
  BY IdleTyped DEF Init, DlOK, DlKnows, Active
<1>2. ReqOK
  BY IdleTyped DEF Init, ReqOK, ReqKnows
<1>3. TableOK /\ RestOK
  BY BootToolsAssumption DEF Init, TableOK, RestOK, NoManifest, Empty, Files
<1> QED BY <1>1, <1>2, <1>3 DEF Types

LEMMA TypesNext == Types /\ [Next]_vars => Types'
<1> SUFFICES ASSUME Types, [Next]_vars PROVE Types'
  OBVIOUS
<1> USE DEF table
<1>1. CASE UNCHANGED vars
  BY <1>1 DEF vars, Types, DlOK, ReqOK, TableOK, RestOK
<1>2. ASSUME NEW d \in Slots, DownloadTool(d) PROVE Types'
  BY <1>2, DownloadToolIs, BeginStep DEF DownloadTool, Types, ReqOK, TableOK, RestOK
<1>3. ASSUME NEW d \in Slots, ProgressWriter(d) PROVE Types'
  <2>1. dl[d].n \in Names
    BY <1>3 DEF ProgressWriter, Types, DlOK, DlKnows
  <2> QED BY <1>3, <2>1, ProgressStep DEF ProgressWriter, Types, DlOK, ReqOK, TableOK, RestOK
<1>4. ASSUME NEW d \in Slots, DownloadStart(d) PROVE Types'
  BY <1>4, DownloadStartIs DEF DownloadStart, Types, ReqOK, TableOK, RestOK
<1>5. ASSUME NEW d \in Slots, DownloadConnect(d) PROVE Types'
  <2>1. dl[d].n \in Names
    BY <1>5 DEF DownloadConnect, Types, DlOK, DlKnows
  <2>2. DlOK' /\ progress' \in [Names -> {"idle", "downloading", "extracting", "done", "error"}]
    BY <1>5, <2>1, DownloadConnectIs, ProgressStep DEF Types, RestOK
  <2> QED BY <1>5, <2>2 DEF DownloadConnect, Types, ReqOK, TableOK, RestOK
<1>6. ASSUME NEW d \in Slots, DownloadCopy(d) PROVE Types'
  <2>1. dl[d].n \in Names
    BY <1>6 DEF DownloadCopy, Types, DlOK, DlKnows
  <2>2. DlOK' /\ progress' \in [Names -> {"idle", "downloading", "extracting", "done", "error"}]
    BY <1>6, <2>1, DownloadCopyIs, ProgressStep DEF Types, RestOK
  <2> QED BY <1>6, <2>2 DEF DownloadCopy, Types, ReqOK, TableOK, RestOK
<1>7. ASSUME NEW d \in Slots, ExtractOpen(d) PROVE Types'
  <2>1. dl[d].n \in Names
    BY <1>7 DEF ExtractOpen, Types, DlOK, DlKnows
  <2>2. DlOK' /\ Fuller
        /\ progress' \in [Names -> {"idle", "downloading", "extracting", "done", "error"}]
    BY <1>7, <2>1, ExtractOpenIs, ProgressStep DEF Types, RestOK
  <2> QED BY <1>7, <2>2 DEF ExtractOpen, Fuller, Types, ReqOK, TableOK, RestOK
<1>8. ASSUME NEW d \in Slots, ExtractWrite(d) PROVE Types'
  <2>1. dl[d].n \in Names
    BY <1>8 DEF ExtractWrite, Types, DlOK, DlKnows
  <2>2. DlOK' /\ Fuller
        /\ progress' \in [Names -> {"idle", "downloading", "extracting", "done", "error"}]
    BY <1>8, <2>1, ExtractWriteIs, ProgressStep DEF Types, RestOK
  <2> QED BY <1>8, <2>2 DEF ExtractWrite, Fuller, Types, ReqOK, TableOK, RestOK
<1>9. ASSUME NEW d \in Slots, DownloadGet(d) PROVE Types'
  <2>1. CASE UNCHANGED <<table, progress>>
    BY <1>9, <2>1, DownloadGetIs DEF DownloadGet, Types, ReqOK, TableOK, RestOK
  <2>2. CASE EndUnreported(d)
    <3>1. Running(d)
      BY <1>9 DEF DownloadGet, Running
    <3> QED BY <1>9, <2>2, <3>1, UnreportedIs DEF DownloadGet, Types, ReqOK, RestOK
  <2> QED BY <1>9, <2>1, <2>2, DownloadGetIs
<1>10. ASSUME NEW d \in Slots, DownloadSave(d) PROVE Types'
  <2>0. CASE EndUnreported(d)
    <3>1. Running(d)
      BY <1>10 DEF DownloadSave, Running
    <3> QED BY <1>10, <2>0, <3>1, UnreportedIs DEF DownloadSave, Types, ReqOK, RestOK
  <2> SUFFICES ASSUME dl[d].pc = "save", MarkDownloaded(d) PROVE Types'
    BY <1>10, <2>0 DEF DownloadSave
  <2>1. DlOK' /\ TableOK' /\ dl[d].n \in Names
    BY MarkDownloadedIs
  <2>2. progress[dl[d].n] \in {"idle", "downloading", "extracting", "done", "error"}
    BY <2>1 DEF Types, RestOK
  <2>3. progress' \in [Names -> {"idle", "downloading", "extracting", "done", "error"}]
    BY <2>1, <2>2, ProgressStep DEF MarkDownloaded, Types
  <2> QED BY <1>10, <2>1, <2>3 DEF DownloadSave, Types, ReqOK, RestOK
<1>11. ASSUME NEW r \in Requests, ToggleTool(r) PROVE Types'
  BY <1>11, ToggleToolIs, BeginStep DEF ToggleTool, Types, DlOK, TableOK, RestOK
<1>12. ASSUME NEW r \in Requests, UpdateToolURL(r) PROVE Types'
  BY <1>12, UpdateToolURLIs, BeginStep DEF UpdateToolURL, Types, DlOK, TableOK, RestOK
<1>13. ASSUME NEW r \in Requests, CreateCustomTool(r) PROVE Types'
  <2>1. PICK n \in Names, d \in Defs : InsertBootTool(n, TRUE, d, FALSE)
    BY <1>13 DEF CreateCustomTool
  <2>2. TableOK'
    BY <2>1, InsertIs DEF Types
  <2> QED BY <1>13, <2>2, BeginStep DEF CreateCustomTool, Types, DlOK, ReqOK, RestOK
<1>14. ASSUME NEW r \in Requests, DeleteTool(r) PROVE Types'
  BY <1>14, DeleteToolIs, BeginStep DEF DeleteTool, Types, DlOK, TableOK, RestOK
<1>15. ASSUME NEW r \in Requests, RemoveFiles(r) PROVE Types'
  BY <1>15, RemoveFilesIs DEF RemoveFiles, Types, DlOK, RestOK
<1>16. ASSUME NEW r \in Requests, ClearFlags(r) PROVE Types'
  BY <1>16, ClearFlagsIs DEF ClearFlags, Types, DlOK, RestOK
<1>17. ASSUME NEW r \in Requests, SaveTool(r) PROVE Types'
  <2>1. ReqOK' /\ TableOK'
    BY <1>17, SaveToolIs, SaveIs, FailIs DEF Types
  <2> QED BY <1>17, <2>1 DEF SaveTool, Types, DlOK, RestOK
<1>18. ASSUME NEW r \in Requests, DeleteCustomTool(r) PROVE Types'
  BY <1>18, DeleteCustomToolIs DEF DeleteCustomTool, Types, DlOK, RestOK
<1>19. ASSUME NEW r \in Requests, UpdateFromRemote(r) PROVE Types'
  BY <1>19, UpdateFromRemoteIs, BeginStep DEF UpdateFromRemote, Types, DlOK, TableOK, RestOK
<1>20. ASSUME NEW r \in Requests, ApplyManifest(r) PROVE Types'
  <2>1. CASE UNCHANGED table
    <3>1. ReqOK'
      BY <1>20, ApplyManifestIs
    <3> QED BY <1>20, <2>1, <3>1 DEF ApplyManifest, Types, DlOK, TableOK, RestOK
  <2>0. ASSUME NEW n \in Names, GetFails(n) PROVE Types'
    <3>1. ReqOK' /\ TableOK'
      BY <1>20, <2>0, ApplyManifestIs, FailIs DEF Types
    <3> QED BY <1>20, <3>1 DEF ApplyManifest, Types, DlOK, RestOK
  <2>2. CASE ~UNCHANGED table /\ ~\E n \in Names : GetFails(n)
    <3>1. PICK n \in Names, def \in Defs :
             InsertBootTool(n, FALSE, def, IsDownloaded(n, builtIn))
      BY <1>20, <2>2, ApplyManifestIs
    <3>2. TableOK' /\ ReqOK'
      BY <1>20, <3>1, Downloadable, InsertIs, ApplyManifestIs DEF Types
    <3> QED BY <1>20, <3>2 DEF ApplyManifest, Types, DlOK, RestOK
  <2> QED BY <2>0, <2>1, <2>2
<1>21. ASSUME NEW r \in Requests, ApplySave(r) PROVE Types'
  <2>1. ReqOK' /\ TableOK'
    BY <1>21, ApplySaveIs, SaveIs, FailIs DEF Types, TableOK
  <2> QED BY <1>21, <2>1 DEF ApplySave, Types, DlOK, RestOK
<1>22. CASE Restart
  <2>1. PICK m \in Manifests, failed \in SUBSET Names :
           failed \in SUBSET Named(m) /\ SeedTools(m, failed)
    BY <1>22 DEF Restart, Named
  <2>2. TableOK' /\ builtIn' \in [Names -> Defs \cup {None}]
    BY <2>1, SeedToolsIs
  <2>3. DlOK'
    BY <1>22, IdleTyped DEF Restart, DlOK, DlKnows, Active
  <2>4. ReqOK'
    BY <1>22, IdleTyped DEF Restart, ReqOK, ReqKnows
  <2>5. RestOK'
    BY <1>22, <2>2, BeginStep DEF Restart, Types, RestOK
  <2> QED BY <2>2, <2>3, <2>4, <2>5 DEF Types
<1> QED
  BY <1>1, <1>2, <1>3, <1>4, <1>5, <1>6, <1>7, <1>8, <1>9, <1>10, <1>11, <1>12, <1>13,
     <1>14, <1>15, <1>16, <1>17, <1>18, <1>19, <1>20, <1>21, <1>22
     DEF Next, Handler, DownloadStep

LEMMA TypesAlways == FairSpec => []Types
BY TypesInit, TypesNext, PTL DEF FairSpec

\* Type correctness: rows are saved with the definition and the key that
\* were read for them, however downloads, handlers and manifests interleave
\* (internal/tools, the boot tool handlers).
THEOREM TypeCorrect == FairSpec => []TypeOK
BY TypesAlways, TypesAreTypeOK, PTL

-----------------------------------------------------------------------------
(* Keys of rows that were never deleted.                                   *)

\* While no row of the name was deleted there is at most one, with the first
\* key, and whoever holds a copy of it will find it there.
Keys ==
    \A n \in Names \ gone :
       /\ ids[n] = IF Exists(n) THEN 1 ELSE 0
       /\ Exists(n) => tool[n].id = 1
       /\ \A d \in Slots : dl[d].n = n /\ dl[d].pc \in Active =>
             Exists(n) /\ (dl[d].pc = "save" => dl[d].row.id = 1)
       /\ \A r \in Requests : req[r].n = n /\ req[r].pc \in {"save", "applySave"} =>
             Exists(n) /\ req[r].row.id = 1

\* A status of a download in progress belongs to one that can still end it.
Honest ==
    \A n \in Names \ gone : progress[n] \in {"downloading", "extracting"} =>
       \E d \in Slots : dl[d].n = n /\ dl[d].pc \in Active \ {"connect"}

LEMMA KeysInit == Init => Keys /\ Honest
BY IdleTyped DEF Init, Keys, Honest, Exists, Active

LEMMA KeysNext == Types /\ Keys /\ [Next]_vars => Keys'
<1> SUFFICES ASSUME Types, Keys, [Next]_vars PROVE Keys'
  OBVIOUS
<1> USE DEF table
<1>0. Types'
  BY TypesNext
\* A step of one download that reads the table at most.
<1>1. ASSUME NEW d \in Slots, UNCHANGED <<tool, ids, req>>, gone \subseteq gone',
             \A e \in Slots \ {d} : dl'[e] = dl[e],
             dl'[d].pc \in Active => /\ dl'[d].n = dl[d].n
                                     /\ dl[d].pc \in Active \/ Exists(dl[d].n)
                                     /\ dl'[d].pc = "save" => dl'[d].row = tool[dl[d].n]
      PROVE  Keys'
  BY <1>1, NoneIsNoRow DEF Keys, Exists
\* A step of one request that reads the table at most.
<1>2. ASSUME NEW r \in Requests, UNCHANGED <<tool, ids, gone, dl>>, Others(r),
             req'[r].pc \in {"save", "applySave"} =>
                Exists(req'[r].n) /\ req'[r].row = tool[req'[r].n]
      PROVE  Keys'
  BY <1>2 DEF Keys, Exists, Others
\* A save of a row that was read.
<1>3. ASSUME NEW n \in Names, NEW row \in Row, UNCHANGED <<ids, gone>>,
             \A e \in Slots : dl'[e] = dl[e] \/ dl'[e].pc = "idle",
             \A s \in Requests : req'[s] = req[s] \/ req'[s].pc \notin {"save", "applySave"},
             n \notin gone => Exists(n) /\ row.id = 1,
             tool'[n] = (IF Exists(n) /\ tool[n].id # row.id THEN tool[n] ELSE row),
             tool'[n] \in Row,
             \A m \in Names \ {n} : tool'[m] = tool[m]
      PROVE  Keys'
  <2> SUFFICES ASSUME NEW m \in Names \ gone'
               PROVE  /\ ids'[m] = IF Exists(m)' THEN 1 ELSE 0
                      /\ Exists(m)' => tool'[m].id = 1
                      /\ \A d \in Slots : dl'[d].n = m /\ dl'[d].pc \in Active =>
                            Exists(m)' /\ (dl'[d].pc = "save" => dl'[d].row.id = 1)
                      /\ \A r \in Requests : req'[r].n = m /\ req'[r].pc \in {"save", "applySave"} =>
                            Exists(m)' /\ req'[r].row.id = 1
    BY DEF Keys
  <2>1. m \in Names \ gone /\ ids' = ids
    BY <1>3
  <2>2. Exists(m)' <=> Exists(m)
    BY <1>3, <2>1, NoneIsNoRow DEF Exists
  <2>3. Exists(m)' => tool'[m].id = 1
    <3>1. CASE m = n
      BY <1>3, <2>1, <3>1 DEF Keys
    <3>2. CASE m # n
      BY <1>3, <2>1, <3>2 DEF Keys, Exists
    <3> QED BY <3>1, <3>2
  <2>4. "idle" \notin Active
    BY DEF Active
  <2> QED BY <1>3, <2>1, <2>2, <2>3, <2>4 DEF Keys
\* A row inserted where there was none.
<1>4. ASSUME NEW n \in Names, UNCHANGED <<gone, dl>>, ~Exists(n),
             \A s \in Requests : req'[s] = req[s] \/ req'[s].pc \notin {"save", "applySave"},
             ids'[n] = ids[n] + 1, tool'[n] \in Row, tool'[n].id = ids[n] + 1,
             \A m \in Names \ {n} : tool'[m] = tool[m] /\ ids'[m] = ids[m]
      PROVE  Keys'
  <2> SUFFICES ASSUME NEW m \in Names \ gone'
               PROVE  /\ ids'[m] = IF Exists(m)' THEN 1 ELSE 0
                      /\ Exists(m)' => tool'[m].id = 1
                      /\ \A d \in Slots : dl'[d].n = m /\ dl'[d].pc \in Active =>
                            Exists(m)' /\ (dl'[d].pc = "save" => dl'[d].row.id = 1)
                      /\ \A r \in Requests : req'[r].n = m /\ req'[r].pc \in {"save", "applySave"} =>
                            Exists(m)' /\ req'[r].row.id = 1
    BY DEF Keys
  <2>1. CASE m = n
    <3>1. ids[n] = 0 /\ n \notin gone
      BY <1>4, <2>1 DEF Keys
    <3>2. ids'[n] = 1 /\ tool'[n].id = 1 /\ Exists(n)'
      BY <1>4, <3>1, NoneIsNoRow DEF Exists
    <3> QED BY <1>4, <2>1, <3>1, <3>2 DEF Keys
  <2>2. CASE m # n
    <3>1. tool'[m] = tool[m] /\ ids'[m] = ids[m] /\ (Exists(m)' <=> Exists(m))
      BY <1>4, <2>2 DEF Exists
    <3> QED BY <1>4, <2>2, <3>1 DEF Keys
  <2> QED BY <2>1, <2>2
<1>5. CASE UNCHANGED vars
  BY <1>5 DEF vars, Keys, Exists
<1>6. ASSUME NEW d \in Slots, DownloadTool(d) PROVE Keys'
  BY <1>1, <1>6, DownloadToolIs DEF DownloadTool, Active
<1>7. ASSUME NEW d \in Slots, ProgressWriter(d) PROVE Keys'
  BY <1>7 DEF ProgressWriter, Keys, Exists
<1>8. ASSUME NEW d \in Slots, DownloadStart(d) PROVE Keys'
  BY <1>1, <1>8, DownloadStartIs, IdleTyped DEF DownloadStart, Moved, Ended, Active
<1>9. ASSUME NEW d \in Slots, DownloadConnect(d) PROVE Keys'
  BY <1>1, <1>9, DownloadConnectIs, IdleTyped DEF DownloadConnect, Moved, Ended, Active
<1>10. ASSUME NEW d \in Slots, DownloadCopy(d) PROVE Keys'
  BY <1>1, <1>10, DownloadCopyIs, IdleTyped DEF DownloadCopy, Moved, Ended, Active
<1>11. ASSUME NEW d \in Slots, ExtractOpen(d) PROVE Keys'
  BY <1>1, <1>11, ExtractOpenIs, IdleTyped DEF ExtractOpen, Moved, Ended, Active
<1>12. ASSUME NEW d \in Slots, ExtractWrite(d) PROVE Keys'
  BY <1>1, <1>12, ExtractWriteIs, IdleTyped DEF ExtractWrite, Moved, Ended, Active
<1>13. ASSUME NEW d \in Slots, DownloadGet(d) PROVE Keys'
  BY <1>1, <1>13, DownloadGetIs, IdleTyped DEF DownloadGet, EndUnreported, Moved, Ended, Active
<1>14. ASSUME NEW d \in Slots, DownloadSave(d) PROVE Keys'
  <2> DEFINE n == dl[d].n  row == dl[d].row  new == [row EXCEPT !.downloaded = TRUE]
  <2>0. CASE EndUnreported(d)
    <3>1. Running(d) /\ req' = req
      BY <1>14 DEF DownloadSave, Running
    <3> QED BY <1>1, <2>0, <3>1, UnreportedIs, IdleTyped DEF Ended, Active
  <2> SUFFICES ASSUME dl[d].pc = "save", MarkDownloaded(d) PROVE Keys'
    BY <1>14, <2>0 DEF DownloadSave
  <2>1. n \in Names /\ row \in Row /\ dl[d].pc = "save"
    BY MarkDownloadedIs
  <2>2. new \in Row /\ new.id = row.id
    BY <2>1 DEF Row
  <2>3. n \notin gone => Exists(n) /\ new.id = 1
    BY <2>1, <2>2 DEF Keys, Active
  <2>4. /\ tool'[n] = IF Exists(n) /\ tool[n].id # new.id THEN tool[n] ELSE new
        /\ tool'[n] \in Row /\ \A m \in Names \ {n} : tool'[m] = tool[m]
    BY <2>2, MarkDownloadedIs
  <2>5. \A e \in Slots : dl'[e] = dl[e] \/ dl'[e].pc = "idle"
    BY MarkDownloadedIs, IdleTyped DEF Ended
  <2> HIDE DEF new, row, n
  <2> QED BY <1>3, <1>14, <2>1, <2>2, <2>3, <2>4, <2>5 DEF DownloadSave, MarkDownloaded
<1>15. ASSUME NEW r \in Requests, ToggleTool(r) PROVE Keys'
  BY <1>2, <1>15, ToggleToolIs DEF ToggleTool
<1>16. ASSUME NEW r \in Requests, UpdateToolURL(r) PROVE Keys'
  BY <1>2, <1>16, UpdateToolURLIs DEF UpdateToolURL
<1>17. ASSUME NEW r \in Requests, CreateCustomTool(r) PROVE Keys'
  <2>1. PICK n \in Names, d \in Defs : ~Exists(n) /\ InsertBootTool(n, TRUE, d, FALSE)
    BY <1>17 DEF CreateCustomTool
  <2>2. /\ ids'[n] = ids[n] + 1 /\ tool'[n] \in Row /\ tool'[n].id = ids[n] + 1
        /\ \A m \in Names \ {n} : tool'[m] = tool[m] /\ ids'[m] = ids[m]
        /\ gone' = gone
    BY <2>1, InsertIs DEF Types
  <2> QED BY <1>4, <1>17, <2>1, <2>2 DEF CreateCustomTool
<1>18. ASSUME NEW r \in Requests, DeleteTool(r) PROVE Keys'
  BY <1>2, <1>18, DeleteToolIs DEF DeleteTool
<1>19. ASSUME NEW r \in Requests, RemoveFiles(r) PROVE Keys'
  BY <1>2, <1>19, RemoveFilesIs, FailIs DEF RemoveFiles, Types
<1>20. ASSUME NEW r \in Requests, ClearFlags(r) PROVE Keys'
  BY <1>2, <1>20, ClearFlagsIs, FailIs DEF ClearFlags, Types
<1>21. ASSUME NEW r \in Requests, SaveTool(r) PROVE Keys'
  <2> DEFINE n == req[r].n  row == req[r].new
  <2>1. /\ n \in Names /\ row \in Row /\ row.id = req[r].row.id /\ req[r].pc = "save"
        /\ Others(r) /\ req'[r].pc \notin {"save", "applySave"}
        /\ SaveBootTool(n, req[r].row, row) \/ SaveFails(n, row)
    BY <1>21, SaveToolIs
  <2>2. n \notin gone => Exists(n) /\ row.id = 1
    BY <2>1 DEF Keys
  <2>4. dl' = dl
    BY <1>21 DEF SaveTool
  <2>5. CASE SaveFails(n, row)
    BY <1>2, <2>1, <2>4, <2>5, FailIs DEF Types
  <2> SUFFICES ASSUME SaveBootTool(n, req[r].row, row) PROVE Keys'
    BY <2>1, <2>5
  <2>3. /\ tool'[n] = IF Exists(n) /\ tool[n].id # row.id THEN tool[n] ELSE row
        /\ tool'[n] \in Row /\ \A m \in Names \ {n} : tool'[m] = tool[m]
        /\ ids' = ids /\ gone' = gone
    BY <2>1, SaveIs DEF Types
  <2> HIDE DEF row, n
  <2> QED BY <1>3, <2>1, <2>2, <2>3, <2>4 DEF Others
<1>22. ASSUME NEW r \in Requests, DeleteCustomTool(r) PROVE Keys'
  <2> SUFFICES ASSUME NEW m \in Names \ gone'
               PROVE  /\ ids'[m] = IF Exists(m)' THEN 1 ELSE 0
                      /\ Exists(m)' => tool'[m].id = 1
                      /\ \A d \in Slots : dl'[d].n = m /\ dl'[d].pc \in Active =>
                            Exists(m)' /\ (dl'[d].pc = "save" => dl'[d].row.id = 1)
                      /\ \A s \in Requests : req'[s].n = m /\ req'[s].pc \in {"save", "applySave"} =>
                            Exists(m)' /\ req'[s].row.id = 1
    BY DEF Keys
  <2>1. /\ Others(r) /\ req'[r] = Idle /\ m \in Names \ gone /\ tool'[m] = tool[m]
    BY <1>22, DeleteCustomToolIs
  <2>2. ids' = ids /\ dl' = dl
    BY <1>22, DeleteCustomToolIs DEF DeleteCustomTool
  <2> QED BY <2>1, <2>2, IdleTyped DEF Keys, Exists, Others
<1>23. ASSUME NEW r \in Requests, UpdateFromRemote(r) PROVE Keys'
  BY <1>2, <1>23, UpdateFromRemoteIs DEF UpdateFromRemote
<1>24. ASSUME NEW r \in Requests, ApplyManifest(r) PROVE Keys'
  <2>1. CASE UNCHANGED table
    <3>1. Others(r) /\ (req'[r].pc \in {"save", "applySave"} =>
                           Exists(req'[r].n) /\ req'[r].row = tool[req'[r].n])
      BY <1>24, <2>1, ApplyManifestIs, IdleTyped
    <3> QED BY <1>2, <1>24, <2>1, <3>1 DEF ApplyManifest
  <2>0. ASSUME NEW n \in Names, GetFails(n) PROVE Keys'
    <3>1. UNCHANGED <<tool, ids, gone>> /\ dl' = dl
      BY <1>24, <2>0, FailIs DEF ApplyManifest, Types
    <3>2. Others(r) /\ (req'[r].pc \in {"save", "applySave"} =>
                           Exists(req'[r].n) /\ req'[r].row = tool[req'[r].n])
      BY <1>24, ApplyManifestIs, IdleTyped
    <3> QED BY <1>2, <3>1, <3>2
  <2>2. CASE ~UNCHANGED table /\ ~\E n \in Names : GetFails(n)
    <3>1. PICK n \in Names, def \in Defs :
             /\ ~Exists(n) /\ InsertBootTool(n, FALSE, def, IsDownloaded(n, builtIn))
             /\ req'[r].pc = "apply"
      BY <1>24, <2>2, ApplyManifestIs
    <3>2. /\ ids'[n] = ids[n] + 1 /\ tool'[n] \in Row /\ tool'[n].id = ids[n] + 1
          /\ \A m \in Names \ {n} : tool'[m] = tool[m] /\ ids'[m] = ids[m]
          /\ gone' = gone
      BY <3>1, Downloadable, InsertIs DEF Types
    <3>3. Others(r) /\ dl' = dl
      BY <1>24, ApplyManifestIs DEF ApplyManifest
    <3> QED BY <1>4, <3>1, <3>2, <3>3 DEF Others
  <2> QED BY <2>0, <2>1, <2>2
<1>25. ASSUME NEW r \in Requests, ApplySave(r) PROVE Keys'
  <2> DEFINE n == req[r].n  row == req[r].new
  <2>1. /\ n \in Names /\ row \in Row /\ row.id = req[r].row.id /\ req[r].pc = "applySave"
        /\ Others(r) /\ req'[r].pc = "apply"
        /\ UNCHANGED table \/ SaveBootTool(n, req[r].row, row) \/ SaveFails(n, row)
    BY <1>25, ApplySaveIs
  <2>2. n \notin gone => Exists(n) /\ row.id = 1
    BY <2>1 DEF Keys
  <2>3. dl' = dl
    BY <1>25 DEF ApplySave
  <2>4. CASE UNCHANGED table
    BY <1>2, <2>1, <2>3, <2>4
  <2>5. CASE SaveBootTool(n, req[r].row, row)
    <3>1. /\ tool'[n] = IF Exists(n) /\ tool[n].id # row.id THEN tool[n] ELSE row
          /\ tool'[n] \in Row /\ \A m \in Names \ {n} : tool'[m] = tool[m]
          /\ ids' = ids /\ gone' = gone
      BY <2>1, <2>5, SaveIs DEF Types
    <3> HIDE DEF row, n
    <3> QED BY <1>3, <2>1, <2>2, <2>3, <3>1 DEF Others
  <2>6. CASE SaveFails(n, row)
    BY <1>2, <2>1, <2>3, <2>6, FailIs DEF Types
  <2> QED BY <2>1, <2>4, <2>5, <2>6
<1>26. CASE Restart
  <2>1. PICK m \in Manifests, failed \in SUBSET Names :
           failed \in SUBSET Named(m) /\ SeedTools(m, failed)
    BY <1>26 DEF Restart, Named
  <2>2. gone' = gone /\ (\A d \in Slots : dl'[d] = NoDownload)
        /\ (\A r \in Requests : req'[r] = Idle)
    BY <1>26, <2>1, SeedToolsIs DEF Restart
  <2>3. ASSUME NEW n \in Names \ gone
        PROVE  ids'[n] = (IF Exists(n)' THEN 1 ELSE 0) /\ (Exists(n)' => tool'[n].id = 1)
    <3>1. ids[n] = (IF Exists(n) THEN 1 ELSE 0) /\ (Exists(n) => tool[n].id = 1)
      BY DEF Keys
    <3>2. \/ /\ ~Exists(n) /\ ids'[n] = ids[n] + 1
             /\ tool'[n] \in Row /\ tool'[n].id = ids[n] + 1
          \/ ids'[n] = ids[n] /\ tool'[n] = tool[n]
          \/ /\ Exists(n) /\ ids'[n] = ids[n] /\ tool'[n] \in Row /\ tool'[n].id = tool[n].id
      BY <2>1, SeedToolsIs
    <3> QED BY <3>1, <3>2, NoneIsNoRow DEF Exists
  <2> QED BY <2>2, <2>3, IdleTyped DEF Keys, Active
<1> QED
  BY <1>5, <1>6, <1>7, <1>8, <1>9, <1>10, <1>11, <1>12, <1>13, <1>14, <1>15, <1>16, <1>17,
     <1>18, <1>19, <1>20, <1>21, <1>22, <1>23, <1>24, <1>25, <1>26
     DEF Next, Handler, DownloadStep

\* A download that ends says so, unless the row it needs was deleted.
LEMMA HonestNext == Types /\ Keys /\ Honest /\ [Next]_vars => Honest'
<1> SUFFICES ASSUME Types, Keys, Honest, [Next]_vars PROVE Honest'
  OBVIOUS
<1> USE DEF table
\* The step of a download that settles the status, or goes on.
<1>1. ASSUME NEW d \in Slots, dl[d].n \in Names, UNCHANGED gone,
             \A e \in Slots \ {d} : dl'[e] = dl[e],
             \A m \in Names \ {dl[d].n} : progress'[m] = progress[m],
             \/ progress'[dl[d].n] \notin {"downloading", "extracting"}
             \/ dl'[d].n = dl[d].n /\ dl'[d].pc \in Active \ {"connect"}
             \/ progress'[dl[d].n] = progress[dl[d].n] /\ dl[d].pc \notin Active \ {"connect"}
      PROVE  Honest'
  BY <1>1 DEF Honest
<1>2. CASE UNCHANGED <<dl, progress>> /\ gone \subseteq gone'
  BY <1>2 DEF Honest
\* An end that is not reported marks the tool.
<1>0. ASSUME NEW d \in Slots, Running(d), EndUnreported(d) PROVE Honest'
  BY <1>0, UnreportedIs DEF Honest, Ended
<1>3. CASE UNCHANGED vars
  BY <1>2, <1>3 DEF vars
<1>4. ASSUME NEW d \in Slots, DownloadTool(d) PROVE Honest'
  <2>1. UNCHANGED <<progress, gone>>
    BY <1>4 DEF DownloadTool
  <2>2. dl[d].pc = "idle" /\ \A e \in Slots \ {d} : dl'[e] = dl[e]
    BY <1>4, DownloadToolIs
  <2> QED BY <2>1, <2>2 DEF Honest, Active
<1>5. ASSUME NEW d \in Slots, ProgressWriter(d) PROVE Honest'
  <2>1. dl[d].n \in Names /\ dl[d].pc = "copy" /\ dl' = dl /\ gone' = gone
    BY <1>5 DEF ProgressWriter, Types, DlOK, DlKnows
  <2>2. \A m \in Names \ {dl[d].n} : progress'[m] = progress[m]
    BY <1>5, <2>1, ProgressStep DEF ProgressWriter, Types
  <2> QED BY <1>1, <2>1, <2>2 DEF Active
<1>6. ASSUME NEW d \in Slots, DownloadStart(d) PROVE Honest'
  <2>1. dl[d].n \in Names /\ dl[d].pc = "start" /\ progress' = progress /\ gone' = gone
    BY <1>6 DEF DownloadStart, Types, DlOK, DlKnows
  <2> QED BY <1>1, <1>6, <2>1, DownloadStartIs DEF Active, Ended, Moved
<1>7. ASSUME NEW d \in Slots, DownloadConnect(d) PROVE Honest'
  <2>1. dl[d].n \in Names /\ dl[d].pc = "connect" /\ gone' = gone
    BY <1>7 DEF DownloadConnect, Types, DlOK, DlKnows
  <2>2. /\ \A e \in Slots \ {d} : dl'[e] = dl[e]
        /\ \/ progress' = progress
           \/ SetProgress(dl[d].n, "error")
           \/ /\ dl'[d].n = dl[d].n /\ dl'[d].pc = "copy"
              /\ SetProgress(dl[d].n, "downloading")
    BY <1>7, DownloadConnectIs DEF Ended, Moved
  <2>3. /\ \A m \in Names \ {dl[d].n} : progress'[m] = progress[m]
        /\ \/ progress'[dl[d].n] = progress[dl[d].n]
           \/ progress'[dl[d].n] = "error"
           \/ dl'[d].n = dl[d].n /\ dl'[d].pc = "copy"
    BY <2>1, <2>2, ProgressStep DEF Types
  <2> QED BY <1>1, <2>1, <2>2, <2>3 DEF Active
<1>8. ASSUME NEW d \in Slots, DownloadCopy(d) PROVE Honest'
  <2>1. dl[d].n \in Names /\ gone' = gone
    BY <1>8 DEF DownloadCopy, Types, DlOK, DlKnows
  <2>2. /\ \A e \in Slots \ {d} : dl'[e] = dl[e]
        /\ \/ SetProgress(dl[d].n, "error")
           \/ /\ dl'[d].n = dl[d].n /\ dl'[d].pc = "extract"
              /\ SetProgress(dl[d].n, "extracting")
    BY <1>8, DownloadCopyIs DEF Ended, Moved
  <2>3. /\ \A m \in Names \ {dl[d].n} : progress'[m] = progress[m]
        /\ \/ progress'[dl[d].n] = "error"
           \/ dl'[d].n = dl[d].n /\ dl'[d].pc = "extract"
    BY <2>1, <2>2, ProgressStep DEF Types
  <2> QED BY <1>1, <2>1, <2>2, <2>3 DEF Active
<1>9. ASSUME NEW d \in Slots, ExtractOpen(d) PROVE Honest'
  <2>1. dl[d].n \in Names /\ gone' = gone
    BY <1>9 DEF ExtractOpen, Types, DlOK, DlKnows
  <2>2. /\ \A e \in Slots \ {d} : dl'[e] = dl[e]
        /\ \/ SetProgress(dl[d].n, "error")
           \/ dl'[d].n = dl[d].n /\ dl'[d].pc = "write" /\ progress' = progress
    BY <1>9, ExtractOpenIs DEF Ended, Moved
  <2>3. /\ \A m \in Names \ {dl[d].n} : progress'[m] = progress[m]
        /\ \/ progress'[dl[d].n] = "error"
           \/ dl'[d].n = dl[d].n /\ dl'[d].pc = "write"
    BY <2>1, <2>2, ProgressStep DEF Types
  <2> QED BY <1>1, <2>1, <2>2, <2>3 DEF Active
<1>10. ASSUME NEW d \in Slots, ExtractWrite(d) PROVE Honest'
  <2>1. dl[d].n \in Names /\ gone' = gone
    BY <1>10 DEF ExtractWrite, Types, DlOK, DlKnows
  <2>2. /\ \A e \in Slots \ {d} : dl'[e] = dl[e]
        /\ \/ SetProgress(dl[d].n, "error")
           \/ dl'[d].n = dl[d].n /\ dl'[d].pc = "extract" /\ progress' = progress
    BY <1>10, ExtractWriteIs DEF Ended, Moved
  <2>3. /\ \A m \in Names \ {dl[d].n} : progress'[m] = progress[m]
        /\ \/ progress'[dl[d].n] = "error"
           \/ dl'[d].n = dl[d].n /\ dl'[d].pc = "extract"
    BY <2>1, <2>2, ProgressStep DEF Types
  <2> QED BY <1>1, <2>1, <2>2, <2>3 DEF Active
<1>11. ASSUME NEW d \in Slots, DownloadGet(d) PROVE Honest'
  <2>1. dl[d].n \in Names /\ dl[d].pc = "extract"
    BY <1>11 DEF DownloadGet, Types, DlOK, DlKnows
  <2>2. CASE Moved(d, "save") /\ UNCHANGED <<table, progress>>
    BY <1>1, <2>1, <2>2 DEF Active, Moved
  <2>3. CASE EndUnreported(d)
    BY <1>0, <2>1, <2>3 DEF Running
  <2> QED BY <1>11, <2>2, <2>3, DownloadGetIs
<1>12. ASSUME NEW d \in Slots, DownloadSave(d) PROVE Honest'
  <2> DEFINE n == dl[d].n
  <2>0. CASE EndUnreported(d)
    BY <1>0, <1>12, <2>0 DEF DownloadSave, Running
  <2> SUFFICES ASSUME dl[d].pc = "save", MarkDownloaded(d) PROVE Honest'
    BY <1>12, <2>0 DEF DownloadSave
  <2>1. n \in Names /\ dl[d].pc = "save" /\ Ended(d) /\ gone' = gone
    BY MarkDownloadedIs DEF MarkDownloaded
  <2>2. progress' = [progress EXCEPT ![n] =
            IF Exists(n) /\ tool[n].id # dl[d].row.id THEN progress[n] ELSE "done"]
    BY DEF MarkDownloaded, SetProgress
  <2>3. \A m \in Names \ {n} : progress'[m] = progress[m]
    BY <2>2 DEF Types, RestOK
  <2>4. n \notin gone => progress'[n] = "done"
    BY <2>1, <2>2 DEF Keys, Active, Types, RestOK
  <2> QED BY <2>1, <2>3, <2>4 DEF Honest, Ended
<1>13. ASSUME NEW r \in Requests, Handler(r) PROVE Honest'
  <2>1. UNCHANGED <<dl, progress>> /\ gone \subseteq gone'
    <3>1. UNCHANGED <<dl, progress>>
      BY <1>13 DEF Handler, ToggleTool, UpdateToolURL, CreateCustomTool, DeleteTool,
            RemoveFiles, ClearFlags, SaveTool, DeleteCustomTool, UpdateFromRemote,
            ApplyManifest, ApplySave
    <3>2. gone' = gone \/ \E n : gone' = gone \cup {n}
      BY <1>13 DEF Handler, ToggleTool, UpdateToolURL, CreateCustomTool, DeleteTool,
            RemoveFiles, ClearFlags, SaveTool, DeleteCustomTool, UpdateFromRemote,
            ApplyManifest, ApplySave, SaveBootTool, InsertBootTool, DeleteBootTool,
            GetFails, SaveFails
    <3> QED BY <3>1, <3>2
  <2> QED BY <1>2, <2>1
<1>14. CASE Restart
  BY <1>14 DEF Restart, Honest
<1> QED
  BY <1>3, <1>4, <1>5, <1>6, <1>7, <1>8, <1>9, <1>10, <1>11, <1>12, <1>13, <1>14
     DEF Next, DownloadStep

LEMMA HonestIsHonest == Honest => ProgressHonest
BY DEF Honest, ProgressHonest

\* The status of a tool says that a download is going on only while one is,
\* unless its row was deleted or could not be read or saved at the end of a
\* download: downloads of the same tool that overtake each other, saves with
\* stale copies, other failing statements and restarts included
\* (Manager.Download, setProgress).
THEOREM ProgressIsHonest == FairSpec => []ProgressHonest
BY TypesInit, TypesNext, KeysInit, KeysNext, HonestNext, HonestIsHonest, PTL DEF FairSpec

-----------------------------------------------------------------------------
(* What the menu offers is on disk.                                        *)

\* The tool is offered only with its kernel.
Claim(n) ==
    Exists(n) /\ tool[n].enabled /\ tool[n].downloaded /\ ~tool[n].custom
       /\ GetDefinition(n, builtIn) # None => IsDownloaded(n, builtIn)

\* A request in flight will see to the tool: it is on the way to clear its
\* flags, or still has to apply the definition that is in force.
Pending(q, n) ==
    \/ /\ q.n = n
       /\ \/ q.pc = "clear"
          \/ q.pc = "save" /\ ~q.new.downloaded
          \/ q.pc = "applySave" /\ ~q.row.custom /\ ~q.new.downloaded
    \/ q.pc \in {"apply", "applySave"} /\ q.todo[n] # None

Offered == \A n \in Names \ odd : Claim(n) \/ \E r \in Requests : Pending(req[r], n)

LEMMA OfferedInit == Init => Offered
BY DEF Init, Offered, Claim, Exists

LEMMA IdleNotPending == \A n \in Names : ~Pending(Idle, n)
BY IdleTyped DEF Pending

\* A tool that is not custom boots what the manifest in force says.
LEMMA PlainDefinition ==
    ASSUME NEW n, NEW defs, ~tool[n].custom
    PROVE  GetDefinition(n, defs) = defs[n]
BY DEF GetDefinition

LEMMA PlainDefinitionNext ==
    ASSUME NEW n, ~tool'[n].custom
    PROVE  GetDefinition(n, builtIn)' = builtIn'[n]
BY DEF GetDefinition, Exists

\* The claim of one tool outlives a step that adds files at most.
LEMMA ClaimKept ==
    ASSUME Types, NEW n \in Names, Claim(n), tool'[n] = tool[n], builtIn' = builtIn,
           \A p \in Paths : disk[n][p] # "absent" => disk'[n][p] # "absent"
    PROVE  Claim(n)'
<1> SUFFICES ASSUME (Exists(n) /\ tool[n].enabled /\ tool[n].downloaded /\ ~tool[n].custom
                       /\ GetDefinition(n, builtIn) # None)'
             PROVE  IsDownloaded(n, builtIn)'
  BY DEF Claim
<1>1. GetDefinition(n, builtIn)' = GetDefinition(n, builtIn) /\ GetDefinition(n, builtIn) # None
  BY DEF GetDefinition, Exists
<1>2. IsDownloaded(n, builtIn) /\ ~tool[n].custom
  BY <1>1 DEF Claim, Exists
<1>3. GetDefinition(n, builtIn) \in Def
  <2>1. GetDefinition(n, builtIn) = builtIn[n] /\ builtIn[n] # None
    BY <1>1, <1>2, PlainDefinition
  <2> QED BY <2>1, BootToolsAssumption DEF Types, RestOK
<1> DEFINE def == GetDefinition(n, builtIn)
<1>4. \A p \in {def.kernel, def.initrd} \ {None} : p \in Paths /\ disk[n][p] # "absent"
  BY <1>2, <1>3 DEF IsDownloaded, Def
<1>5. \A p \in {def.kernel, def.initrd} \ {None} : disk'[n][p] # "absent"
  BY <1>4
<1> HIDE DEF GetDefinition
<1> QED BY <1>1, <1>5 DEF IsDownloaded

\* A save of what was read leaves a claim, or what will see to it.
LEMMA ClaimSaved ==
    ASSUME Types, NEW n \in Names, NEW read \in Row, NEW row \in Row,
           row.id = read.id, row.custom = read.custom,
           Claim(n) \/ ~row.downloaded, ~Stale(n, read, row),
           tool'[n] = (IF Exists(n) /\ tool[n].id # row.id THEN tool[n] ELSE row),
           builtIn' = builtIn, disk' = disk
    PROVE  Claim(n)'
<1>1. tool[n] = read /\ tool'[n] = row
  BY DEF Stale
<1> SUFFICES ASSUME row.enabled, row.downloaded, ~row.custom, GetDefinition(n, builtIn)' # None
             PROVE  IsDownloaded(n, builtIn)'
  BY <1>1 DEF Claim
<1>2. GetDefinition(n, builtIn)' = GetDefinition(n, builtIn)
  BY <1>1, PlainDefinition, PlainDefinitionNext
<1>3. IsDownloaded(n, builtIn)
  <2>1. CASE read.enabled /\ read.downloaded
    <3>1. Exists(n)
      BY <1>1, NoneIsNoRow DEF Exists
    <3> QED BY <1>1, <1>2, <2>1, <3>1 DEF Claim
  <2>2. CASE ~(read.enabled /\ read.downloaded)
    BY <2>2 DEF Stale
  <2> QED BY <2>1, <2>2
<1> QED BY <1>2, <1>3 DEF IsDownloaded

LEMMA OfferedNext == Types /\ Offered /\ [Next]_vars => Offered'
<1> SUFFICES ASSUME Types, Offered, [Next]_vars, NEW n \in Names \ odd'
             PROVE  Claim(n)' \/ \E r \in Requests : Pending(req'[r], n)
  BY DEF Offered
<1> DEFINE Goal == Claim(n)' \/ \E r \in Requests : Pending(req'[r], n)
<1> USE DEF table
\* A step of nobody's request: downloads.
<1>1. ASSUME req' = req, n \notin odd, Claim(n) => Claim(n)' PROVE Goal
  BY <1>1 DEF Offered
\* A step of request r: it was not seeing to n, or still is.
<1>2. ASSUME NEW r \in Requests, Others(r), n \notin odd, Claim(n) => Claim(n)',
             Pending(req[r], n) => Claim(n)' \/ Pending(req'[r], n)
      PROVE  Goal
  BY <1>2 DEF Offered, Others
\* A step that leaves table and manifest alone and files where they are.
<1>3. ASSUME UNCHANGED <<tool, builtIn>>, Claim(n),
             disk' = disk \/ Fuller
      PROVE  Claim(n)'
  <2>1. \A p \in Paths : disk[n][p] # "absent" => disk'[n][p] # "absent"
    BY <1>3 DEF Fuller
  <2> QED BY <1>3, <2>1, ClaimKept
<1>4. CASE UNCHANGED vars
  <2>1. UNCHANGED <<tool, builtIn, disk, req, odd>>
    BY <1>4 DEF vars
  <2> QED BY <1>1, <1>3, <2>1
<1>5. ASSUME NEW d \in Slots,
             \/ DownloadTool(d) \/ ProgressWriter(d) \/ DownloadStart(d) \/ DownloadConnect(d)
             \/ DownloadCopy(d) \/ DownloadGet(d) \/ ExtractOpen(d) \/ ExtractWrite(d)
      PROVE  Goal
  <2>1. UNCHANGED <<tool, builtIn, req, odd>>
    BY <1>5 DEF DownloadTool, ProgressWriter, DownloadStart, DownloadConnect, DownloadCopy,
          DownloadGet, EndUnreported, ExtractOpen, ExtractWrite
  <2>2. disk' = disk \/ Fuller
    <3>1. CASE ExtractOpen(d) \/ ExtractWrite(d)
      BY <3>1, ExtractOpenIs, ExtractWriteIs
    <3>2. CASE ~(ExtractOpen(d) \/ ExtractWrite(d))
      BY <1>5, <3>2 DEF DownloadTool, ProgressWriter, DownloadStart, DownloadConnect,
            DownloadCopy, DownloadGet
    <3> QED BY <3>1, <3>2
  <2> QED BY <1>1, <1>3, <2>1, <2>2
<1>6. ASSUME NEW d \in Slots, DownloadSave(d) PROVE Goal
  <2> DEFINE m == dl[d].n  row == dl[d].row
  <2>1. UNCHANGED <<builtIn, disk, req>>
    BY <1>6 DEF DownloadSave
  <2>0. CASE EndUnreported(d)
    <3>1. UNCHANGED <<tool, odd>>
      BY <2>0 DEF EndUnreported
    <3> QED BY <1>1, <1>3, <2>1, <3>1
  <2> SUFFICES ASSUME dl[d].pc = "save", MarkDownloaded(d) PROVE Goal
    BY <1>6, <2>0 DEF DownloadSave
  <2>2. /\ m \in Names /\ row \in Row /\ odd \subseteq odd'
        /\ \A x \in Names \ {m} : tool'[x] = tool[x]
        /\ tool'[m] = IF Exists(m) /\ tool[m].id # row.id THEN tool[m]
                      ELSE [row EXCEPT !.downloaded = TRUE]
        /\ m \notin odd' => /\ tool[m] = row
                            /\ tool[m].enabled /\ GetDefinition(m, builtIn) # None
                                  => IsDownloaded(m, builtIn)
    BY MarkDownloadedIs
  <2>3. CASE n # m
    <3>1. tool'[n] = tool[n] /\ n \notin odd
      BY <2>2, <2>3
    <3> QED BY <1>1, <2>1, <3>1, ClaimKept
  <2>4. CASE n = m
    <3>0. m \notin odd'
      BY <2>4
    <3>1. /\ tool[n] = row
          /\ row.enabled /\ GetDefinition(n, builtIn) # None => IsDownloaded(n, builtIn)
      <4>1. /\ tool[m] = row
            /\ tool[m].enabled /\ GetDefinition(m, builtIn) # None => IsDownloaded(m, builtIn)
        BY <2>2, <3>0
      <4> HIDE DEF m, row, GetDefinition, IsDownloaded
      <4> QED BY <2>4, <4>1
    <3>2. tool'[n].enabled = row.enabled /\ tool'[n].custom = row.custom
      BY <2>2, <2>4, <3>1 DEF Row
    <3> SUFFICES ASSUME row.enabled, ~row.custom, GetDefinition(n, builtIn)' # None
                 PROVE  IsDownloaded(n, builtIn)'
      BY <3>2 DEF Claim
    <3>3. GetDefinition(n, builtIn)' = GetDefinition(n, builtIn)
      BY <2>1, <3>1, <3>2, PlainDefinition, PlainDefinitionNext
    <3> QED BY <2>1, <3>1, <3>3 DEF IsDownloaded
  <2> QED BY <2>3, <2>4
<1>7. ASSUME NEW r \in Requests, ToggleTool(r) \/ UpdateToolURL(r) \/ DeleteTool(r) PROVE Goal
  <2>1. UNCHANGED <<tool, odd, builtIn, disk>>
    BY <1>7 DEF ToggleTool, UpdateToolURL, DeleteTool
  <2>2. Others(r) /\ req[r] = Idle
    BY <1>7, ToggleToolIs, UpdateToolURLIs, DeleteToolIs
  <2>3. ~Pending(req[r], n)
    BY <2>2, IdleNotPending
  <2> QED BY <1>2, <1>3, <2>1, <2>2, <2>3
<1>8. ASSUME NEW r \in Requests, CreateCustomTool(r) PROVE Goal
  <2>1. PICK m \in Names, d \in Defs : InsertBootTool(m, TRUE, d, FALSE)
    BY <1>8 DEF CreateCustomTool
  <2>2. /\ ~tool'[m].enabled /\ odd' = odd
        /\ \A x \in Names \ {m} : tool'[x] = tool[x]
    BY <2>1, InsertIs DEF Types
  <2>3. UNCHANGED <<builtIn, disk, req>>
    BY <1>8 DEF CreateCustomTool
  <2>4. CASE n = m
    BY <2>2, <2>4 DEF Claim
  <2>5. CASE n # m
    BY <1>1, <2>2, <2>3, <2>5, ClaimKept
  <2> QED BY <2>4, <2>5
<1>9. ASSUME NEW r \in Requests, RemoveFiles(r) PROVE Goal
  <2>1. /\ Others(r) /\ req[r].pc = "remove" /\ req[r].n \in Names /\ builtIn' = builtIn
        /\ \A m \in Names \ {req[r].n} : disk'[m] = disk[m]
        /\ \/ req'[r].pc = "clear" /\ req'[r].n = req[r].n /\ UNCHANGED table
           \/ GetFails(req[r].n)
    BY <1>9, RemoveFilesIs DEF RemoveFiles
  <2>2. tool' = tool /\ odd \subseteq odd'
    BY <2>1, FailIs DEF Types
  <2>3. CASE n = req[r].n
    <3>1. CASE req'[r].pc = "clear" /\ req'[r].n = req[r].n
      BY <2>1, <2>3, <3>1 DEF Pending
    <3>2. CASE GetFails(req[r].n)
      <4>1. ~Exists(n)
        BY <2>1, <2>3, <3>2 DEF GetFails
      <4> QED BY <2>2, <4>1 DEF Claim, Exists
    <3> QED BY <2>1, <3>1, <3>2
  <2>4. CASE n # req[r].n
    <3>1. ~Pending(req[r], n)
      BY <2>1 DEF Pending
    <3>2. Claim(n) => Claim(n)'
      BY <2>1, <2>2, <2>4, ClaimKept
    <3> QED BY <1>2, <2>1, <2>2, <3>1, <3>2
  <2> QED BY <2>3, <2>4
<1>10. ASSUME NEW r \in Requests, ClearFlags(r) PROVE Goal
  <2>1. /\ Others(r) /\ req[r].pc = "clear" /\ req[r].n \in Names
        /\ \/ /\ req'[r].pc = "save" /\ req'[r].n = req[r].n /\ ~req'[r].new.downloaded
              /\ UNCHANGED table
           \/ GetFails(req[r].n)
    BY <1>10, ClearFlagsIs
  <2>2. UNCHANGED <<tool, builtIn, disk>> /\ odd \subseteq odd'
    BY <1>10, <2>1, FailIs DEF ClearFlags, Types
  <2>3. Pending(req[r], n) => Claim(n)' \/ Pending(req'[r], n)
    <3>1. CASE req'[r].pc = "save" /\ req'[r].n = req[r].n /\ ~req'[r].new.downloaded
      BY <2>1, <3>1 DEF Pending
    <3>2. CASE GetFails(req[r].n)
      <4>1. n = req[r].n => ~Exists(n)
        BY <3>2 DEF GetFails
      <4> QED BY <2>1, <2>2, <4>1 DEF Pending, Claim, Exists
    <3> QED BY <2>1, <3>1, <3>2
  <2> QED BY <1>2, <1>3, <2>1, <2>2, <2>3
\* A save by request r: a stale one makes the name odd.
<1>11. ASSUME NEW r \in Requests, Others(r), UNCHANGED <<builtIn, disk>>,
              req[r].n \in Names, req[r].row \in Row, req[r].new \in Row,
              req[r].new.id = req[r].row.id, req[r].new.custom = req[r].row.custom,
              SaveBootTool(req[r].n, req[r].row, req[r].new) \/ SaveFails(req[r].n, req[r].new),
              Pending(req[r], n) => \/ n = req[r].n /\ ~req[r].new.downloaded
                                    \/ Pending(req'[r], n)
       PROVE  Goal
  <2> DEFINE m == req[r].n
  <2>0. CASE SaveFails(m, req[r].new)
    <3>1. tool' = tool /\ odd \subseteq odd' /\ (n = m => req[r].new.downloaded)
      BY <2>0 DEF SaveFails
    <3>2. Claim(n) => Claim(n)'
      BY <1>3, <1>11, <3>1
    <3> QED BY <1>2, <1>11, <3>1, <3>2
  <2> SUFFICES ASSUME SaveBootTool(m, req[r].row, req[r].new) PROVE Goal
    BY <1>11, <2>0
  <2>1. /\ tool'[m] = IF Exists(m) /\ tool[m].id # req[r].new.id THEN tool[m] ELSE req[r].new
        /\ \A x \in Names \ {m} : tool'[x] = tool[x]
        /\ odd \subseteq odd'
        /\ m \notin odd' => ~Stale(m, req[r].row, req[r].new)
    BY <1>11, SaveIs DEF Types
  <2>2. n \notin odd
    BY <2>1
  <2>3. CASE n # m
    BY <1>2, <1>11, <2>1, <2>2, <2>3, ClaimKept
  <2>4. CASE n = m
    <3>1. Claim(n) \/ ~req[r].new.downloaded => Claim(n)'
      BY <1>11, <2>1, <2>4, ClaimSaved
    <3> QED BY <1>2, <1>11, <2>2, <2>4, <3>1
  <2> QED BY <2>3, <2>4
<1>12. ASSUME NEW r \in Requests, SaveTool(r) PROVE Goal
  <2>1. UNCHANGED <<builtIn, disk>>
    BY <1>12 DEF SaveTool
  <2>2. /\ Others(r) /\ req[r].pc = "save"
        /\ req[r].n \in Names /\ req[r].row \in Row /\ req[r].new \in Row
        /\ req[r].new.id = req[r].row.id /\ req[r].new.custom = req[r].row.custom
        /\ SaveBootTool(req[r].n, req[r].row, req[r].new) \/ SaveFails(req[r].n, req[r].new)
    BY <1>12, SaveToolIs
  <2>3. Pending(req[r], n) => n = req[r].n /\ ~req[r].new.downloaded
    BY <2>2 DEF Pending
  <2> QED BY <1>11, <2>1, <2>2, <2>3
<1>13. ASSUME NEW r \in Requests, DeleteCustomTool(r) PROVE Goal
  <2>1. /\ Others(r) /\ req[r].pc = "drop" /\ odd' = odd
        /\ UNCHANGED table \/ tool'[req[r].n] = None
        /\ \A m \in Names \ {req[r].n} : tool'[m] = tool[m]
    BY <1>13, DeleteCustomToolIs
  <2>2. UNCHANGED <<odd, builtIn, disk>>
    BY <1>13, <2>1 DEF DeleteCustomTool
  <2>0. CASE UNCHANGED table
    <3>1. ~Pending(req[r], n)
      BY <2>1 DEF Pending
    <3> QED BY <1>2, <1>3, <2>0, <2>1, <2>2, <3>1
  <2> SUFFICES ASSUME tool'[req[r].n] = None PROVE Goal
    BY <2>0, <2>1
  <2>3. CASE n = req[r].n
    BY <2>1, <2>3 DEF Claim, Exists
  <2>4. CASE n # req[r].n
    <3>1. ~Pending(req[r], n)
      BY <2>1 DEF Pending
    <3>2. Claim(n) => Claim(n)'
      BY <2>1, <2>2, <2>4, ClaimKept
    <3> QED BY <1>2, <2>1, <2>2, <3>1, <3>2
  <2> QED BY <2>3, <2>4
<1>14. ASSUME NEW r \in Requests, UpdateFromRemote(r) PROVE Goal
  <2>1. /\ req'[r].pc = "apply" /\ req'[r].todo = builtIn'
    BY <1>14, UpdateFromRemoteIs
  <2>2. CASE builtIn'[n] # None
    BY <2>1, <2>2 DEF Pending
  <2>3. CASE builtIn'[n] = None
    <3>1. ~tool'[n].custom => GetDefinition(n, builtIn)' = None
      BY <2>3, PlainDefinitionNext
    <3> QED BY <3>1 DEF Claim
  <2> QED BY <2>2, <2>3
<1>15. ASSUME NEW r \in Requests, ApplyManifest(r) PROVE Goal
  <2>1. Others(r) /\ req[r].pc = "apply" /\ UNCHANGED <<builtIn, disk>>
    BY <1>15, ApplyManifestIs DEF ApplyManifest
  <2>2. req[r].todo \in [Names -> Defs \cup {None}]
    BY DEF Types, ReqOK, Request
  <2>3. CASE Named(req[r].todo) = {} /\ UNCHANGED table
    <3>1. ~Pending(req[r], n)
      BY <2>1, <2>3 DEF Pending, Named
    <3> QED BY <1>2, <1>3, <2>1, <2>3, <3>1
  <2>4. ASSUME NEW m \in Names, NEW def \in Defs,
               InsertBootTool(m, FALSE, def, IsDownloaded(m, builtIn)),
               req'[r].pc = "apply", req'[r].todo = [req[r].todo EXCEPT ![m] = None]
        PROVE  Goal
    <3>0. IsDownloaded(m, builtIn) \in BOOLEAN
      BY Downloadable
    <3>1. /\ ~tool'[m].enabled /\ odd' = odd
          /\ \A x \in Names \ {m} : tool'[x] = tool[x]
      <4>1. InsertBootTool(m, FALSE, def, IsDownloaded(m, builtIn)) /\ TableOK
        BY <2>4 DEF Types
      <4> QED BY <3>0, <4>1, InsertIs
    <3>2. CASE n = m
      BY <3>1, <3>2 DEF Claim
    <3>3. CASE n # m
      <4>1. Pending(req[r], n) => Pending(req'[r], n)
        BY <2>1, <2>2, <2>4, <3>3 DEF Pending
      <4>2. Claim(n) => Claim(n)'
        BY <2>1, <3>1, <3>3, ClaimKept
      <4> QED BY <1>2, <2>1, <3>1, <4>1, <4>2
    <3> QED BY <3>2, <3>3
  <2>6. ASSUME NEW m \in Names, GetFails(m),
               req'[r].pc = "apply", req'[r].todo = [req[r].todo EXCEPT ![m] = None]
        PROVE  Goal
    <3>1. tool' = tool /\ odd \subseteq odd' /\ (n = m => ~Exists(n))
      BY <2>6 DEF GetFails
    <3>2. CASE n = m
      BY <3>1, <3>2 DEF Claim, Exists
    <3>3. CASE n # m
      <4>1. Pending(req[r], n) => Pending(req'[r], n)
        BY <2>1, <2>2, <2>6, <3>3 DEF Pending
      <4>2. Claim(n) => Claim(n)'
        BY <1>3, <2>1, <3>1
      <4> QED BY <1>2, <2>1, <3>1, <4>1, <4>2
    <3> QED BY <3>2, <3>3
  <2>5. ASSUME NEW m \in Names, Exists(m), UNCHANGED table,
               req'[r].pc = "applySave", req'[r].n = m, req'[r].row = tool[m],
               ~tool[m].custom => req'[r].new.downloaded = IsDownloaded(m, builtIn),
               req'[r].todo = [req[r].todo EXCEPT ![m] = None]
        PROVE  Goal
    <3>1. CASE n = m
      <4>1. CASE tool[n].custom
        BY <2>5, <4>1 DEF Claim
      <4>2. CASE ~tool[n].custom /\ IsDownloaded(n, builtIn)
        <5>1. Claim(n)
          BY <4>2 DEF Claim
        <5> QED BY <1>3, <2>1, <2>5, <5>1
      <4>3. CASE ~tool[n].custom /\ ~IsDownloaded(n, builtIn)
        <5>1. ~req'[r].new.downloaded
          BY <2>5, <3>1, <4>3
        <5> QED BY <2>5, <3>1, <4>3, <5>1 DEF Pending
      <4> QED BY <4>1, <4>2, <4>3
    <3>2. CASE n # m
      <4>1. Pending(req[r], n) => Pending(req'[r], n)
        BY <2>1, <2>2, <2>5, <3>2 DEF Pending
      <4> QED BY <1>2, <1>3, <2>1, <2>5, <4>1
    <3> QED BY <3>1, <3>2
  <2> HIDE DEF IsDownloaded
  <2> QED BY <1>15, <2>3, <2>4, <2>5, <2>6, ApplyManifestIs
<1>16. ASSUME NEW r \in Requests, ApplySave(r) PROVE Goal
  <2>1. UNCHANGED <<builtIn, disk>>
    BY <1>16 DEF ApplySave
  <2>2. /\ Others(r) /\ req[r].pc = "applySave"
        /\ req[r].n \in Names /\ req[r].row \in Row /\ req[r].new \in Row
        /\ req[r].new.id = req[r].row.id /\ req[r].new.custom = req[r].row.custom
        /\ req'[r].pc = "apply" /\ req'[r].todo = req[r].todo
        /\ \/ req[r].row.custom /\ UNCHANGED table
           \/ SaveBootTool(req[r].n, req[r].row, req[r].new)
           \/ SaveFails(req[r].n, req[r].new)
    BY <1>16, ApplySaveIs
  <2>3. CASE req[r].row.custom /\ UNCHANGED table
    <3>1. Pending(req[r], n) => Pending(req'[r], n)
      BY <2>2, <2>3 DEF Pending
    <3> QED BY <1>2, <1>3, <2>1, <2>2, <2>3, <3>1
  <2>4. CASE SaveBootTool(req[r].n, req[r].row, req[r].new) \/ SaveFails(req[r].n, req[r].new)
    <3>1. Pending(req[r], n) => \/ n = req[r].n /\ ~req[r].new.downloaded
                                \/ Pending(req'[r], n)
      BY <2>2 DEF Pending
    <3> QED BY <1>11, <2>1, <2>2, <2>4, <3>1
  <2> QED BY <2>2, <2>3, <2>4
<1>17. CASE Restart
  <2>1. PICK m \in Manifests, failed \in SUBSET Names :
           failed \in SUBSET Named(m) /\ SeedTools(m, failed)
    BY <1>17 DEF Restart, Named
  <2>2. disk' = disk /\ builtIn' = m
    BY <1>17, <2>1, SeedToolsIs DEF Restart
  <2> SUFFICES ASSUME Exists(n)', tool'[n].enabled, tool'[n].downloaded, ~tool'[n].custom,
                      GetDefinition(n, builtIn)' # None
               PROVE  IsDownloaded(n, builtIn)'
    BY DEF Claim
  <2>3. m[n] # None
    BY <2>2, PlainDefinitionNext
  <2>4. IsDownloaded(n, m)
    <3>1. \/ ~tool'[n].enabled
          \/ ~Exists(n) /\ tool'[n] = tool[n]
          \/ tool'[n].custom = tool[n].custom /\ (~tool[n].custom => tool'[n].downloaded = IsDownloaded(n, m))
      BY <2>1, <2>3, SeedToolsIs
    <3> QED BY <3>1 DEF Exists
  <2>5. GetDefinition(n, builtIn)' = GetDefinition(n, m)
    BY <2>2, <2>3 DEF GetDefinition
  <2> QED BY <2>2, <2>4, <2>5 DEF IsDownloaded
<1> QED
  BY <1>4, <1>5, <1>6, <1>7, <1>8, <1>9, <1>10, <1>12, <1>13, <1>14, <1>15, <1>16, <1>17
     DEF Next, Handler, DownloadStep

LEMMA OfferedIsOnDisk == Offered => OfferedOnDisk
<1> SUFFICES ASSUME Offered, \A r \in Requests : req[r] = Idle,
                    NEW n \in GetEnabledTools \ odd, ~tool[n].custom
             PROVE  IsDownloaded(n, builtIn)
  BY DEF OfferedOnDisk
<1>1. n \in Names /\ Exists(n) /\ tool[n].enabled /\ tool[n].downloaded
      /\ GetDefinition(n, builtIn) # None
  BY DEF GetEnabledTools
<1>2. Claim(n)
  BY <1>1, IdleNotPending DEF Offered
<1> QED BY <1>1, <1>2 DEF Claim

\* Whatever downloads, toggles, deletes, manifests and restarts did before:
\* when no request is in flight, a tool that the menu offers has the kernel
\* of its definition in force on disk, the rows exempted by OfferedOnDisk
\* aside (GetEnabledTools, applyManifest, Manager.Delete, ToggleTool).
THEOREM OfferedToolsOnDisk == FairSpec => []OfferedOnDisk
BY TypesInit, TypesNext, OfferedInit, OfferedNext, OfferedIsOnDisk, PTL DEF FairSpec
=============================================================================
