--------------------------- MODULE BootMenuProofs ---------------------------
(***************************************************************************)
(* Theorems about BootMenu and ClientAccess, for any number of machines,   *)
(* images, groups and requests.                                            *)
(*                                                                         *)
(* The state is simple: what a menu request has read was true at a moment  *)
(* that its history remembers.  What a script contains is recursion over   *)
(* the tree of groups.  Its functions count levels, so that induction over *)
(* numbers is enough; a walk upwards that is longer than there are groups  *)
(* has met one of them twice.                                              *)
(***************************************************************************)
EXTENDS BootMenu, WellFoundedInduction, FiniteSetTheorems, TLAPS

\* The least of some numbers.
LEMMA LeastNat ==
    ASSUME NEW T, T \subseteq Nat, T # {}
    PROVE  \E x \in T : \A y \in T : x =< y
<1>1. PICK x \in T : \A y \in T : ~(<<y, x>> \in OpToRel(<, Nat))
  BY NatLessThanWellFounded, WFMin
<1>2. \A y \in T : ~(y < x)
  BY <1>1 DEF OpToRel
<1> QED BY <1>2

LEMMA MinIs ==
    ASSUME NEW T, T \subseteq Nat, T # {}
    PROVE  Min(T) \in T /\ \A y \in T : Min(T) =< y
BY LeastNat DEF Min

\* Induction, for a set of numbers instead of a predicate.
LEMMA AllNat ==
    ASSUME NEW S, 0 \in S, \A n \in Nat : n \in S => n + 1 \in S
    PROVE  \A n \in Nat : n \in S
<1> SUFFICES ASSUME Nat \ S # {} PROVE FALSE
  OBVIOUS
<1>1. PICK x \in Nat \ S : \A y \in Nat \ S : x =< y
  BY LeastNat
<1>2. x # 0 /\ x - 1 \in Nat /\ x - 1 \in S
  BY <1>1
<1> QED BY <1>1, <1>2

\* A function defined by recursion on a number: it exists, one value at a
\* time, and the CHOOSE that its definition stands for finds it.
LEMMA RecursionExists ==
    ASSUME NEW V, NEW a \in V, NEW G \in [V -> V]
    PROVE  \E f \in [Nat -> V] : f[0] = a /\ \A n \in Nat : f[n + 1] = G[f[n]]
<1> DEFINE Upto(p, n) == /\ p \in [0..n -> V] /\ p[0] = a
                         /\ \A i \in 0..n : i < n => p[i + 1] = G[p[i]]
<1>1. \A n \in Nat : \E p : Upto(p, n)
  <2> DEFINE S == {n \in Nat : \E p : Upto(p, n)}
  <2>1. 0 \in S
    <3>1. Upto([i \in 0..0 |-> a], 0)
      OBVIOUS
    <3> QED BY <3>1
  <2>2. ASSUME NEW n \in Nat, n \in S PROVE n + 1 \in S
    <3>1. PICK p : Upto(p, n)
      BY <2>2
    <3> DEFINE q == [i \in 0..(n + 1) |-> IF i =< n THEN p[i] ELSE G[p[n]]]
    <3>2. p[n] \in V /\ \A i \in 0..n : p[i] \in V
      BY <3>1
    <3>3. q \in [0..(n + 1) -> V] /\ q[0] = a
      BY <3>1, <3>2
    <3>4. ASSUME NEW i \in 0..(n + 1), i < n + 1 PROVE q[i + 1] = G[q[i]]
      <4>1. i \in 0..n /\ i + 1 \in 0..(n + 1) /\ q[i] = p[i]
        BY <3>4
      <4>2. CASE i < n
        BY <3>1, <4>1, <4>2
      <4>3. CASE i = n
        BY <4>1, <4>3
      <4> QED BY <4>1, <4>2, <4>3
    <3>5. Upto(q, n + 1)
      BY <3>3, <3>4
    <3> QED BY <3>5
  <2> HIDE DEF S
  <2>3. \A n \in Nat : n \in S
    BY <2>1, <2>2, AllNat
  <2> QED BY <2>3 DEF S
<1>2. ASSUME NEW m \in Nat, NEW n \in Nat, NEW p, NEW q, Upto(p, m), Upto(q, n)
      PROVE  \A i \in Nat : i =< m /\ i =< n => p[i] = q[i]
  <2> DEFINE S == {i \in Nat : i =< m /\ i =< n => p[i] = q[i]}
  <2>1. 0 \in S
    BY <1>2
  <2>2. ASSUME NEW i \in Nat, i \in S PROVE i + 1 \in S
    BY <1>2, <2>2
  <2> HIDE DEF S
  <2>3. \A i \in Nat : i \in S
    BY <2>1, <2>2, AllNat
  <2> QED BY <2>3 DEF S
<1> DEFINE pick == [n \in Nat |-> CHOOSE p : Upto(p, n)]
           f == [n \in Nat |-> pick[n][n]]
<1>3. \A n \in Nat : Upto(pick[n], n)
  <2> HIDE DEF Upto
  <2> QED BY <1>1
<1> HIDE DEF pick
<1>4. f \in [Nat -> V] /\ f[0] = a
  <2>1. \A n \in Nat : f[n] \in V
    BY <1>3
  <2> QED BY <1>3, <2>1
<1>5. ASSUME NEW n \in Nat PROVE f[n + 1] = G[f[n]]
  <2>1. f[n] = pick[n][n] /\ f[n + 1] = pick[n + 1][n + 1]
    OBVIOUS
  <2> HIDE DEF f
  <2>2. n + 1 \in Nat /\ n =< n + 1 /\ n =< n
    OBVIOUS
  <2>3. pick[n + 1][n + 1] = G[pick[n + 1][n]]
    BY <1>3, <2>2
  <2>4. pick[n][n] = pick[n + 1][n]
    <3> HIDE DEF Upto
    <3>1. Upto(pick[n], n) /\ Upto(pick[n + 1], n + 1)
      BY <1>3, <2>2
    <3> QED BY <1>2, <2>2, <3>1
  <2> QED BY <2>1, <2>3, <2>4
<1> HIDE DEF f
<1> QED BY <1>4, <1>5

LEMMA Recursion ==
    ASSUME NEW V, NEW a \in V, NEW G \in [V -> V]
    PROVE  \E f \in [Nat -> V] : \A n \in Nat : f[n] = IF n = 0 THEN a ELSE G[f[n - 1]]
<1>1. PICK f \in [Nat -> V] : f[0] = a /\ \A n \in Nat : f[n + 1] = G[f[n]]
  BY RecursionExists
<1>2. \A n \in Nat : f[n] = IF n = 0 THEN a ELSE G[f[n - 1]]
  <2>1. ASSUME NEW n \in Nat, n # 0 PROVE f[n] = G[f[n - 1]]
    <3>1. n - 1 \in Nat /\ n = (n - 1) + 1
      BY <2>1
    <3> QED BY <1>1, <3>1
  <2> QED BY <1>1, <2>1
<1> QED BY <1>2

-----------------------------------------------------------------------------
(* Types.                                                                  *)

\* What a request knows at each step.
Knows(q) ==
    /\ q.pc \in {"save", "import", "create"} => q.m \in Macs /\ q.row \in ClientRow
    /\ q.pc \in {"revive", "insert"} => q.g \in ClientGroups /\ q.grow \in ClientGroupRow
    /\ q.pc \in {"clear", "delete"} => q.g \in ClientGroups
    /\ InMenuRequest(q) => q.m \in Macs
    /\ q.pc = "group" => q.g \in ClientGroups
    /\ q.pc \in {"group", "assigned", "public"} => q.row \in ClientRow

ReqOK == req \in [Requests -> Request] /\ \A r \in Requests : Knows(req[r])

RowsOK ==
    /\ client \in [Macs -> ClientRow \cup {None}]
    /\ cgroup \in [ClientGroups -> ClientGroupRow \cup {None}]
    /\ image \in [Images -> ImageRow \cup {None}]
    /\ igroup \in Tables

\* A client group is only soft-deleted: who has read it finds its row.
Kept == \A r \in Requests : req[r].pc \in {"clear", "delete"} => cgroup[req[r].g] # None

MiscOK == ops \in 0..MaxOps /\ theme \in Themes /\ tools \in BOOLEAN

PastOK == past \in [Requests -> Past]

ListedOK == listed \in [Requests -> Tables]

AnswerOK == answer \in [outcome: {"served", "panic", "overflow"}, mb: MenuBuilder] \cup {None}

Types == ReqOK /\ RowsOK /\ Kept /\ MiscOK /\ PastOK /\ ListedOK /\ AnswerOK

LEMMA TypesAreTypeOK == Types => TypeOK
BY DEF Types, ReqOK, RowsOK, MiscOK, PastOK, ListedOK, AnswerOK, TypeOK, AccessTypeOK

LEMMA NoImagesTyped == NoImages \in Shown
<1>1. NoImages \in [{} -> GroupIds \cup {0}]
  BY DEF NoImages
<1> QED BY <1>1 DEF Shown

LEMMA IdleTyped ==
    /\ Idle \in Request /\ Idle.pc = "idle" /\ Idle.imgs = NoImages
    /\ Knows(Idle) /\ ~InMenuRequest(Idle)
<1>1. Idle \in Request /\ Idle.pc = "idle" /\ Idle.imgs = NoImages
  BY NoImagesTyped DEF Idle, Request
<1> QED BY <1>1 DEF Knows, InMenuRequest

Others(r) == \A s \in Requests \ {r} : req'[s] = req[s]

LEMMA BecomesStep ==
    ASSUME ReqOK, NEW r \in Requests, NEW q \in Request, Knows(q), Becomes(r, q)
    PROVE  ReqOK' /\ req'[r] = q /\ Others(r)
BY DEF ReqOK, Becomes, Others

LEMMA DoneStep ==
    ASSUME ReqOK, NEW r \in Requests, Done(r)
    PROVE  ReqOK' /\ req'[r] = Idle /\ Others(r)
BY BecomesStep, IdleTyped DEF Done

LEMMA BeginStep ==
    ASSUME MiscOK, NEW r \in Requests, Begin(r)
    PROVE  ops' \in 0..MaxOps
BY AccessAssumption DEF MiscOK, Begin

LEMMA OpsStep ==
    ASSUME MiscOK, NEW r \in Requests, NEW pc, At(r, pc) \/ Fails(r, pc)
    PROVE  ops' \in 0..MaxOps
BY AccessAssumption DEF MiscOK, At, Fails

\* A client's row, read or stored.
LEMMA ClientTyped ==
    ASSUME RowsOK, NEW m \in Macs, client[m] # None
    PROVE  client[m] \in ClientRow
BY DEF RowsOK

LEMMA ClientStep ==
    ASSUME RowsOK, NEW m \in Macs, NEW row \in ClientRow \cup {None},
           client' = [client EXCEPT ![m] = row]
    PROVE  client' \in [Macs -> ClientRow \cup {None}]
BY DEF RowsOK

LEMMA WriteNextStep ==
    ASSUME RowsOK, NEW m \in Macs, NEW f \in Images \cup {None}, WriteNext(m, f)
    PROVE  client' \in [Macs -> ClientRow \cup {None}]
<1>1. CASE client[m] = None
  BY <1>1 DEF WriteNext, RowsOK
<1>2. CASE client[m] # None
  <2> DEFINE row == [client[m] EXCEPT !.next = f]
  <2>1. client[m] \in ClientRow
    BY <1>2, ClientTyped
  <2>2. row \in ClientRow
    BY <2>1 DEF ClientRow
  <2>3. client' = [client EXCEPT ![m] = row]
    BY <1>2 DEF WriteNext, RowsOK
  <2> HIDE DEF row
  <2> QED BY <2>2, <2>3, ClientStep
<1> QED BY <1>1, <1>2

LEMMA GroupStep ==
    ASSUME RowsOK, NEW g \in ClientGroups, NEW row \in ClientGroupRow,
           cgroup' = [cgroup EXCEPT ![g] = row]
    PROVE  /\ cgroup' \in [ClientGroups -> ClientGroupRow \cup {None}]
           /\ \A h \in ClientGroups : cgroup[h] # None => cgroup'[h] # None
BY NoneIsNoRow DEF RowsOK

-----------------------------------------------------------------------------
(* The steps of the administrative requests.                               *)

\* Requests of machines go on unchanged.
Plain == \A s \in Requests : req'[s] = req[s] \/ ~InMenuRequest(req'[s])

StepOK == ReqOK' /\ RowsOK' /\ Kept' /\ MiscOK'

Known == ReqOK /\ RowsOK /\ Kept /\ MiscOK

LEMMA KeptStep ==
    ASSUME Known, NEW r \in Requests, Others(r),
           \A h \in ClientGroups : cgroup[h] # None => cgroup'[h] # None,
           req'[r].pc \in {"clear", "delete"} => cgroup'[req'[r].g] # None
    PROVE  Kept'
<1> SUFFICES ASSUME NEW s \in Requests, req'[s].pc \in {"clear", "delete"}
             PROVE  cgroup'[req'[s].g] # None
  BY DEF Kept
<1>1. CASE s = r
  BY <1>1
<1>2. CASE s # r
  <2>1. req'[s] = req[s]
    BY <1>2 DEF Others
  <2>2. req[s].g \in ClientGroups /\ cgroup[req[s].g] # None
    BY <2>1 DEF Known, ReqOK, Knows, Kept
  <2> QED BY <2>1, <2>2
<1> QED BY <1>1, <1>2

\* A request that begins: it has read what it needs.
LEMMA ReadStep ==
    ASSUME Known, NEW r \in Requests, NEW q \in Request, Knows(q), Becomes(r, q),
           ~InMenuRequest(q), q.pc \in {"clear", "delete"} => cgroup[q.g] # None,
           UNCHANGED <<client, cgroup, image, igroup, theme, tools>>, ops' \in 0..MaxOps
    PROVE  StepOK /\ Plain
<1>1. ReqOK' /\ req'[r] = q /\ Others(r)
  BY BecomesStep DEF Known
<1>2. Kept'
  BY <1>1, KeptStep
<1> QED BY <1>1, <1>2 DEF StepOK, Plain, Others, Known, RowsOK, MiscOK

\* A request that writes in its only step, or the last of several.
LEMMA WriteStep ==
    ASSUME Known, NEW r \in Requests, req' = req \/ Done(r),
           RowsOK', MiscOK', \A h \in ClientGroups : cgroup[h] # None => cgroup'[h] # None
    PROVE  StepOK /\ Plain
<1>1. ReqOK' /\ Others(r) /\ (req'[r] = req[r] \/ req'[r] = Idle)
  BY DoneStep DEF Known, ReqOK, Others
<1>2. req'[r].pc \in {"clear", "delete"} => cgroup'[req'[r].g] # None
  <2>1. CASE req'[r] = Idle
    BY <2>1, IdleTyped
  <2>2. CASE req'[r] = req[r]
    BY <2>2 DEF Known, ReqOK, Knows, Kept
  <2> QED BY <1>1, <2>1, <2>2
<1>3. Kept'
  BY <1>1, <1>2, KeptStep
<1>4. Plain
  BY <1>1, IdleTyped DEF Plain, Others, InMenuRequest
<1> QED BY <1>1, <1>3, <1>4 DEF StepOK

Rest == UNCHANGED <<igroup, theme, tools>>

\* The requests that are begun with the columns of a client's row.
LEMMA RowReadStep ==
    ASSUME Known, NEW r \in Requests, NEW m \in Macs, NEW row \in ClientRow,
           NEW pc \in {"save", "import"}, Begin(r),
           Becomes(r, [Idle EXCEPT !.pc = pc, !.m = m, !.row = row]),
           UNCHANGED <<client, cgroup, image, igroup, theme, tools>>
    PROVE  StepOK /\ Plain
<1> DEFINE q == [Idle EXCEPT !.pc = pc, !.m = m, !.row = row]
<1>1. q \in Request /\ q.pc = pc /\ q.m = m /\ q.row = row
  BY IdleTyped DEF Request, Idle
<1>2. Becomes(r, q)
  OBVIOUS
<1> HIDE DEF q
<1>3. Knows(q) /\ ~InMenuRequest(q) /\ q.pc \notin {"clear", "delete"}
  BY <1>1 DEF Knows, InMenuRequest
<1>4. ops' \in 0..MaxOps
  BY BeginStep DEF Known
<1> QED BY <1>1, <1>2, <1>3, <1>4, ReadStep

LEMMA UpdateClientOK ==
    ASSUME Known, NEW r \in Requests, UpdateClient(r), Rest PROVE StepOK /\ Plain
<1>1. PICK m \in Macs, e \in BOOLEAN, s \in BOOLEAN, g \in Nameable :
        /\ client[m] # None
        /\ Becomes(r, [Idle EXCEPT !.pc = "save", !.m = m,
                !.row = [client[m] EXCEPT !.enabled = e, !.showPublic = s, !.group = g]])
  BY DEF UpdateClient
<1> DEFINE row == [client[m] EXCEPT !.enabled = e, !.showPublic = s, !.group = g]
<1>2. client[m] \in ClientRow /\ g \in ClientGroups \cup {None}
  BY <1>1, ClientTyped DEF Known, Nameable
<1>3. row \in ClientRow
  BY <1>2 DEF ClientRow
<1>4. Begin(r) /\ UNCHANGED <<client, cgroup, image, igroup, theme, tools>>
      /\ Becomes(r, [Idle EXCEPT !.pc = "save", !.m = m, !.row = row])
  BY <1>1 DEF UpdateClient, Rest
<1> HIDE DEF row
<1> QED BY <1>3, <1>4, RowReadStep

LEMMA PromoteClientOK ==
    ASSUME Known, NEW r \in Requests, PromoteClient(r), Rest PROVE StepOK /\ Plain
<1>1. PICK m \in Macs :
        /\ client[m] # None
        /\ Becomes(r, [Idle EXCEPT !.pc = "save", !.m = m,
                                   !.row = [client[m] EXCEPT !.static = TRUE]])
  BY DEF PromoteClient
<1> DEFINE row == [client[m] EXCEPT !.static = TRUE]
<1>2. client[m] \in ClientRow
  BY <1>1, ClientTyped DEF Known
<1>3. row \in ClientRow
  BY <1>2 DEF ClientRow
<1>4. Begin(r) /\ UNCHANGED <<client, cgroup, image, igroup, theme, tools>>
      /\ Becomes(r, [Idle EXCEPT !.pc = "save", !.m = m, !.row = row])
  BY <1>1 DEF PromoteClient, Rest
<1> HIDE DEF row
<1> QED BY <1>3, <1>4, RowReadStep

LEMMA ImportClientsCSVOK ==
    ASSUME Known, NEW r \in Requests, ImportClientsCSV(r), Rest PROVE StepOK /\ Plain
<1>1. PICK m \in Macs, row \in ImportRows :
        Becomes(r, [Idle EXCEPT !.pc = "import", !.m = m, !.row = row])
  BY DEF ImportClientsCSV
<1>2. row \in ClientRow
  BY ImportAssumption
<1>3. Begin(r) /\ UNCHANGED <<client, cgroup, image, igroup, theme, tools>>
  BY DEF ImportClientsCSV, Rest
<1> QED BY <1>1, <1>2, <1>3, RowReadStep

LEMMA ImportLookupOK ==
    ASSUME Known, NEW r \in Requests, ImportLookup(r), Rest PROVE StepOK /\ Plain
<1> DEFINE pc == IF client[req[r].m] = None THEN "create" ELSE "save"
           q == [req[r] EXCEPT !.pc = pc]
<1>1. req[r] \in Request /\ req[r].pc = "import" /\ req[r].m \in Macs /\ req[r].row \in ClientRow
  BY DEF Known, ReqOK, Knows, ImportLookup, At
<1>2. pc \in {"create", "save"}
  OBVIOUS
<1>3. Becomes(r, q) /\ ops' = ops /\ UNCHANGED <<client, cgroup, image, igroup, theme, tools>>
  BY DEF ImportLookup, Next1, At, Rest
<1> HIDE DEF pc
<1>4. q \in Request /\ q.pc = pc /\ q.m = req[r].m /\ q.row = req[r].row
  BY <1>1, <1>2 DEF Request
<1> HIDE DEF q
<1>5. Knows(q) /\ ~InMenuRequest(q) /\ q.pc \notin {"clear", "delete"}
  BY <1>1, <1>2, <1>4 DEF Knows, InMenuRequest
<1> QED BY <1>3, <1>4, <1>5, ReadStep DEF Known, MiscOK

\* The writes to the clients table.
LEMMA ClientWriteStep ==
    ASSUME Known, NEW r \in Requests, req' = req \/ Done(r), ops' \in 0..MaxOps,
           client' \in [Macs -> ClientRow \cup {None}], UNCHANGED <<cgroup, image>>, Rest
    PROVE  StepOK /\ Plain
<1>1. RowsOK' /\ MiscOK'
  BY DEF Known, RowsOK, MiscOK, Rest
<1> QED BY <1>1, WriteStep

LEMMA SaveClientOK ==
    ASSUME Known, NEW r \in Requests, SaveClient(r), Rest PROVE StepOK /\ Plain
<1> DEFINE m == req[r].m  new == req[r].row  row == SelectedColumns(client[m], new)
<1>1. m \in Macs /\ new \in ClientRow
  BY DEF Known, ReqOK, Knows, SaveClient, At
<1>2. client' \in [Macs -> ClientRow \cup {None}]
  <2>1. CASE client[m] = None
    BY <2>1 DEF SaveClient, UpdateClientRow, Known, RowsOK
  <2>2. CASE client[m] # None
    <3>1. client[m] \in ClientRow
      BY <1>1, <2>2, ClientTyped DEF Known
    <3>2. row \in ClientRow
      BY <1>1, <3>1 DEF SelectedColumns, ClientRow
    <3>3. client' = [client EXCEPT ![m] = row]
      BY <2>2 DEF SaveClient, UpdateClientRow
    <3> HIDE DEF row
    <3> QED BY <1>1, <3>2, <3>3, ClientStep DEF Known
  <2> QED BY <2>1, <2>2
<1> QED BY <1>2, ClientWriteStep DEF SaveClient, At, Known, MiscOK

LEMMA DeleteClientOK ==
    ASSUME Known, NEW r \in Requests, DeleteClient(r), Rest PROVE StepOK /\ Plain
<1>1. client' \in [Macs -> ClientRow \cup {None}]
  BY ClientStep DEF DeleteClient, Known
<1> QED BY <1>1, ClientWriteStep, BeginStep DEF DeleteClient, Known

LEMMA AssignImagesOK ==
    ASSUME Known, NEW r \in Requests, AssignImages(r), Rest PROVE StepOK /\ Plain
<1>1. PICK m \in Macs, S \in SUBSET Images :
         client[m] # None /\ client' = [client EXCEPT ![m].allowed = S]
  BY DEF AssignImages
<1> DEFINE row == [client[m] EXCEPT !.allowed = S]
<1>2. client[m] \in ClientRow
  BY <1>1, ClientTyped DEF Known
<1>3. row \in ClientRow
  BY <1>2 DEF ClientRow
<1>4. client' = [client EXCEPT ![m] = row]
  BY <1>1 DEF Known, RowsOK
<1> HIDE DEF row
<1>5. client' \in [Macs -> ClientRow \cup {None}]
  BY <1>3, <1>4, ClientStep DEF Known
<1> QED BY <1>5, ClientWriteStep, BeginStep DEF AssignImages, Known

LEMMA SetNextBootImageOK ==
    ASSUME Known, NEW r \in Requests, SetNextBootImage(r), Rest PROVE StepOK /\ Plain
<1>1. client' \in [Macs -> ClientRow \cup {None}]
  BY WriteNextStep DEF SetNextBootImage, Known
<1> QED BY <1>1, ClientWriteStep, BeginStep DEF SetNextBootImage, Known

LEMMA ImportCreateOK ==
    ASSUME Known, NEW r \in Requests, ImportCreate(r), Rest PROVE StepOK /\ Plain
<1> DEFINE m == req[r].m  row == [req[r].row EXCEPT !.enabled = TRUE, !.showPublic = TRUE]
<1>1. m \in Macs /\ req[r].row \in ClientRow
  BY DEF Known, ReqOK, Knows, ImportCreate, At
<1>2. row \in ClientRow
  BY <1>1 DEF ClientRow
<1>3. client' = client \/ client' = [client EXCEPT ![m] = row]
  BY DEF ImportCreate, CreateClientRow
<1> HIDE DEF row
<1>4. client' \in [Macs -> ClientRow \cup {None}]
  BY <1>1, <1>2, <1>3, ClientStep DEF Known, RowsOK
<1> QED BY <1>4, ClientWriteStep DEF ImportCreate, At, Known, MiscOK

LEMMA SetClientGroupMembershipOK ==
    ASSUME Known, NEW r \in Requests, SetClientGroupMembership(r), Rest PROVE StepOK /\ Plain
<1>1. PICK m \in Macs, g \in Nameable :
         client[m] # None /\ client' = [client EXCEPT ![m].group = g]
  BY DEF SetClientGroupMembership
<1> DEFINE row == [client[m] EXCEPT !.group = g]
<1>2. client[m] \in ClientRow /\ g \in ClientGroups \cup {None}
  BY <1>1, ClientTyped DEF Known, Nameable
<1>3. row \in ClientRow
  BY <1>2 DEF ClientRow
<1>4. client' = [client EXCEPT ![m] = row]
  BY <1>1 DEF Known, RowsOK
<1> HIDE DEF row
<1>5. client' \in [Macs -> ClientRow \cup {None}]
  BY <1>3, <1>4, ClientStep DEF Known
<1> QED BY <1>5, ClientWriteStep, BeginStep DEF SetClientGroupMembership, Known

\* The client groups.
LEMMA GroupWriteStep ==
    ASSUME Known, NEW r \in Requests, req' = req \/ Done(r), ops' \in 0..MaxOps,
           NEW g \in ClientGroups, NEW row \in ClientGroupRow,
           cgroup' = cgroup \/ cgroup' = [cgroup EXCEPT ![g] = row],
           UNCHANGED <<client, image>>, Rest
    PROVE  StepOK /\ Plain
<1>1. /\ cgroup' \in [ClientGroups -> ClientGroupRow \cup {None}]
      /\ \A h \in ClientGroups : cgroup[h] # None => cgroup'[h] # None
  BY GroupStep DEF Known, RowsOK
<1>2. RowsOK' /\ MiscOK'
  BY <1>1 DEF Known, RowsOK, MiscOK, Rest
<1> QED BY <1>1, <1>2, WriteStep

LEMMA CreateClientGroupOK ==
    ASSUME Known, NEW r \in Requests, CreateClientGroup(r), Rest PROVE StepOK /\ Plain
<1>1. PICK g \in ClientGroups, e \in BOOLEAN, S \in SUBSET Images :
        Becomes(r, [Idle EXCEPT !.g = g,
            !.pc = IF cgroup[g] # None /\ cgroup[g].deleted THEN "revive" ELSE "insert",
            !.grow = [enabled |-> e, allowed |-> S, deleted |-> FALSE]])
  BY DEF CreateClientGroup
<1> DEFINE pc == IF cgroup[g] # None /\ cgroup[g].deleted THEN "revive" ELSE "insert"
           grow == [enabled |-> e, allowed |-> S, deleted |-> FALSE]
           q == [Idle EXCEPT !.g = g, !.pc = pc, !.grow = grow]
<1>2. pc \in {"revive", "insert"} /\ grow \in ClientGroupRow
  BY DEF ClientGroupRow
<1>3. Becomes(r, q) /\ Begin(r) /\ UNCHANGED <<client, cgroup, image, igroup, theme, tools>>
  BY <1>1 DEF CreateClientGroup, Rest
<1> HIDE DEF pc, grow
<1>4. q \in Request /\ q.pc = pc /\ q.g = g /\ q.grow = grow
  BY <1>2, IdleTyped DEF Request, Idle
<1> HIDE DEF q
<1>5. Knows(q) /\ ~InMenuRequest(q) /\ q.pc \notin {"clear", "delete"}
  BY <1>2, <1>4 DEF Knows, InMenuRequest
<1> QED BY <1>3, <1>4, <1>5, ReadStep, BeginStep DEF Known

LEMMA ReviveClientGroupOK ==
    ASSUME Known, NEW r \in Requests, ReviveClientGroup(r), Rest PROVE StepOK /\ Plain
<1>1. req[r].g \in ClientGroups /\ req[r].grow \in ClientGroupRow
  BY DEF Known, ReqOK, Knows, ReviveClientGroup, At
<1> QED BY <1>1, GroupWriteStep DEF ReviveClientGroup, At, Known, MiscOK

LEMMA InsertClientGroupOK ==
    ASSUME Known, NEW r \in Requests, InsertClientGroup(r), Rest PROVE StepOK /\ Plain
<1> DEFINE row == [req[r].grow EXCEPT !.enabled = TRUE]
<1>1. req[r].g \in ClientGroups /\ req[r].grow \in ClientGroupRow
  BY DEF Known, ReqOK, Knows, InsertClientGroup, At
<1>2. row \in ClientGroupRow
  BY <1>1 DEF ClientGroupRow
<1>3. cgroup' = cgroup \/ cgroup' = [cgroup EXCEPT ![req[r].g] = row]
  BY DEF InsertClientGroup
<1> HIDE DEF row
<1> QED BY <1>1, <1>2, <1>3, GroupWriteStep DEF InsertClientGroup, At, Known, MiscOK

LEMMA UpdateClientGroupOK ==
    ASSUME Known, NEW r \in Requests, UpdateClientGroup(r), Rest PROVE StepOK /\ Plain
<1>1. PICK g \in Listed, e \in BOOLEAN, S \in SUBSET Images :
         cgroup' = [cgroup EXCEPT ![g].enabled = e, ![g].allowed = S]
  BY DEF UpdateClientGroup
<1> DEFINE row == [cgroup[g] EXCEPT !.enabled = e, !.allowed = S]
<1>2. g \in ClientGroups /\ cgroup[g] \in ClientGroupRow
  BY DEF Listed, Live, Known, RowsOK
<1>3. row \in ClientGroupRow
  BY <1>2 DEF ClientGroupRow
<1>4. cgroup' = [cgroup EXCEPT ![g] = row]
  BY <1>1, <1>2 DEF Known, RowsOK
<1> HIDE DEF row
<1> QED BY <1>2, <1>3, <1>4, GroupWriteStep, BeginStep DEF UpdateClientGroup, Known

LEMMA DeleteClientGroupOK ==
    ASSUME Known, NEW r \in Requests, DeleteClientGroup(r), Rest PROVE StepOK /\ Plain
<1>1. PICK g \in Listed : Becomes(r, [Idle EXCEPT !.pc = "clear", !.g = g])
  BY DEF DeleteClientGroup
<1> DEFINE q == [Idle EXCEPT !.pc = "clear", !.g = g]
<1>2. g \in ClientGroups /\ cgroup[g] # None
  BY DEF Listed, Live
<1>3. Becomes(r, q) /\ Begin(r) /\ UNCHANGED <<client, cgroup, image, igroup, theme, tools>>
  BY <1>1 DEF DeleteClientGroup, Rest
<1>4. q \in Request /\ q.pc = "clear" /\ q.g = g
  BY <1>2, IdleTyped DEF Request, Idle
<1> HIDE DEF q
<1>5. Knows(q) /\ ~InMenuRequest(q)
  BY <1>2, <1>4 DEF Knows, InMenuRequest
<1> QED BY <1>2, <1>3, <1>4, <1>5, ReadStep, BeginStep DEF Known

LEMMA SoftDeleteGroupOK ==
    ASSUME Known, NEW r \in Requests, SoftDeleteGroup(r), Rest PROVE StepOK /\ Plain
<1> DEFINE g == req[r].g  row == [cgroup[g] EXCEPT !.deleted = TRUE]
<1>1. g \in ClientGroups /\ cgroup[g] # None
  BY DEF Known, ReqOK, Knows, Kept, SoftDeleteGroup, At
<1>2. cgroup[g] \in ClientGroupRow
  BY <1>1 DEF Known, RowsOK
<1>3. row \in ClientGroupRow
  BY <1>2 DEF ClientGroupRow
<1>4. cgroup' = [cgroup EXCEPT ![g] = row]
  BY <1>1 DEF Known, RowsOK, SoftDeleteGroup
<1> HIDE DEF row
<1> QED BY <1>1, <1>3, <1>4, GroupWriteStep DEF SoftDeleteGroup, At, Known, MiscOK

LEMMA ClearMembersOK ==
    ASSUME Known, NEW r \in Requests, ClearMembers(r), Rest PROVE StepOK /\ Plain
<1> DEFINE q == [req[r] EXCEPT !.pc = "delete"]
<1>1. req[r] \in Request /\ req[r].g \in ClientGroups /\ cgroup[req[r].g] # None
  BY DEF Known, ReqOK, Knows, Kept, ClearMembers, At
<1>2. \A m \in Macs : client[m] # None => [client[m] EXCEPT !.group = None] \in ClientRow
  BY DEF Known, RowsOK, ClientRow
<1>3. client' \in [Macs -> ClientRow \cup {None}]
  <2>1. client' = [m \in Macs |-> IF client[m] # None /\ client[m].group = req[r].g
                                  THEN [client[m] EXCEPT !.group = None] ELSE client[m]]
    BY DEF ClearMembers
  <2> QED BY <1>2, <2>1 DEF Known, RowsOK
<1>4. q \in Request /\ q.pc = "delete" /\ q.g = req[r].g
  BY <1>1 DEF Request
<1>5. Becomes(r, q) /\ ops' = ops /\ UNCHANGED <<cgroup, image, igroup, theme, tools>>
  BY DEF ClearMembers, Next1, At, Rest
<1> HIDE DEF q
<1>6. Knows(q) /\ ~InMenuRequest(q)
  BY <1>1, <1>4 DEF Knows, InMenuRequest
<1>7. ReqOK' /\ req'[r] = q /\ Others(r)
  BY <1>4, <1>5, <1>6, BecomesStep DEF Known
<1>8. Kept'
  BY <1>1, <1>4, <1>5, <1>7, KeptStep
<1> QED BY <1>3, <1>5, <1>6, <1>7, <1>8 DEF StepOK, Plain, Others, Known, RowsOK, MiscOK

LEMMA SetNextBootForClientGroupOK ==
    ASSUME Known, NEW r \in Requests, SetNextBootForClientGroup(r), Rest PROVE StepOK /\ Plain
<1>1. PICK g \in Listed, f \in Images \cup {None} :
        Becomes(r, [Idle EXCEPT !.pc = "next", !.next = f,
            !.members = {m \in Macs : client[m] # None /\ client[m].group = g
                                      /\ client[m].enabled}])
  BY DEF SetNextBootForClientGroup
<1> DEFINE M == {m \in Macs : client[m] # None /\ client[m].group = g /\ client[m].enabled}
           q == [Idle EXCEPT !.pc = "next", !.next = f, !.members = M]
<1>2. Becomes(r, q) /\ Begin(r) /\ UNCHANGED <<client, cgroup, image, igroup, theme, tools>>
  BY <1>1 DEF SetNextBootForClientGroup, Rest
<1>3. M \in SUBSET Macs
  OBVIOUS
<1> HIDE DEF M
<1>4. q \in Request /\ q.pc = "next"
  BY <1>3, IdleTyped DEF Request, Idle
<1> HIDE DEF q
<1>5. Knows(q) /\ ~InMenuRequest(q) /\ q.pc \notin {"clear", "delete"}
  BY <1>4 DEF Knows, InMenuRequest
<1> QED BY <1>2, <1>4, <1>5, ReadStep, BeginStep DEF Known

LEMMA SetNextBootOfMemberOK ==
    ASSUME Known, NEW r \in Requests, SetNextBootOfMember(r), Rest PROVE StepOK /\ Plain
<1>1. req[r] \in Request /\ req[r].pc = "next" /\ req[r].members \subseteq Macs
      /\ req[r].next \in Images \cup {None} /\ ops' = ops /\ UNCHANGED <<cgroup, image>>
  BY DEF Known, ReqOK, SetNextBootOfMember, At, Request
<1>2. CASE Done(r) /\ UNCHANGED client
  <2>1. client' \in [Macs -> ClientRow \cup {None}] /\ ops' \in 0..MaxOps
    BY <1>1, <1>2 DEF Known, RowsOK, MiscOK
  <2> QED BY <1>1, <1>2, <2>1, ClientWriteStep
<1>3. ASSUME NEW m \in req[r].members, WriteNext(m, req[r].next),
             Becomes(r, [req[r] EXCEPT !.members = @ \ {m}])
      PROVE  StepOK /\ Plain
  <2> DEFINE M == req[r].members \ {m}  q == [req[r] EXCEPT !.members = M]
  <2>1. Becomes(r, q) /\ M \in SUBSET Macs
    BY <1>1, <1>3
  <2> HIDE DEF M
  <2>2. q \in Request /\ q.pc = "next"
    BY <1>1, <2>1 DEF Request
  <2> HIDE DEF q
  <2>3. Knows(q) /\ ~InMenuRequest(q)
    BY <2>2 DEF Knows, InMenuRequest
  <2>4. ReqOK' /\ req'[r] = q /\ Others(r)
    BY <2>1, <2>2, <2>3, BecomesStep DEF Known
  <2>5. Kept'
    BY <1>1, <2>2, <2>4, KeptStep
  <2>6. client' \in [Macs -> ClientRow \cup {None}]
    BY <1>1, <1>3, WriteNextStep DEF Known
  <2> QED BY <1>1, <2>3, <2>4, <2>5, <2>6 DEF StepOK, Plain, Others, Known, RowsOK, MiscOK, Rest
<1> QED BY <1>2, <1>3 DEF SetNextBootOfMember

\* Images and their groups.
LEMMA MenuTableStep ==
    ASSUME Known, NEW r \in Requests, req' = req, Begin(r), UNCHANGED <<client, cgroup>>,
           image' \in [Images -> ImageRow \cup {None}], igroup' \in Tables,
           theme' \in Themes, tools' \in BOOLEAN
    PROVE  StepOK /\ Plain
<1>1. RowsOK' /\ MiscOK'
  BY BeginStep DEF Known, RowsOK, MiscOK
<1> QED BY <1>1, WriteStep

LEMMA ImageGroupStep ==
    ASSUME RowsOK, NEW g \in GroupIds, NEW p \in GroupIds \cup {0}, NEW e \in BOOLEAN,
           igroup' = [igroup EXCEPT ![g] = [parent |-> p, enabled |-> e]]
    PROVE  igroup' \in Tables
<1> DEFINE row == [parent |-> p, enabled |-> e]
<1>1. row \in ImageGroupRow
  BY DEF ImageGroupRow
<1> HIDE DEF row
<1> QED BY <1>1 DEF RowsOK, Tables, row

LEMMA ImageGroupsOK ==
    ASSUME Known, NEW r \in Requests,
           CreateImageGroup(r) \/ UpdateImageGroup(r) \/ DeleteImageGroup(r)
    PROVE  StepOK /\ Plain
<1>1. igroup' \in Tables
  <2>1. CASE CreateImageGroup(r)
    BY <2>1, ImageGroupStep DEF CreateImageGroup, Known
  <2>2. CASE UpdateImageGroup(r)
    BY <2>2, ImageGroupStep DEF UpdateImageGroup, Known
  <2>3. CASE DeleteImageGroup(r)
    BY <2>3 DEF DeleteImageGroup, Known, RowsOK, Tables
  <2> QED BY <2>1, <2>2, <2>3
<1>2. Begin(r) /\ UNCHANGED <<client, cgroup, image, req, theme, tools>>
  BY DEF CreateImageGroup, UpdateImageGroup, DeleteImageGroup
<1> QED BY <1>1, <1>2, MenuTableStep DEF Known, RowsOK, MiscOK

LEMMA UpdateImageOK ==
    ASSUME Known, NEW r \in Requests, UpdateImage(r) PROVE StepOK /\ Plain
<1>1. PICK f \in Images, flag \in BOOLEAN, g \in GroupIds \cup {0} :
         /\ image[f] # None
         /\ \/ image' = [image EXCEPT ![f].enabled = flag]
            \/ image' = [image EXCEPT ![f].public = flag]
            \/ image' = [image EXCEPT ![f].group = g]
  BY DEF UpdateImage
<1>2. image[f] \in ImageRow
  BY <1>1 DEF Known, RowsOK
<1>3. PICK row \in ImageRow : image' = [image EXCEPT ![f] = row]
  <2> DEFINE A == [image[f] EXCEPT !.enabled = flag]
             B == [image[f] EXCEPT !.public = flag]
             C == [image[f] EXCEPT !.group = g]
  <2>1. A \in ImageRow /\ B \in ImageRow /\ C \in ImageRow
    BY <1>2 DEF ImageRow
  <2>2. \/ image' = [image EXCEPT ![f] = A]
        \/ image' = [image EXCEPT ![f] = B]
        \/ image' = [image EXCEPT ![f] = C]
    BY <1>1 DEF Known, RowsOK
  <2> HIDE DEF A, B, C
  <2> QED BY <2>1, <2>2
<1>4. image' \in [Images -> ImageRow \cup {None}]
  BY <1>3 DEF Known, RowsOK
<1> QED BY <1>4, MenuTableStep DEF UpdateImage, Known, RowsOK, MiscOK

LEMMA DeleteImageOK ==
    ASSUME Known, NEW r \in Requests, DeleteImage(r) PROVE StepOK /\ Plain
<1>1. image' \in [Images -> ImageRow \cup {None}]
  BY DEF DeleteImage, Known, RowsOK
<1> QED BY <1>1, MenuTableStep DEF DeleteImage, Known, RowsOK, MiscOK

LEMMA SyncImagesOK ==
    ASSUME Known, NEW r \in Requests, SyncImages(r) PROVE StepOK /\ Plain
<1>1. PICK f \in Images, g \in GroupIds \cup {0},
           p \in {q \in GroupIds : igroup[q] # None} \cup {0} :
        /\ IF g = 0 THEN UNCHANGED igroup ELSE resolveGroupPath(g, p)
        /\ image' = [image EXCEPT ![f] =
                IF @ = None THEN [enabled |-> TRUE, public |-> TRUE, group |-> g]
                ELSE IF g = 0 THEN @ ELSE [@ EXCEPT !.group = g]]
  BY DEF SyncImages
<1>2. igroup' \in Tables
  <2>1. CASE UNCHANGED igroup
    BY <2>1 DEF Known, RowsOK
  <2>2. CASE g # 0 /\ resolveGroupPath(g, p)
    BY <2>2, ImageGroupStep DEF resolveGroupPath, Known, RowsOK
  <2> QED BY <1>1, <2>1, <2>2
<1> DEFINE A == [enabled |-> TRUE, public |-> TRUE, group |-> g]
           B == [image[f] EXCEPT !.group = g]
<1>3. A \in ImageRow
  BY DEF ImageRow
<1>4. image[f] # None => image[f] \in ImageRow
  BY DEF Known, RowsOK
<1>5. image[f] # None => B \in ImageRow
  BY <1>4 DEF ImageRow
<1>6. image' = [image EXCEPT ![f] = IF image[f] = None THEN A
                                    ELSE IF g = 0 THEN image[f] ELSE B]
  BY <1>1 DEF Known, RowsOK
<1> HIDE DEF A, B
<1>7. image' \in [Images -> ImageRow \cup {None}]
  BY <1>3, <1>4, <1>5, <1>6 DEF Known, RowsOK
<1> QED BY <1>2, <1>7, MenuTableStep DEF SyncImages, Known, RowsOK, MiscOK

LEMMA ThemeAndToolsOK ==
    ASSUME Known, NEW r \in Requests, UpdateMenuTheme(r) \/ ToolsChange(r)
    PROVE  StepOK /\ Plain
<1>1. theme' \in Themes /\ tools' \in BOOLEAN
  BY DEF UpdateMenuTheme, ToolsChange, Known, MiscOK
<1>2. Begin(r) /\ UNCHANGED <<client, cgroup, image, req, igroup>>
  BY DEF UpdateMenuTheme, ToolsChange
<1> QED BY <1>1, <1>2, MenuTableStep DEF Known, RowsOK

-----------------------------------------------------------------------------
(* The steps of a menu request.                                            *)

\* A step of a menu request that writes at most the next boot image.
LEMMA MenuStep ==
    ASSUME Known, NEW r \in Requests, NEW q \in Request, Knows(q), Becomes(r, q),
           ops' \in 0..MaxOps, InMenuRequest(q),
           client' \in [Macs -> ClientRow \cup {None}],
           UNCHANGED <<cgroup, image, igroup, theme, tools>>
    PROVE  StepOK /\ req'[r] = q /\ Others(r)
<1>1. ReqOK' /\ req'[r] = q /\ Others(r)
  BY BecomesStep DEF Known
<1>2. Kept'
  BY <1>1, KeptStep DEF InMenuRequest
<1> QED BY <1>1, <1>2 DEF StepOK, Known, RowsOK, MiscOK

\* A step that takes the list of images along as it is.
Carries(r) ==
    /\ Others(r) /\ req'[r].pc \in {"boot", "forget", "client", "parents"}
    /\ \/ req'[r].imgs = NoImages
       \/ InMenuRequest(req[r]) /\ req'[r].imgs = req[r].imgs /\ req'[r].lost = req[r].lost

LEMMA HandleIs ==
    ASSUME Known, NEW r \in Requests, handleIPXEMenu(r)
    PROVE  StepOK /\ Carries(r)
<1>1. PICK m \in Macs :
        \/ LET f == IF client[m] = None THEN None ELSE client[m].next IN
           Becomes(r, [Idle EXCEPT !.m = m, !.next = f,
                                   !.pc = IF f = None THEN "client" ELSE "boot"])
        \/ Becomes(r, [Idle EXCEPT !.m = m, !.pc = "client"])
  BY DEF handleIPXEMenu
<1> DEFINE Sent(f, pc) == [Idle EXCEPT !.m = m, !.next = f, !.pc = pc]
<1>2. PICK f \in Images \cup {None}, pc \in {"client", "boot"} : Becomes(r, Sent(f, pc))
  <2>1. CASE Becomes(r, [Idle EXCEPT !.m = m, !.pc = "client"])
    <3>1. [Idle EXCEPT !.m = m, !.pc = "client"]
            = [Idle EXCEPT !.m = m, !.next = Idle.next, !.pc = "client"]
      BY IdleTyped DEF Request
    <3>2. Becomes(r, Sent(None, "client"))
      BY <2>1, <3>1 DEF Idle
    <3> HIDE DEF Sent
    <3> QED BY <3>2
  <2>2. CASE LET f == IF client[m] = None THEN None ELSE client[m].next IN
             Becomes(r, [Idle EXCEPT !.m = m, !.next = f,
                                     !.pc = IF f = None THEN "client" ELSE "boot"])
    <3> DEFINE f == IF client[m] = None THEN None ELSE client[m].next
    <3>1. f \in Images \cup {None}
      BY DEF Known, RowsOK, ClientRow
    <3>2. Becomes(r, Sent(f, "client")) \/ Becomes(r, Sent(f, "boot"))
      BY <2>2
    <3> HIDE DEF Sent, f
    <3> QED BY <3>1, <3>2
  <2> QED BY <1>1, <2>1, <2>2
<1> DEFINE q == Sent(f, pc)
<1>3. Becomes(r, q) /\ UNCHANGED <<client, cgroup, image, igroup, theme, tools>>
      /\ ops' \in 0..MaxOps
  BY <1>2, OpsStep DEF handleIPXEMenu, Known
<1>4. q \in Request /\ q.pc = pc /\ q.m = m /\ q.imgs = NoImages
  BY IdleTyped DEF Request, Idle
<1> HIDE DEF q
<1>5. Knows(q) /\ InMenuRequest(q)
  BY <1>4 DEF Knows, InMenuRequest
<1>6. client' \in [Macs -> ClientRow \cup {None}]
  BY <1>3 DEF Known, RowsOK
<1> QED BY <1>3, <1>4, <1>5, <1>6, MenuStep DEF Carries

\* A step that changes where the request is, and perhaps its next boot image.
LEMMA CarryStep ==
    ASSUME Known, NEW r \in Requests, InMenuRequest(req[r]),
           NEW pc \in {"forget", "client", "parents"}, NEW f \in Images \cup {None},
           Becomes(r, [req[r] EXCEPT !.pc = pc, !.next = f]), ops' \in 0..MaxOps,
           client' \in [Macs -> ClientRow \cup {None}],
           UNCHANGED <<cgroup, image, igroup, theme, tools>>
    PROVE  StepOK /\ Carries(r)
<1> DEFINE q == [req[r] EXCEPT !.pc = pc, !.next = f]
<1>1. req[r] \in Request /\ req[r].m \in Macs /\ Becomes(r, q)
  BY DEF Known, ReqOK, Knows
<1>2. /\ q \in Request /\ q.pc = pc /\ q.m = req[r].m
      /\ q.imgs = req[r].imgs /\ q.lost = req[r].lost
  BY <1>1 DEF Request
<1> HIDE DEF q
<1>3. Knows(q) /\ InMenuRequest(q)
  BY <1>1, <1>2 DEF Knows, InMenuRequest
<1> QED BY <1>1, <1>2, <1>3, MenuStep DEF Carries

LEMMA NextBootIs ==
    ASSUME Known, NEW r \in Requests, GetNextBootImage(r) \/ ClearNextBootImage(r)
    PROVE  StepOK /\ Carries(r)
<1>1. req[r] \in Request /\ InMenuRequest(req[r]) /\ req[r].m \in Macs
  BY DEF Known, ReqOK, Knows, GetNextBootImage, ClearNextBootImage, At, Fails, InMenuRequest
<1>2. ops' \in 0..MaxOps /\ UNCHANGED <<cgroup, image, igroup, theme, tools>>
  BY OpsStep DEF GetNextBootImage, ClearNextBootImage, Known
<1>3. client' \in [Macs -> ClientRow \cup {None}]
  BY <1>1, WriteNextStep DEF GetNextBootImage, ClearNextBootImage, Known, RowsOK
<1>4. PICK pc \in {"forget", "client"} : Next1(r, pc)
                    \/ Becomes(r, [req[r] EXCEPT !.pc = pc, !.next = None])
  BY DEF GetNextBootImage, ClearNextBootImage
<1>5. [req[r] EXCEPT !.pc = pc] = [req[r] EXCEPT !.pc = pc, !.next = req[r].next]
  BY <1>1 DEF Request
<1>6. req[r].next \in Images \cup {None}
  BY <1>1 DEF Request
<1>7. PICK f \in Images \cup {None} : Becomes(r, [req[r] EXCEPT !.pc = pc, !.next = f])
  BY <1>4, <1>5, <1>6 DEF Next1
<1> QED BY <1>1, <1>2, <1>3, <1>7, CarryStep

LEMMA ListGroupsIs ==
    ASSUME Known, ListedOK, NEW r \in Requests, ListImageGroups(r)
    PROVE  StepOK /\ Carries(r) /\ ListedOK'
<1>1. req[r] \in Request /\ InMenuRequest(req[r])
  BY DEF Known, ReqOK, ListImageGroups, At, Fails, InMenuRequest
<1>2. ops' \in 0..MaxOps /\ UNCHANGED <<client, cgroup, image, igroup, theme, tools>>
  BY OpsStep DEF ListImageGroups, Known
<1>3. Becomes(r, [req[r] EXCEPT !.pc = "parents"])
  BY DEF ListImageGroups, Next1
<1>4. [req[r] EXCEPT !.pc = "parents"] = [req[r] EXCEPT !.pc = "parents", !.next = req[r].next]
      /\ req[r].next \in Images \cup {None}
  BY <1>1 DEF Request
<1>5. client' \in [Macs -> ClientRow \cup {None}]
  BY <1>2 DEF Known, RowsOK
<1>6. StepOK /\ Carries(r)
  BY <1>1, <1>2, <1>3, <1>4, <1>5, CarryStep
<1>7. listed' = listed \/ listed' = [listed EXCEPT ![r] = igroup]
  BY DEF ListImageGroups
<1>8. ListedOK'
  BY <1>7 DEF ListedOK, Known, RowsOK
<1> QED BY <1>6, <1>8

-----------------------------------------------------------------------------
(* The queries for images.                                                 *)

\* Lists of images.
LEMMA RowsAre ==
    ASSUME RowsOK, NEW S \in SUBSET Images, \A f \in S : Enabled(f)
    PROVE  Rows(S) \in Shown /\ DOMAIN Rows(S) = S
<1>1. \A f \in S : image[f].group \in GroupIds \cup {0}
  BY DEF Enabled, RowsOK, ImageRow
<1>2. Rows(S) \in [S -> GroupIds \cup {0}] /\ DOMAIN Rows(S) = S
  BY <1>1 DEF Rows
<1> QED BY <1>2 DEF Shown

LEMMA ShownIs ==
    ASSUME NEW imgs \in Shown
    PROVE  DOMAIN imgs \in SUBSET Images /\ imgs \in [DOMAIN imgs -> GroupIds \cup {0}]
BY DEF Shown

LEMMA WithIs ==
    ASSUME NEW imgs \in Shown, NEW more \in Shown
    PROVE  With(imgs, more) \in Shown /\ DOMAIN With(imgs, more) = DOMAIN imgs \cup DOMAIN more
<1> DEFINE D == DOMAIN imgs \cup DOMAIN more
<1>1. D \in SUBSET Images
  BY ShownIs
<1>2. /\ \A f \in DOMAIN imgs : imgs[f] \in GroupIds \cup {0}
      /\ \A f \in DOMAIN more : more[f] \in GroupIds \cup {0}
  BY ShownIs
<1>3. With(imgs, more) \in [D -> GroupIds \cup {0}]
  BY <1>2 DEF With
<1> HIDE DEF D
<1>4. DOMAIN With(imgs, more) = D
  BY <1>3
<1> QED BY <1>1, <1>3, <1>4 DEF Shown, D

\* Where a request goes on.
Follows(q, r) ==
    /\ q \in Request /\ q.m = req[r].m /\ InMenuRequest(q)
    /\ q.pc \in {"assigned", "public"} => q.row \in ClientRow
    /\ q.pc = "group" => q.row \in ClientRow /\ q.g \in ClientGroups

LEMMA QueryStep ==
    ASSUME Known, NEW r \in Requests, InMenuRequest(req[r]), NEW q, Follows(q, r), Becomes(r, q),
           ops' \in 0..MaxOps, UNCHANGED <<client, cgroup, image>>, Rest
    PROVE  StepOK /\ req'[r] = q /\ Others(r)
<1>1. req[r].m \in Macs
  BY DEF Known, ReqOK, Knows
<1>2. Knows(q)
  BY <1>1 DEF Follows, Knows, InMenuRequest
<1>3. client' \in [Macs -> ClientRow \cup {None}]
  BY DEF Known, RowsOK
<1> QED BY <1>2, <1>3, MenuStep DEF Follows, Rest

LEMMA CollectedIs ==
    ASSUME NEW q \in Request, NEW imgs \in Shown
    PROVE  LET c == Collected(q, imgs) IN
           c \in Request /\ c.pc = "groups" /\ c.m = q.m /\ c.imgs = imgs /\ c.lost = q.lost
BY DEF Collected, Request

\* What AskImages goes on with.
Asked(q, row, allowed, imgs) ==
    \/ q.pc = "assigned" /\ q.row = row /\ q.allowed = allowed /\ q.imgs = imgs
    \/ q.pc = "public" /\ q.row = row /\ row.showPublic /\ q.imgs = imgs
    \/ q.pc = "groups" /\ q.imgs = NoImages

LEMMA AskImagesIs ==
    ASSUME NEW q \in Request, q.row \in ClientRow
    PROVE  LET a == AskImages(q) IN
           a \in Request /\ a.m = q.m /\ a.lost = q.lost /\ Asked(a, q.row, q.allowed, q.imgs)
<1> DEFINE a == AskImages(q)
<1>1. CASE q.allowed # {}
  BY <1>1 DEF AskImages, Asked, Request
<1>2. CASE q.allowed = {} /\ q.row.showPublic
  BY <1>2 DEF AskImages, Asked, Request
<1>3. CASE q.allowed = {} /\ ~q.row.showPublic
  <2>1. a = Collected(q, NoImages)
    BY <1>3 DEF AskImages
  <2> HIDE DEF a
  <2>2. a \in Request /\ a.pc = "groups" /\ a.m = q.m /\ a.imgs = NoImages /\ a.lost = q.lost
    BY <2>1, CollectedIs, NoImagesTyped
  <2> QED BY <2>2 DEF Asked, a
<1> QED BY <1>1, <1>2, <1>3

LEMMA AskedIsAt ==
    ASSUME NEW q \in Request, NEW r, q.m = req[r].m, NEW row \in ClientRow, NEW allowed, NEW imgs,
           Asked(q, row, allowed, imgs)
    PROVE  Follows(q, r)
BY DEF Asked, Follows, InMenuRequest

\* What the client's row grants is what the request goes on with.
LEMMA ImagesOfClientIs ==
    ASSUME Known, NEW r \in Requests, ImagesOfClient(r), Rest
    PROVE  /\ StepOK /\ Others(r) /\ req[r].pc = "client" /\ req'[r].m = req[r].m
           /\ \/ req'[r].lost
              \/ LET row == client[req[r].m] IN
                 /\ req'[r].lost = req[r].lost
                 /\ \/ ~ActiveRow(row) /\ req'[r].pc = "all" /\ req'[r].imgs = req[r].imgs
                    \/ /\ ActiveRow(row) /\ row \in ClientRow
                       /\ Asked(req'[r], row, row.allowed, req[r].imgs)
                    \/ /\ ActiveRow(row) /\ row \in ClientRow /\ row.group \in ClientGroups
                       /\ req'[r].pc = "group" /\ req'[r].g = row.group /\ req'[r].row = row
                       /\ req'[r].allowed = row.allowed /\ req'[r].imgs = req[r].imgs
<1> DEFINE row == client[req[r].m]
<1>1. req[r] \in Request /\ req[r].pc = "client" /\ req[r].m \in Macs /\ InMenuRequest(req[r])
  BY DEF Known, ReqOK, Knows, ImagesOfClient, At, Fails, InMenuRequest
<1>2. ops' \in 0..MaxOps /\ UNCHANGED <<client, cgroup, image>>
  BY OpsStep DEF ImagesOfClient, Known
<1>3. CASE Becomes(r, [req[r] EXCEPT !.pc = "all", !.lost = TRUE])
  <2> DEFINE q == [req[r] EXCEPT !.pc = "all", !.lost = TRUE]
  <2>1. q \in Request /\ q.pc = "all" /\ q.lost /\ q.m = req[r].m /\ Becomes(r, q)
    BY <1>1, <1>3 DEF Request
  <2> HIDE DEF q
  <2>2. Follows(q, r)
    BY <2>1 DEF Follows, InMenuRequest
  <2> QED BY <1>1, <1>2, <2>1, <2>2, QueryStep
<1>4. CASE ~ActiveRow(row) /\ Next1(r, "all")
  <2> DEFINE q == [req[r] EXCEPT !.pc = "all"]
  <2>1. /\ q \in Request /\ q.pc = "all" /\ q.m = req[r].m /\ q.imgs = req[r].imgs
        /\ q.lost = req[r].lost /\ Becomes(r, q)
    BY <1>1, <1>4 DEF Request, Next1
  <2> HIDE DEF q
  <2>2. Follows(q, r)
    BY <2>1 DEF Follows, InMenuRequest
  <2> QED BY <1>1, <1>2, <1>4, <2>1, <2>2, QueryStep
<1>5. CASE /\ ActiveRow(row)
           /\ LET q == [req[r] EXCEPT !.row = row, !.g = row.group, !.allowed = row.allowed]
              IN Becomes(r, IF row.group = None THEN AskImages(q)
                            ELSE [q EXCEPT !.pc = "group"])
  <2> DEFINE q == [req[r] EXCEPT !.row = row, !.g = row.group, !.allowed = row.allowed]
  <2>1. row \in ClientRow
    BY <1>1, <1>5 DEF ActiveRow, Known, RowsOK
  <2>2. row.group \in ClientGroups \cup {None} /\ row.allowed \in SUBSET Images
    BY <2>1 DEF ClientRow
  <2>3. /\ q \in Request /\ q.m = req[r].m /\ q.row = row /\ q.g = row.group
        /\ q.allowed = row.allowed /\ q.imgs = req[r].imgs /\ q.lost = req[r].lost
    <3> HIDE DEF row
    <3> QED BY <1>1, <2>1, <2>2 DEF Request
  <2>4. CASE row.group = None
    <3> DEFINE a == AskImages(q)
    <3>1. Becomes(r, a)
      BY <1>5, <2>4
    <3>2. a \in Request /\ a.m = req[r].m /\ a.lost = req[r].lost
          /\ Asked(a, row, row.allowed, req[r].imgs)
      <4> HIDE DEF q, row
      <4> QED BY <2>1, <2>3, AskImagesIs
    <3> HIDE DEF a
    <3>3. Follows(a, r)
      <4> HIDE DEF row
      <4> QED BY <2>1, <3>2, AskedIsAt
    <3>4. StepOK /\ req'[r] = a /\ Others(r)
      BY <1>1, <1>2, <3>1, <3>3, QueryStep
    <3> QED BY <1>1, <1>5, <2>1, <3>2, <3>4
  <2>5. CASE row.group # None
    <3> DEFINE a == [q EXCEPT !.pc = "group"]
    <3>1. Becomes(r, a)
      BY <1>5, <2>5
    <3>2. /\ a \in Request /\ a.pc = "group" /\ a.m = req[r].m /\ a.lost = req[r].lost
          /\ a.row = row /\ a.g = row.group /\ a.allowed = row.allowed /\ a.imgs = req[r].imgs
      <4> HIDE DEF q, row
      <4> QED BY <2>3 DEF Request
    <3> HIDE DEF a
    <3>3. row.group \in ClientGroups
      BY <2>2, <2>5
    <3>4. Follows(a, r)
      <4> HIDE DEF row
      <4> QED BY <2>1, <3>2, <3>3 DEF Follows, InMenuRequest
    <3>5. StepOK /\ req'[r] = a /\ Others(r)
      BY <1>1, <1>2, <3>1, <3>4, QueryStep
    <3> QED BY <1>1, <1>5, <2>1, <3>2, <3>3, <3>5
  <2> QED BY <2>4, <2>5
<1> QED BY <1>3, <1>4, <1>5 DEF ImagesOfClient

LEMMA ImagesOfGroupIs ==
    ASSUME Known, NEW r \in Requests, ImagesOfGroup(r), Rest
    PROVE  /\ StepOK /\ Others(r) /\ req[r].pc = "group" /\ req[r].g \in ClientGroups
           /\ req'[r].m = req[r].m /\ req'[r].lost = req[r].lost
           /\ \E S \in SUBSET (req[r].allowed \cup GroupImages(req[r].g)) :
                 Asked(req'[r], req[r].row, S, req[r].imgs)
<1>1. /\ req[r] \in Request /\ req[r].pc = "group" /\ InMenuRequest(req[r])
      /\ req[r].g \in ClientGroups /\ req[r].row \in ClientRow
  BY DEF Known, ReqOK, Knows, ImagesOfGroup, At, Fails, InMenuRequest
<1>2. ops' \in 0..MaxOps /\ UNCHANGED <<client, cgroup, image>>
  BY OpsStep DEF ImagesOfGroup, Known
<1>3. PICK S \in {req[r].allowed, req[r].allowed \cup GroupImages(req[r].g)} :
         Becomes(r, AskImages([req[r] EXCEPT !.allowed = S]))
  <2>1. [req[r] EXCEPT !.allowed = req[r].allowed] = req[r]
    BY <1>1 DEF Request
  <2> QED BY <2>1 DEF ImagesOfGroup
<1>4. S \in SUBSET Images
  BY <1>1, <1>3 DEF GroupImages, Live, Known, RowsOK, ClientGroupRow, Request
<1> DEFINE q == [req[r] EXCEPT !.allowed = S]  a == AskImages(q)
<1>5. /\ q \in Request /\ q.m = req[r].m /\ q.row = req[r].row
      /\ q.allowed = S /\ q.imgs = req[r].imgs /\ q.lost = req[r].lost
  BY <1>1, <1>4 DEF Request
<1>6. a \in Request /\ a.m = req[r].m /\ a.lost = req[r].lost
      /\ Asked(a, req[r].row, S, req[r].imgs)
  <2> HIDE DEF q
  <2> QED BY <1>1, <1>5, AskImagesIs
<1>7. Becomes(r, a)
  BY <1>3
<1> HIDE DEF a
<1>8. Follows(a, r)
  BY <1>1, <1>6, AskedIsAt
<1>9. StepOK /\ req'[r] = a /\ Others(r)
  BY <1>1, <1>2, <1>7, <1>8, QueryStep
<1> QED BY <1>1, <1>3, <1>6, <1>9

LEMMA ImagesAssignedIs ==
    ASSUME Known, NEW r \in Requests, ImagesAssigned(r), Rest
    PROVE  /\ StepOK /\ Others(r) /\ req[r].pc = "assigned" /\ req'[r].m = req[r].m
           /\ req'[r].lost = req[r].lost
           /\ DOMAIN req'[r].imgs \subseteq {f \in req[r].allowed : f \in Images /\ Enabled(f)}
           /\ \/ req'[r].pc = "groups"
              \/ req'[r].pc = "public" /\ req[r].row.showPublic
<1> DEFINE S == {f \in req[r].allowed : Enabled(f)}
<1>1. /\ req[r] \in Request /\ req[r].pc = "assigned" /\ InMenuRequest(req[r])
      /\ req[r].row \in ClientRow /\ req[r].allowed \in SUBSET Images
  BY DEF Known, ReqOK, Knows, ImagesAssigned, At, Fails, InMenuRequest, Request
<1>2. ops' \in 0..MaxOps /\ UNCHANGED <<client, cgroup, image>>
  BY OpsStep DEF ImagesAssigned, Known
<1>3. PICK imgs \in Shown : DOMAIN imgs \subseteq S /\ Becomes(r, AssignedFound(req[r], imgs))
  <2>1. Rows(S) \in Shown /\ DOMAIN Rows(S) = S
    BY <1>1, RowsAre DEF Known
  <2>2. NoImages \in Shown /\ DOMAIN NoImages = {}
    BY NoImagesTyped DEF NoImages
  <2> QED BY <2>1, <2>2 DEF ImagesAssigned
<1>4. CASE req[r].row.showPublic
  <2> DEFINE q == [req[r] EXCEPT !.pc = "public", !.imgs = imgs]
  <2>1. /\ q \in Request /\ q.pc = "public" /\ q.m = req[r].m /\ q.lost = req[r].lost
        /\ q.row = req[r].row /\ q.imgs = imgs /\ Becomes(r, q)
    BY <1>1, <1>3, <1>4 DEF Request, AssignedFound
  <2> HIDE DEF q
  <2>2. Follows(q, r)
    BY <1>1, <2>1 DEF Follows, InMenuRequest
  <2>3. StepOK /\ req'[r] = q /\ Others(r)
    BY <1>1, <1>2, <2>1, <2>2, QueryStep
  <2> QED BY <1>1, <1>3, <1>4, <2>1, <2>3
<1>5. CASE ~req[r].row.showPublic
  <2> DEFINE q == Collected(req[r], imgs)
  <2>1. /\ q \in Request /\ q.pc = "groups" /\ q.m = req[r].m /\ q.lost = req[r].lost
        /\ q.imgs = imgs
    BY <1>1, CollectedIs
  <2>2. Becomes(r, q)
    BY <1>3, <1>5 DEF AssignedFound
  <2> HIDE DEF q
  <2>3. Follows(q, r)
    BY <2>1 DEF Follows, InMenuRequest
  <2>4. StepOK /\ req'[r] = q /\ Others(r)
    BY <1>1, <1>2, <2>2, <2>3, QueryStep
  <2> QED BY <1>1, <1>3, <2>1, <2>4
<1> QED BY <1>4, <1>5

LEMMA ImagesPublicIs ==
    ASSUME Known, NEW r \in Requests, ImagesPublic(r), Rest
    PROVE  /\ StepOK /\ Others(r) /\ req[r].pc = "public" /\ req'[r].m = req[r].m
           /\ req'[r].lost = req[r].lost /\ req'[r].pc \in {"all", "groups"}
           /\ DOMAIN req'[r].imgs \subseteq DOMAIN req[r].imgs \cup Public
<1>1. /\ req[r] \in Request /\ req[r].pc = "public" /\ InMenuRequest(req[r])
      /\ req[r].imgs \in Shown
  BY DEF Known, ReqOK, ImagesPublic, At, Fails, InMenuRequest, Request
<1>2. ops' \in 0..MaxOps /\ UNCHANGED <<client, cgroup, image>>
  BY OpsStep DEF ImagesPublic, Known
<1>3. PICK imgs \in Shown : /\ DOMAIN imgs \subseteq DOMAIN req[r].imgs \cup Public
                            /\ Becomes(r, PublicFound(req[r], imgs))
  <2>1. Rows(Public) \in Shown /\ DOMAIN Rows(Public) = Public
    BY RowsAre DEF Known, Public
  <2>2. /\ With(req[r].imgs, Rows(Public)) \in Shown
        /\ DOMAIN With(req[r].imgs, Rows(Public)) = DOMAIN req[r].imgs \cup Public
    BY <1>1, <2>1, WithIs
  <2> QED BY <1>1, <2>2 DEF ImagesPublic
<1>4. CASE imgs = NoImages
  <2> DEFINE q == [req[r] EXCEPT !.pc = "all"]
  <2>1. /\ q \in Request /\ q.pc = "all" /\ q.m = req[r].m /\ q.lost = req[r].lost
        /\ q.imgs = req[r].imgs /\ Becomes(r, q)
    BY <1>1, <1>3, <1>4 DEF Request, PublicFound
  <2> HIDE DEF q
  <2>2. Follows(q, r)
    BY <2>1 DEF Follows, InMenuRequest
  <2>3. StepOK /\ req'[r] = q /\ Others(r)
    BY <1>1, <1>2, <2>1, <2>2, QueryStep
  <2> QED BY <1>1, <2>1, <2>3
<1>5. CASE imgs # NoImages
  <2> DEFINE q == Collected(req[r], imgs)
  <2>1. /\ q \in Request /\ q.pc = "groups" /\ q.m = req[r].m /\ q.lost = req[r].lost
        /\ q.imgs = imgs
    BY <1>1, CollectedIs
  <2>2. Becomes(r, q)
    BY <1>3, <1>5 DEF PublicFound
  <2> HIDE DEF q
  <2>3. Follows(q, r)
    BY <2>1 DEF Follows, InMenuRequest
  <2>4. StepOK /\ req'[r] = q /\ Others(r)
    BY <1>1, <1>2, <2>2, <2>3, QueryStep
  <2> QED BY <1>1, <1>3, <2>1, <2>4
<1> QED BY <1>4, <1>5

LEMMA ImagesForAnyoneIs ==
    ASSUME Known, NEW r \in Requests, ImagesForAnyone(r), Rest
    PROVE  /\ StepOK /\ Others(r) /\ req[r].pc = "all" /\ req'[r].m = req[r].m
           /\ req'[r].pc = "groups"
           /\ \/ req'[r].lost
              \/ req'[r].lost = req[r].lost /\ DOMAIN req'[r].imgs = Public
<1>1. req[r] \in Request /\ req[r].pc = "all" /\ InMenuRequest(req[r])
  BY DEF Known, ReqOK, ImagesForAnyone, At, Fails, InMenuRequest
<1>2. ops' \in 0..MaxOps /\ UNCHANGED <<client, cgroup, image>>
  BY OpsStep DEF ImagesForAnyone, Known
<1>3. CASE Becomes(r, Collected(req[r], Rows(Public)))
  <2> DEFINE q == Collected(req[r], Rows(Public))
  <2>1. Rows(Public) \in Shown /\ DOMAIN Rows(Public) = Public
    BY RowsAre DEF Known, Public
  <2>2. /\ q \in Request /\ q.pc = "groups" /\ q.m = req[r].m /\ q.lost = req[r].lost
        /\ q.imgs = Rows(Public)
    BY <1>1, <2>1, CollectedIs
  <2>3. Becomes(r, q)
    BY <1>3
  <2> HIDE DEF q
  <2>4. Follows(q, r)
    BY <2>2 DEF Follows, InMenuRequest
  <2>5. StepOK /\ req'[r] = q /\ Others(r)
    BY <1>1, <1>2, <2>3, <2>4, QueryStep
  <2> QED BY <1>1, <2>1, <2>2, <2>5
<1>4. ASSUME NEW files \in SUBSET Images, NEW f \in Images \cup {None},
             Becomes(r, [Collected(req[r], [i \in files |-> 0]) EXCEPT !.next = f, !.lost = TRUE])
      PROVE  /\ StepOK /\ Others(r) /\ req'[r].m = req[r].m
             /\ req'[r].pc = "groups" /\ req'[r].lost
  <2> DEFINE c == Collected(req[r], [i \in files |-> 0])
             q == [c EXCEPT !.next = f, !.lost = TRUE]
  <2>1. [i \in files |-> 0] \in Shown
    BY DEF Shown
  <2>2. c \in Request /\ c.pc = "groups" /\ c.m = req[r].m
    BY <1>1, <2>1, CollectedIs
  <2>3. Becomes(r, q)
    BY <1>4
  <2> HIDE DEF c
  <2>4. q \in Request /\ q.pc = "groups" /\ q.m = req[r].m /\ q.lost
    BY <2>2 DEF Request
  <2> HIDE DEF q
  <2>5. Follows(q, r)
    BY <2>4 DEF Follows, InMenuRequest
  <2>6. StepOK /\ req'[r] = q /\ Others(r)
    BY <1>1, <1>2, <2>3, <2>5, QueryStep
  <2> QED BY <2>4, <2>6
<1>5. CASE \E files \in SUBSET Images, f \in IF req[r].next = None THEN {None} ELSE Images :
               Becomes(r, [Collected(req[r], [i \in files |-> 0])
                             EXCEPT !.next = f, !.lost = TRUE])
  <2>1. PICK files \in SUBSET Images, f \in Images \cup {None} :
            Becomes(r, [Collected(req[r], [i \in files |-> 0]) EXCEPT !.next = f, !.lost = TRUE])
    BY <1>5
  <2> QED BY <1>1, <1>4, <2>1
<1> QED BY <1>3, <1>5 DEF ImagesForAnyone

\* What Build ends with: it is served if no group is in trouble, otherwise it
\* is as some group's trouble has it.
LEMMA BuildIs ==
    ASSUME NEW mb
    PROVE  /\ buildGroupMenus(mb) \in {"served", "panic", "overflow"}
           /\ buildGroupMenus(mb) = "served" <=> \A g \in GroupIds : Trouble(mb, g) = "none"
           /\ buildGroupMenus(mb) # "served" =>
                 \E g \in GroupIds : Trouble(mb, g) = buildGroupMenus(mb)
<1> DEFINE bad == {g \in GroupIds : Trouble(mb, g) # "none"}
<1>1. \A g : Trouble(mb, g) \in {"none", "panic", "overflow"}
  BY DEF Trouble
<1>2. bad \subseteq Nat
  BY MenuAssumption
<1>3. bad # {} => Min(bad) \in bad
  BY <1>2, MinIs
<1>4. bad # {} => Trouble(mb, Min(bad)) \in {"panic", "overflow"}
  BY <1>1, <1>3
<1>5. CASE bad = {}
  BY <1>5 DEF buildGroupMenus
<1>6. CASE bad # {}
  BY <1>3, <1>4, <1>6 DEF buildGroupMenus
<1> QED BY <1>5, <1>6

\* An answer is what Build makes of the tables and the images it was given.
Built == answer # None => answer.outcome = buildGroupMenus(answer.mb)

LEMMA GenerateIs ==
    ASSUME Known, ListedOK, NEW r \in Requests, generateIPXEMenuWithGroups(r)
    PROVE  StepOK /\ Plain /\ ListedOK' /\ AnswerOK' /\ Built'
<1>1. PICK installed \in BOOLEAN, down \in {"none", "groups", "theme", "tools"} :
        /\ IF down = "none" THEN At(r, "parents") ELSE Fails(r, "parents")
        /\ installed => client[req[r].m] # None
        /\ LET mb == [imgs |-> req[r].imgs,
                      groups |-> IF down = "groups" THEN NoGroups ELSE listed[r],
                      parents |-> {g \in GroupIds : igroup[g] # None},
                      next |-> req[r].next, local |-> installed,
                      theme |-> IF down = "theme" THEN NoTheme ELSE theme,
                      tools |-> tools /\ down # "tools"]
               out == buildGroupMenus(mb)
               over == IF out = "overflow" THEN Requests ELSE {r}
           IN /\ answer' = [outcome |-> out, mb |-> mb]
              /\ req' = [q \in Requests |-> IF q \in over THEN Idle ELSE req[q]]
              /\ listed' = [q \in Requests |-> IF q \in over THEN NoGroups ELSE listed[q]]
  BY DEF generateIPXEMenuWithGroups
<1> DEFINE groups == IF down = "groups" THEN NoGroups ELSE listed[r]
           parents == {g \in GroupIds : igroup[g] # None}
           shown == IF down = "theme" THEN NoTheme ELSE theme
           offered == tools /\ down # "tools"
           mb == [imgs |-> req[r].imgs, groups |-> groups, parents |-> parents,
                  next |-> req[r].next, local |-> installed, theme |-> shown, tools |-> offered]
           out == buildGroupMenus(mb)
           over == IF out = "overflow" THEN Requests ELSE {r}
<1>2. req[r] \in Request /\ NoGroups \in Tables /\ NoTheme \in Themes
  BY DEF Known, ReqOK, NoGroups, Tables, NoTheme, Themes
<1>3. mb \in MenuBuilder
  <2>1. groups \in Tables /\ shown \in Themes /\ offered \in BOOLEAN /\ parents \in SUBSET GroupIds
    BY <1>2 DEF ListedOK, Known, MiscOK
  <2> HIDE DEF groups, shown, offered, parents
  <2> QED BY <1>2, <2>1 DEF MenuBuilder, Request
<1>4. out \in {"served", "panic", "overflow"}
  BY BuildIs
<1>5. /\ answer' = [outcome |-> out, mb |-> mb]
      /\ req' = [q \in Requests |-> IF q \in over THEN Idle ELSE req[q]]
      /\ listed' = [q \in Requests |-> IF q \in over THEN NoGroups ELSE listed[q]]
  BY <1>1
<1>6. Built'
  <2> HIDE DEF mb
  <2> QED BY <1>5 DEF Built
<1> HIDE DEF mb, out, over
<1>7. AnswerOK' /\ ListedOK'
  BY <1>2, <1>3, <1>4, <1>5 DEF AnswerOK, ListedOK
<1>8. ops' \in 0..MaxOps /\ UNCHANGED <<client, cgroup, image, igroup, theme, tools>>
  BY <1>1, OpsStep DEF generateIPXEMenuWithGroups, Known
<1>9. \A q \in Requests : req'[q] = Idle \/ req'[q] = req[q]
  BY <1>5
<1>10. ReqOK' /\ Kept'
  BY <1>5, <1>8, <1>9, IdleTyped DEF Known, ReqOK, Kept
<1>11. RowsOK' /\ MiscOK'
  BY <1>8 DEF Known, RowsOK, MiscOK
<1>12. Plain
  BY <1>9, IdleTyped DEF Plain
<1> QED BY <1>6, <1>7, <1>10, <1>11, <1>12 DEF StepOK

-----------------------------------------------------------------------------
(* What a menu request remembers of the moments it has lived through.      *)

Grows(p, q) ==
    /\ p.members \subseteq q.members /\ p.named \subseteq q.named
    /\ p.enabled \subseteq q.enabled /\ p.public \subseteq q.public
    /\ p.open => q.open

\* The present moment is part of what is remembered.
Absorbed(p, now) ==
    /\ now.members \subseteq p.members /\ now.own \subseteq p.named
    /\ \A g \in p.members : now.lists[g] \subseteq p.named
    /\ now.enabled \subseteq p.enabled /\ now.public \subseteq p.public
    /\ now.open => p.open

Instant == [members: SUBSET ClientGroups, own: SUBSET Images,
            lists: [ClientGroups -> SUBSET Images], open: BOOLEAN,
            enabled: SUBSET Images, public: SUBSET Images]

LEMMA MomentTyped ==
    ASSUME RowsOK, NEW m \in Macs
    PROVE  Moment(m) \in Instant
<1> DEFINE row == client[m]
           members == IF ActiveRow(row) /\ row.group # None THEN {row.group} ELSE {}
           own == IF ActiveRow(row) THEN row.allowed ELSE {}
           lists == [g \in ClientGroups |-> GroupImages(g)]
           open == ~ActiveRow(row) \/ row.showPublic
           enabled == {f \in Images : Enabled(f)}
<1>1. ActiveRow(row) => row \in ClientRow
  BY DEF ActiveRow, RowsOK
<1>2. members \in SUBSET ClientGroups /\ own \in SUBSET Images
  BY <1>1 DEF ClientRow
<1>3. \A g \in ClientGroups : GroupImages(g) \in SUBSET Images
  BY DEF GroupImages, Live, RowsOK, ClientGroupRow
<1>4. lists \in [ClientGroups -> SUBSET Images]
  BY <1>3
<1>5. open \in BOOLEAN
  BY <1>1 DEF ClientRow
<1>6. enabled \in SUBSET Images /\ Public \in SUBSET Images
  BY DEF Public
<1>7. Moment(m) = [members |-> members, own |-> own, lists |-> lists, open |-> open,
                   enabled |-> enabled, public |-> Public]
  BY DEF Moment
<1> HIDE DEF members, own, lists, open, enabled, Public
<1> QED BY <1>2, <1>4, <1>5, <1>6, <1>7 DEF Instant

LEMMA JoinedIs ==
    ASSUME NEW p \in Past, NEW now \in Instant
    PROVE  /\ Joined(p, now) \in Past
           /\ Grows(p, Joined(p, now)) /\ Absorbed(Joined(p, now), now)
<1> DEFINE members == p.members \cup now.members
           granted == UNION {now.lists[g] : g \in members}
<1>1. members \in SUBSET ClientGroups
  BY DEF Past, Instant
<1>2. granted \in SUBSET Images /\ \A g \in members : now.lists[g] \subseteq granted
  BY <1>1 DEF Instant
<1>3. Joined(p, now) = [members |-> members, named |-> p.named \cup now.own \cup granted,
          open |-> p.open \/ now.open, enabled |-> p.enabled \cup now.enabled,
          public |-> p.public \cup now.public]
  BY DEF Joined
<1>4. /\ p.members \subseteq members /\ now.members \subseteq members
  OBVIOUS
<1> HIDE DEF members, granted
<1> QED BY <1>1, <1>2, <1>3, <1>4 DEF Past, Instant, Grows, Absorbed

Current == \A r \in Requests : InMenuRequest(req[r]) => Absorbed(past[r], Moment(req[r].m))

\* What a menu request has read was true at a moment it remembers.
Granted(f, p) == f \in p.enabled /\ (f \in p.named \/ (p.open /\ f \in p.public))

Memory(q, p) ==
    InMenuRequest(q) /\ ~q.lost =>
        /\ \A f \in DOMAIN q.imgs : Granted(f, p)
        /\ q.pc = "group" => q.g \in p.members
        /\ q.pc \in {"group", "assigned"} => /\ q.allowed \subseteq p.named
                                             /\ q.row.showPublic => p.open
        /\ q.pc \in {"public", "all"} => p.open

Memories == \A r \in Requests : Memory(req[r], past[r])

Inv == Types /\ Current /\ Memories /\ Built

LEMMA InvInit == Init => Inv
<1> SUFFICES ASSUME Init PROVE Inv
  OBVIOUS
<1>1. \A r \in Requests : req[r] = Idle /\ req[r] \in Request
  BY IdleTyped DEF Init, AccessInit
<1>2. ReqOK /\ Kept
  BY <1>1, IdleTyped DEF Init, AccessInit, ReqOK, Kept
<1>3. RowsOK /\ ListedOK
  BY InitAssumption, GroupTablesAssumption
     DEF Init, AccessInit, RowsOK, ListedOK, NoGroups, Tables
<1>4. MiscOK /\ AnswerOK /\ Built
  BY DEF Init, AccessInit, MiscOK, AnswerOK, Built, Themes
<1>5. PastOK
  BY DEF Init, AccessInit, PastOK, Past, Nothing
<1>6. Current /\ Memories
  BY <1>1, IdleTyped DEF Current, Memories, Memory, InMenuRequest
<1> QED BY <1>2, <1>3, <1>4, <1>5, <1>6 DEF Inv, Types

\* The history of a step.
LEMMA RememberIs ==
    ASSUME PastOK, ReqOK', RowsOK', Remember
    PROVE  /\ PastOK' /\ Current'
           /\ \A r \in Requests : InMenuRequest(req'[r]) => Grows(past[r], past'[r])
<1>1. ASSUME NEW r \in Requests, InMenuRequest(req'[r])
      PROVE  /\ past'[r] \in Past /\ Grows(past[r], past'[r])
             /\ Absorbed(past'[r], Moment(req[r].m)')
  <2>1. req'[r].m \in Macs
    BY <1>1 DEF ReqOK, Knows, InMenuRequest
  <2>2. RowsOK' => Moment(req[r].m)' \in Instant
    <3>1. ASSUME NEW m \in Macs PROVE (RowsOK => Moment(m) \in Instant)'
      BY MomentTyped, PTL
    <3> QED BY <2>1, <3>1
  <2>3. past'[r] = Joined(past[r], Moment(req[r].m)') /\ past[r] \in Past
    BY <1>1 DEF Remember, PastOK
  <2> QED BY <2>2, <2>3, JoinedIs
<1>2. ASSUME NEW r \in Requests, ~InMenuRequest(req'[r])
      PROVE  past'[r] \in Past
  BY <1>2 DEF Remember, Past, Nothing
<1>3. past' = [r \in Requests |-> past'[r]]
  BY DEF Remember
<1>4. PastOK'
  BY <1>1, <1>2, <1>3 DEF PastOK
<1> QED BY <1>1, <1>4 DEF Current

\* A memory lasts while the request does.
LEMMA MemoryGrows ==
    ASSUME NEW q, NEW p, NEW p2, Memory(q, p), Grows(p, p2)
    PROVE  Memory(q, p2)
BY DEF Memory, Granted, Grows

LEMMA OutsideMemory ==
    ASSUME NEW q, NEW p, ~InMenuRequest(q)
    PROVE  Memory(q, p)
BY DEF Memory

\* What the steps of the queries for images are to a request's memory.
Asks(r) ==
    /\ Rest
    /\ \/ ImagesOfClient(r) \/ ImagesOfGroup(r) \/ ImagesAssigned(r)
       \/ ImagesPublic(r) \/ ImagesForAnyone(r)

LEMMA ChangeOK ==
    ASSUME Known, NEW r \in Requests, Change(r)
    PROVE  StepOK /\ (Plain \/ Carries(r) \/ Asks(r))
<1>1. CASE AccessNext(r) /\ Rest
  BY <1>1, UpdateClientOK, PromoteClientOK, SaveClientOK, DeleteClientOK, AssignImagesOK,
     SetNextBootImageOK, ImportClientsCSVOK, ImportLookupOK, ImportCreateOK,
     CreateClientGroupOK, ReviveClientGroupOK, InsertClientGroupOK, UpdateClientGroupOK,
     DeleteClientGroupOK, ClearMembersOK, SoftDeleteGroupOK, SetClientGroupMembershipOK,
     SetNextBootForClientGroupOK, SetNextBootOfMemberOK, ImagesOfClientIs, ImagesOfGroupIs,
     ImagesAssignedIs, ImagesPublicIs, ImagesForAnyoneIs DEF AccessNext, Asks
<1>2. CASE handleIPXEMenu(r) \/ GetNextBootImage(r) \/ ClearNextBootImage(r)
  BY <1>2, HandleIs, NextBootIs
<1>3. CASE \/ CreateImageGroup(r) \/ UpdateImageGroup(r) \/ DeleteImageGroup(r)
           \/ UpdateImage(r) \/ DeleteImage(r) \/ SyncImages(r)
           \/ UpdateMenuTheme(r) \/ ToolsChange(r)
  BY <1>3, ImageGroupsOK, UpdateImageOK, DeleteImageOK, SyncImagesOK, ThemeAndToolsOK
<1> QED BY <1>1, <1>2, <1>3 DEF Change, Rest

\* A list that grows by images that are granted is granted.
LEMMA GrantedGrows ==
    ASSUME NEW p, NEW p2, Grows(p, p2), NEW f, Granted(f, p)
    PROVE  Granted(f, p2)
BY DEF Grows, Granted

\* What is known of the present moment.
LEMMA NowIs ==
    ASSUME NEW p, NEW p2, NEW m \in Macs, Absorbed(p, Moment(m)), Grows(p, p2)
    PROVE  /\ ActiveRow(client[m]) => client[m].allowed \subseteq p2.named
           /\ ActiveRow(client[m]) /\ client[m].group # None => client[m].group \in p2.members
           /\ ~ActiveRow(client[m]) \/ client[m].showPublic => p2.open
           /\ \A g \in ClientGroups : g \in p.members => GroupImages(g) \subseteq p2.named
           /\ \A f \in Images : Enabled(f) => f \in p2.enabled
           /\ Public \subseteq p2.public
<1> DEFINE now == Moment(m)  row == client[m]
<1>1. /\ now.members = IF ActiveRow(row) /\ row.group # None THEN {row.group} ELSE {}
      /\ now.own = IF ActiveRow(row) THEN row.allowed ELSE {}
      /\ now.lists = [g \in ClientGroups |-> GroupImages(g)]
      /\ now.open = (~ActiveRow(row) \/ row.showPublic)
      /\ now.enabled = {f \in Images : Enabled(f)} /\ now.public = Public
  BY DEF Moment
<1> HIDE DEF now, row
<1>2. Absorbed(p, now)
  BY DEF now
<1>3. \A g \in ClientGroups : g \in p.members => GroupImages(g) \subseteq p2.named
  BY <1>1, <1>2 DEF Absorbed, Grows
<1>4. /\ \A f \in Images : Enabled(f) => f \in p2.enabled
      /\ Public \subseteq p2.public
  BY <1>1, <1>2 DEF Absorbed, Grows
<1>5. /\ ActiveRow(row) => row.allowed \subseteq p2.named
      /\ ActiveRow(row) /\ row.group # None => row.group \in p2.members
      /\ ~ActiveRow(row) \/ row.showPublic => p2.open
  BY <1>1, <1>2 DEF Absorbed, Grows
<1> QED BY <1>3, <1>4, <1>5 DEF row

LEMMA MemoriesChange ==
    ASSUME Inv, NEW r \in Requests, Plain \/ Carries(r) \/ Asks(r),
           \A s \in Requests : InMenuRequest(req'[s]) => Grows(past[s], past'[s])
    PROVE  Memories'
<1> DEFINE m == req[r].m  p == past[r]  p2 == past'[r]  old == req[r]  new == req'[r]
<1>0. Known /\ Current /\ Memory(old, p)
  BY DEF Inv, Types, Known, Memories
<1>1. \A s \in Requests : req'[s] = req[s] => Memory(req'[s], past'[s])
  BY MemoryGrows, OutsideMemory DEF Inv, Memories
<1>2. Others(r) /\ Memory(new, p2) => Memories'
  BY <1>1 DEF Memories, Others
<1>3. CASE Plain
  <2>1. \A s \in Requests : ~InMenuRequest(req'[s]) => Memory(req'[s], past'[s])
    BY OutsideMemory
  <2> QED BY <1>1, <1>3, <2>1 DEF Plain, Memories
<1>4. CASE Carries(r)
  <2>1. Others(r) /\ InMenuRequest(new) /\ Grows(p, p2)
    BY <1>4 DEF Carries, InMenuRequest
  <2>2. /\ new.pc \in {"boot", "forget", "client", "parents"}
        /\ \/ DOMAIN new.imgs = {}
           \/ InMenuRequest(old) /\ new.imgs = old.imgs /\ new.lost = old.lost
    BY <1>4 DEF Carries, NoImages
  <2> HIDE DEF p, p2, old, new
  <2>3. ~new.lost => \A f \in DOMAIN new.imgs : Granted(f, p2)
    BY <1>0, <2>1, <2>2, GrantedGrows DEF Memory
  <2>4. Memory(new, p2)
    BY <2>2, <2>3 DEF Memory
  <2> QED BY <1>2, <2>1, <2>4
<1>5. ASSUME InMenuRequest(old), InMenuRequest(new)
      PROVE  /\ Grows(p, p2)
             /\ ActiveRow(client[m]) => client[m].allowed \subseteq p2.named
             /\ ActiveRow(client[m]) /\ client[m].group # None => client[m].group \in p2.members
             /\ ~ActiveRow(client[m]) \/ client[m].showPublic => p2.open
             /\ \A g \in ClientGroups : g \in p.members => GroupImages(g) \subseteq p2.named
             /\ \A f \in Images : Enabled(f) => f \in p2.enabled
             /\ Public \subseteq p2.public
  <2>1. m \in Macs /\ Absorbed(p, Moment(m)) /\ Grows(p, p2)
    BY <1>0, <1>5 DEF Known, ReqOK, Knows, Current
  <2> HIDE DEF m, p, p2
  <2> QED BY <2>1, NowIs
<1>6. CASE ImagesOfClient(r) /\ Rest
  <2> DEFINE row == client[m]
  <2>1. /\ Others(r) /\ old.pc = "client"
        /\ \/ new.lost
           \/ /\ new.lost = old.lost
              /\ \/ ~ActiveRow(row) /\ new.pc = "all" /\ new.imgs = old.imgs
                 \/ /\ ActiveRow(row) /\ row \in ClientRow
                    /\ Asked(new, row, row.allowed, old.imgs)
                 \/ /\ ActiveRow(row) /\ row \in ClientRow /\ row.group \in ClientGroups
                    /\ new.pc = "group" /\ new.g = row.group /\ new.row = row
                    /\ new.allowed = row.allowed /\ new.imgs = old.imgs
    BY <1>0, <1>6, ImagesOfClientIs
  <2>2. None \notin ClientGroups
    BY AccessAssumption
  <2>3. Memory(new, p2)
    <3> SUFFICES ASSUME InMenuRequest(new), ~new.lost
                 PROVE  Memory(new, p2)
      BY DEF Memory
    <3>1. InMenuRequest(old)
      BY <2>1 DEF InMenuRequest
    <3>2. /\ Grows(p, p2)
          /\ ActiveRow(row) => row.allowed \subseteq p2.named
          /\ ActiveRow(row) /\ row.group # None => row.group \in p2.members
          /\ ~ActiveRow(row) \/ row.showPublic => p2.open
      BY <1>5, <3>1
    <3> HIDE DEF row, p, p2, old, new
    <3>3. ~old.lost /\ \A f \in DOMAIN old.imgs : Granted(f, p2)
      BY <1>0, <2>1, <3>1, <3>2, GrantedGrows DEF Memory
    <3>4. CASE ~ActiveRow(row) /\ new.pc = "all" /\ new.imgs = old.imgs
      BY <3>2, <3>3, <3>4 DEF Memory
    <3>5. CASE ActiveRow(row) /\ Asked(new, row, row.allowed, old.imgs)
      <4>1. DOMAIN NoImages = {}
        BY DEF NoImages
      <4> QED BY <3>2, <3>3, <3>5, <4>1 DEF Memory, Asked
    <3>6. CASE /\ ActiveRow(row) /\ row.group \in ClientGroups
               /\ new.pc = "group" /\ new.g = row.group /\ new.row = row
               /\ new.allowed = row.allowed /\ new.imgs = old.imgs
      BY <2>2, <3>2, <3>3, <3>6 DEF Memory
    <3> QED BY <2>1, <3>4, <3>5, <3>6
  <2> QED BY <1>2, <2>1, <2>3
<1>7. CASE ImagesOfGroup(r) /\ Rest
  <2>1. /\ Others(r) /\ old.pc = "group" /\ old.g \in ClientGroups /\ new.lost = old.lost
        /\ \E S \in SUBSET (old.allowed \cup GroupImages(old.g)) :
              Asked(new, old.row, S, old.imgs)
    BY <1>0, <1>7, ImagesOfGroupIs
  <2>2. Memory(new, p2)
    <3> SUFFICES ASSUME InMenuRequest(new), ~new.lost
                 PROVE  Memory(new, p2)
      BY DEF Memory
    <3>1. InMenuRequest(old)
      BY <2>1 DEF InMenuRequest
    <3>2. Grows(p, p2) /\ \A g \in ClientGroups : g \in p.members => GroupImages(g) \subseteq p2.named
      BY <1>5, <3>1
    <3> HIDE DEF p, p2, old, new
    <3>3. /\ \A f \in DOMAIN old.imgs : Granted(f, p2)
          /\ old.allowed \cup GroupImages(old.g) \subseteq p2.named
          /\ old.row.showPublic => p2.open
      <4>1. /\ \A f \in DOMAIN old.imgs : Granted(f, p)
            /\ old.g \in p.members /\ old.allowed \subseteq p.named
            /\ old.row.showPublic => p.open
        BY <1>0, <2>1, <3>1 DEF Memory
      <4>2. \A f \in DOMAIN old.imgs : Granted(f, p2)
        BY <3>2, <4>1, GrantedGrows
      <4>3. GroupImages(old.g) \subseteq p2.named
        BY <2>1, <3>2, <4>1
      <4> QED BY <3>2, <4>1, <4>2, <4>3 DEF Grows
    <3>4. PICK S \in SUBSET (old.allowed \cup GroupImages(old.g)) :
              Asked(new, old.row, S, old.imgs)
      BY <2>1
    <3>5. S \subseteq p2.named /\ DOMAIN NoImages = {}
      BY <3>3 DEF NoImages
    <3> QED BY <3>3, <3>4, <3>5 DEF Memory, Asked
  <2> QED BY <1>2, <2>1, <2>2
<1>8. CASE ImagesAssigned(r) /\ Rest
  <2>1. /\ Others(r) /\ old.pc = "assigned" /\ new.lost = old.lost
        /\ DOMAIN new.imgs \subseteq {f \in old.allowed : f \in Images /\ Enabled(f)}
        /\ \/ new.pc = "groups"
           \/ new.pc = "public" /\ old.row.showPublic
    BY <1>0, <1>8, ImagesAssignedIs
  <2>2. Memory(new, p2)
    <3> SUFFICES ASSUME InMenuRequest(new), ~new.lost
                 PROVE  Memory(new, p2)
      BY DEF Memory
    <3>1. InMenuRequest(old)
      BY <2>1 DEF InMenuRequest
    <3>2. Grows(p, p2) /\ \A f \in Images : Enabled(f) => f \in p2.enabled
      BY <1>5, <3>1
    <3> HIDE DEF p, p2, old, new
    <3>3. old.allowed \subseteq p2.named /\ (old.row.showPublic => p2.open)
      BY <1>0, <2>1, <3>1, <3>2 DEF Memory, Grows
    <3>4. \A f \in DOMAIN new.imgs : Granted(f, p2)
      BY <2>1, <3>2, <3>3 DEF Granted
    <3> QED BY <2>1, <3>3, <3>4 DEF Memory
  <2> QED BY <1>2, <2>1, <2>2
<1>9. CASE ImagesPublic(r) /\ Rest
  <2>1. /\ Others(r) /\ old.pc = "public" /\ new.lost = old.lost
        /\ new.pc \in {"all", "groups"}
        /\ DOMAIN new.imgs \subseteq DOMAIN old.imgs \cup Public
    BY <1>0, <1>9, ImagesPublicIs
  <2>2. Memory(new, p2)
    <3> SUFFICES ASSUME InMenuRequest(new), ~new.lost
                 PROVE  Memory(new, p2)
      BY DEF Memory
    <3>1. InMenuRequest(old)
      BY <2>1 DEF InMenuRequest
    <3>2. /\ Grows(p, p2) /\ Public \subseteq p2.public
          /\ \A f \in Images : Enabled(f) => f \in p2.enabled
      BY <1>5, <3>1
    <3> HIDE DEF p, p2, old, new
    <3>3. p2.open /\ \A f \in DOMAIN old.imgs : Granted(f, p2)
      BY <1>0, <2>1, <3>1, <3>2, GrantedGrows DEF Memory, Grows
    <3>4. \A f \in Public : Granted(f, p2)
      BY <3>2, <3>3 DEF Granted, Public
    <3> QED BY <2>1, <3>3, <3>4 DEF Memory
  <2> QED BY <1>2, <2>1, <2>2
<1>10. CASE ImagesForAnyone(r) /\ Rest
  <2>1. /\ Others(r) /\ old.pc = "all" /\ new.pc = "groups"
        /\ new.lost \/ (new.lost = old.lost /\ DOMAIN new.imgs = Public)
    BY <1>0, <1>10, ImagesForAnyoneIs
  <2>2. Memory(new, p2)
    <3> SUFFICES ASSUME InMenuRequest(new), ~new.lost
                 PROVE  Memory(new, p2)
      BY DEF Memory
    <3>1. InMenuRequest(old)
      BY <2>1 DEF InMenuRequest
    <3>2. /\ Grows(p, p2) /\ Public \subseteq p2.public
          /\ \A f \in Images : Enabled(f) => f \in p2.enabled
      BY <1>5, <3>1
    <3> HIDE DEF p, p2, old, new
    <3>3. p2.open
      BY <1>0, <2>1, <3>1, <3>2 DEF Memory, Grows
    <3>4. \A f \in Public : Granted(f, p2)
      BY <3>2, <3>3 DEF Granted, Public
    <3> QED BY <2>1, <3>4 DEF Memory
  <2> QED BY <1>2, <2>1, <2>2
<1> QED BY <1>3, <1>4, <1>6, <1>7, <1>8, <1>9, <1>10 DEF Asks

LEMMA InvNext == Inv /\ [Next]_vars => Inv'
<1> SUFFICES ASSUME Inv, [Next]_vars PROVE Inv'
  OBVIOUS
<1>1. Known /\ PastOK /\ ListedOK
  BY DEF Inv, Types, Known
<1>2. CASE UNCHANGED <<access, igroup, theme, tools, listed>> /\ (answer' = None \/ UNCHANGED answer)
  <2>1. UNCHANGED <<client, cgroup, image, req, ops, past, igroup, theme, tools, listed>>
    BY <1>2 DEF access
  <2>2. Types'
    BY <1>2, <2>1 DEF Inv, Types, ReqOK, RowsOK, Kept, MiscOK, PastOK, ListedOK, AnswerOK
  <2>3. Memories' /\ Built'
    BY <1>2, <2>1 DEF Inv, Memories, Built
  <2>4. Current'
    BY <2>1 DEF Inv, Current, Moment, ActiveRow, GroupImages, Live, Enabled, Public
  <2> QED BY <2>2, <2>3, <2>4 DEF Inv
<1>3. ASSUME NEW r \in Requests, Remember, answer = None, UNCHANGED answer,
             StepOK, ListedOK', Plain \/ Carries(r) \/ Asks(r)
      PROVE  Inv'
  <2>1. PastOK' /\ Current' /\ \A s \in Requests : InMenuRequest(req'[s]) => Grows(past[s], past'[s])
    BY <1>1, <1>3, RememberIs DEF StepOK
  <2>2. Memories'
    BY <1>3, <2>1, MemoriesChange
  <2>3. AnswerOK' /\ Built'
    BY <1>3 DEF AnswerOK, Built
  <2> QED BY <1>3, <2>1, <2>2, <2>3 DEF StepOK, Inv, Types
<1>4. ASSUME NEW r \in Requests, Change(r), UNCHANGED <<listed, answer>>, answer = None, Remember
      PROVE  Inv'
  <2>1. StepOK /\ (Plain \/ Carries(r) \/ Asks(r))
    BY <1>1, <1>4, ChangeOK
  <2>2. ListedOK'
    BY <1>1, <1>4 DEF ListedOK
  <2> QED BY <1>3, <1>4, <2>1, <2>2
<1>5. ASSUME NEW r \in Requests, ListImageGroups(r), UNCHANGED answer, answer = None, Remember
      PROVE  Inv'
  BY <1>1, <1>3, <1>5, ListGroupsIs
<1>6. ASSUME NEW r \in Requests, generateIPXEMenuWithGroups(r), Remember
      PROVE  Inv'
  <2>1. StepOK /\ Plain /\ ListedOK' /\ AnswerOK' /\ Built'
    BY <1>1, <1>6, GenerateIs
  <2>2. PastOK' /\ Current' /\ \A s \in Requests : InMenuRequest(req'[s]) => Grows(past[s], past'[s])
    BY <1>1, <1>6, <2>1, RememberIs DEF StepOK
  <2>3. Memories'
    BY <2>1, <2>2, MemoriesChange
  <2> QED BY <2>1, <2>2, <2>3 DEF StepOK, Inv, Types
<1>7. CASE UNCHANGED vars
  BY <1>2, <1>7 DEF vars
<1>8. CASE Answered
  BY <1>2, <1>8 DEF Answered
<1> QED BY <1>4, <1>5, <1>6, <1>7, <1>8 DEF Next

LEMMA InvAlways == Spec => []Inv
BY InvInit, InvNext, PTL DEF Spec

\* Type correctness of the tables, the requests and the scripts: a client
\* group that is being deleted is still there to be marked, and Build ends
\* served, with a panic or with an overflow (the client, group and menu
\* handlers, MenuBuilder.Build).
THEOREM TypeCorrect == Spec => []TypeOK
<1>1. Inv => TypeOK
  BY TypesAreTypeOK DEF Inv
<1> QED BY <1>1, InvAlways, PTL

\* A menu shows a machine only what it was granted while its request ran,
\* however the statements of GetImagesForClient interleave with those of the
\* administration, for any number of machines, images and groups.
THEOREM ServedImagesWereGranted == Spec => []ServedWasGranted
<1>1. Inv => ServedWasGranted
  BY DEF Inv, Memories, Memory, Granted, ServedWasGranted, HasImages, InMenuRequest
<1> QED BY <1>1, InvAlways, PTL

-----------------------------------------------------------------------------
(* The ancestors of a group. *)

LEMMA AboveIs ==
    ASSUME NEW groups \in Tables, NEW g \in GroupIds \cup {0}
    PROVE  Above(groups, g) \in GroupIds \cup {0} /\ Above(groups, 0) = 0
BY DEF Above, Tables, ImageGroupRow

LEMMA AncestorIs ==
    ASSUME NEW groups \in Tables, NEW g \in GroupIds \cup {0}
    PROVE  /\ Ancestor(groups, g) \in [Nat -> GroupIds \cup {0}]
           /\ Ancestor(groups, g)[0] = g
           /\ \A n \in Nat : Ancestor(groups, g)[n + 1] = Above(groups, Ancestor(groups, g)[n])
<1> DEFINE V == GroupIds \cup {0}
           G == [v \in V |-> Above(groups, v)]
           up == CHOOSE f : f = [n \in Nat |-> IF n = 0 THEN g ELSE Above(groups, f[n - 1])]
<1>1. g \in V /\ G \in [V -> V]
  BY AboveIs
<1>2. PICK f \in [Nat -> V] : \A n \in Nat : f[n] = IF n = 0 THEN g ELSE G[f[n - 1]]
  <2> HIDE DEF G, V
  <2> QED BY <1>1, Recursion
<1>3. f = [n \in Nat |-> IF n = 0 THEN g ELSE Above(groups, f[n - 1])]
  <2>1. \A n \in Nat : n # 0 => f[n - 1] \in V
    OBVIOUS
  <2>2. \A n \in Nat : n # 0 => G[f[n - 1]] = Above(groups, f[n - 1])
    BY <2>1
  <2> HIDE DEF V, G
  <2> QED BY <1>2, <2>2
<1>4. up = [n \in Nat |-> IF n = 0 THEN g ELSE Above(groups, up[n - 1])]
  BY <1>3
<1>5. Ancestor(groups, g) = up
  BY DEF Ancestor
<1> HIDE DEF up
<1>6. up[0] = g /\ \A n \in Nat : up[n + 1] = Above(groups, up[n])
  BY <1>4
<1>7. \A n \in Nat : up[n] \in V
  <2> DEFINE S == {n \in Nat : up[n] \in V}
  <2>1. 0 \in S /\ \A n \in Nat : n \in S => n + 1 \in S
    BY <1>6, AboveIs
  <2> HIDE DEF S
  <2>2. \A n \in Nat : n \in S
    BY <2>1, AllNat
  <2> QED BY <2>2 DEF S
<1>8. up \in [Nat -> V]
  BY <1>4, <1>7
<1> QED BY <1>5, <1>6, <1>8

\* From the parent it is one step less.
LEMMA AncestorOfParent ==
    ASSUME NEW groups \in Tables, NEW g \in GroupIds \cup {0}
    PROVE  \A n \in Nat : Ancestor(groups, g)[n + 1] = Ancestor(groups, Above(groups, g))[n]
<1> DEFINE h == Above(groups, g)  up == Ancestor(groups, g)  over == Ancestor(groups, h)
           S == {n \in Nat : up[n + 1] = over[n]}
<1>0. h \in GroupIds \cup {0}
  BY AboveIs
<1> HIDE DEF h
<1>1. /\ up[0] = g /\ \A n \in Nat : up[n + 1] = Above(groups, up[n])
      /\ over[0] = h /\ \A n \in Nat : over[n + 1] = Above(groups, over[n])
  BY <1>0, AncestorIs
<1> HIDE DEF up, over
<1>2. 0 \in S
  <2>1. up[0 + 1] = Above(groups, up[0])
    BY <1>1
  <2> QED BY <1>1, <2>1 DEF h
<1>3. ASSUME NEW n \in Nat, n \in S PROVE n + 1 \in S
  <2>1. up[n + 1] = over[n] /\ n + 1 \in Nat
    BY <1>3
  <2>2. up[(n + 1) + 1] = Above(groups, up[n + 1]) /\ over[n + 1] = Above(groups, over[n])
    BY <1>1, <2>1
  <2> QED BY <2>1, <2>2
<1> HIDE DEF S
<1>4. \A n \in Nat : n \in S
  BY <1>2, <1>3, AllNat
<1> QED BY <1>4 DEF S, up, over, h

\* Above a root there is nothing.
LEMMA AncestorEnds ==
    ASSUME NEW groups \in Tables, NEW g \in GroupIds \cup {0}, NEW m \in Nat,
           Ancestor(groups, g)[m] = 0
    PROVE  \A n \in Nat : n >= m => Ancestor(groups, g)[n] = 0
<1> DEFINE up == Ancestor(groups, g)  S == {n \in Nat : n >= m => up[n] = 0}
<1>1. \A n \in Nat : up[n + 1] = Above(groups, up[n])
  BY AncestorIs
<1>2. Above(groups, 0) = 0 /\ up[m] = 0
  BY AboveIs
<1> HIDE DEF up
<1>3. 0 \in S
  BY <1>2
<1>4. ASSUME NEW n \in Nat, n \in S PROVE n + 1 \in S
  <2>1. CASE n + 1 = m
    BY <1>2, <2>1
  <2>2. CASE n >= m
    BY <1>1, <1>2, <1>4, <2>2
  <2> QED BY <2>1, <2>2
<1> HIDE DEF S
<1>5. \A n \in Nat : n \in S
  BY <1>3, <1>4, AllNat
<1> QED BY <1>5 DEF S, up

\* Equal ancestors have equal ancestors.
LEMMA AncestorRepeats ==
    ASSUME NEW groups \in Tables, NEW g \in GroupIds \cup {0}, NEW i \in Nat, NEW j \in Nat,
           Ancestor(groups, g)[i] = Ancestor(groups, g)[j]
    PROVE  \A n \in Nat : Ancestor(groups, g)[i + n] = Ancestor(groups, g)[j + n]
<1> DEFINE up == Ancestor(groups, g)  S == {n \in Nat : up[i + n] = up[j + n]}
<1>1. \A n \in Nat : up[n + 1] = Above(groups, up[n])
  BY AncestorIs
<1>2. up[i] = up[j]
  OBVIOUS
<1> HIDE DEF up
<1>3. 0 \in S
  BY <1>2
<1>4. ASSUME NEW n \in Nat, n \in S PROVE n + 1 \in S
  <2>1. /\ i + n \in Nat /\ j + n \in Nat
        /\ (i + n) + 1 = i + (n + 1) /\ (j + n) + 1 = j + (n + 1)
    OBVIOUS
  <2>2. up[(i + n) + 1] = Above(groups, up[i + n]) /\ up[(j + n) + 1] = Above(groups, up[j + n])
    BY <1>1, <2>1
  <2> QED BY <1>4, <2>1, <2>2
<1> HIDE DEF S
<1>5. \A n \in Nat : n \in S
  BY <1>3, <1>4, AllNat
<1> QED BY <1>5 DEF S, up

LEMMA DepthIs == Depth \in Nat
BY MenuAssumption, FS_CardinalityType DEF Depth

\* A line that ends has ended after as many steps as there are groups: a
\* longer one would come through some group twice, and never end.
LEMMA AncestorBound ==
    ASSUME NEW groups \in Tables, NEW g \in GroupIds \cup {0}, NEW k \in Nat,
           Ancestor(groups, g)[k] = 0
    PROVE  Ancestor(groups, g)[Depth] = 0
<1> DEFINE up == Ancestor(groups, g)  T == {n \in Nat : up[n] = 0}
<1>0. Depth \in Nat /\ up \in [Nat -> GroupIds \cup {0}]
  BY DepthIs, AncestorIs
<1>1. PICK n \in T : \A y \in T : n =< y
  <2>1. T \subseteq Nat /\ k \in T
    OBVIOUS
  <2> HIDE DEF T
  <2> QED BY <2>1, LeastNat
<1>2. CASE n =< Depth
  BY <1>0, <1>2, AncestorEnds
<1>3. CASE n > Depth
  <2> DEFINE f == [i \in 0..Depth |-> up[i]]
  <2>1. f \in [0..Depth -> GroupIds]
    BY <1>0, <1>1, <1>3
  <2>2. IsFiniteSet(0..Depth) /\ Cardinality(GroupIds) < Cardinality(0..Depth)
    <3>1. 0 \in Int /\ Depth \in Int /\ ~(0 > Depth) /\ Depth - 0 + 1 = Depth + 1
      BY <1>0
    <3>2. IsFiniteSet(0..Depth) /\ Cardinality(0..Depth) = Depth + 1
      BY <3>1, FS_Interval
    <3> QED BY <1>0, <3>2 DEF Depth
  <2>3. \E i, j \in 0..Depth : i # j /\ f[i] = f[j]
    <3> DEFINE D == 0..Depth
    <3>1. IsFiniteSet(GroupIds)
      BY MenuAssumption
    <3>2. f \in [D -> GroupIds] /\ IsFiniteSet(D) /\ Cardinality(GroupIds) < Cardinality(D)
      BY <2>1, <2>2
    <3> HIDE DEF f, D
    <3>3. \E i, j \in D : i # j /\ f[i] = f[j]
      BY <3>1, <3>2, FS_PigeonHole
    <3> QED BY <3>3 DEF D
  <2>4. PICK i \in 0..Depth, j \in 0..Depth : i < j /\ up[i] = up[j]
    <3>1. PICK i \in 0..Depth, j \in 0..Depth : i # j /\ up[i] = up[j]
      BY <2>3
    <3>2. i < j \/ j < i
      BY <1>0, <3>1
    <3> QED BY <3>1, <3>2
  <2>5. i \in Nat /\ j \in Nat /\ n - j \in Nat /\ j + (n - j) = n
        /\ i + (n - j) \in Nat /\ i + (n - j) < n
    BY <1>0, <1>1, <1>3, <2>4
  <2>6. up[i + (n - j)] = up[n]
    <3> DEFINE d == n - j
    <3>1. i \in Nat /\ j \in Nat /\ d \in Nat /\ j + d = n
      BY <2>5
    <3> HIDE DEF d
    <3>2. up[i + d] = up[j + d]
      BY <2>4, <3>1, AncestorRepeats
    <3> QED BY <3>1, <3>2 DEF d
  <2> QED BY <1>1, <2>5, <2>6
<1> QED BY <1>0, <1>1, <1>2, <1>3

-----------------------------------------------------------------------------
(* The search for a group with images. *)

Finds == {"yes", "no", "loop"}

\* The children of a group are groups.
LEMMA ChildrenAre ==
    ASSUME NEW mb, NEW h
    PROVE  /\ getChildGroups(mb, h) \subseteq GroupIds
           /\ getChildGroups(mb, h) \subseteq Nat
           /\ \A c \in getChildGroups(mb, h) : GroupEnabled(mb, c) /\ mb.groups[c].parent = h
BY MenuAssumption DEF getChildGroups

\* The first child that is not without images decides.
LEMMA FirstFoundIs ==
    ASSUME NEW found \in [GroupIds -> Finds], NEW children,
           children \subseteq GroupIds, children \subseteq Nat
    PROVE  /\ FirstFound(found, children) \in Finds
           /\ FirstFound(found, children) = "no" <=> \A c \in children : found[c] = "no"
           /\ FirstFound(found, children) # "no" =>
                \E c \in children : /\ FirstFound(found, children) = found[c]
                                    /\ found[c] # "no"
                                    /\ \A d \in children : found[d] # "no" => c =< d
<1> DEFINE hits == {c \in children : found[c] # "no"}
<1>1. hits \subseteq Nat /\ hits \subseteq children
  OBVIOUS
<1>2. CASE hits = {}
  BY <1>2 DEF FirstFound, Finds
<1>3. CASE hits # {}
  <2>1. Min(hits) \in hits /\ \A d \in hits : Min(hits) =< d
    <3> HIDE DEF hits
    <3> QED BY <1>1, <1>3, MinIs
  <2>2. FirstFound(found, children) = found[Min(hits)]
    BY <1>3 DEF FirstFound
  <2> QED BY <2>1, <2>2
<1> QED BY <1>2, <1>3

\* One call of groupHasImages, given what the calls for the children return.
Called(mb, below) ==
    [h \in GroupIds |-> IF getGroupImages(mb, h) # {} THEN "yes"
                        ELSE FirstFound(below, getChildGroups(mb, h))]

LEMMA CalledTyped ==
    ASSUME NEW mb, NEW below \in [GroupIds -> Finds]
    PROVE  Called(mb, below) \in [GroupIds -> Finds]
<1>1. \A h \in GroupIds : FirstFound(below, getChildGroups(mb, h)) \in Finds
  BY ChildrenAre, FirstFoundIs
<1> QED BY <1>1 DEF Called, Finds

Bottom(mb) == [h \in GroupIds |-> IF getGroupImages(mb, h) # {} THEN "yes" ELSE "loop"]

LEMMA FoundIs ==
    ASSUME NEW mb
    PROVE  /\ FoundBelow(mb) \in [Nat -> [GroupIds -> Finds]]
           /\ FoundBelow(mb)[0] = Bottom(mb)
           /\ \A n \in Nat : FoundBelow(mb)[n + 1] = Called(mb, FoundBelow(mb)[n])
<1> DEFINE V == [GroupIds -> Finds]
           G == [below \in V |-> Called(mb, below)]
           has == CHOOSE f : f = [n \in Nat |-> IF n = 0 THEN Bottom(mb) ELSE Called(mb, f[n - 1])]
           a == Bottom(mb)
<1>1. a \in V /\ G \in [V -> V]
  BY CalledTyped DEF Bottom, Finds
<1>2. PICK f \in [Nat -> V] : \A n \in Nat : f[n] = IF n = 0 THEN a ELSE G[f[n - 1]]
  <2> HIDE DEF G, V, a
  <2> QED BY <1>1, Recursion
<1>3. f = [n \in Nat |-> IF n = 0 THEN Bottom(mb) ELSE Called(mb, f[n - 1])]
  <2>1. \A n \in Nat : n # 0 => f[n - 1] \in V
    OBVIOUS
  <2>2. \A n \in Nat : n # 0 => G[f[n - 1]] = Called(mb, f[n - 1])
    BY <2>1
  <2> HIDE DEF V, G
  <2> QED BY <1>2, <2>2
<1>4. has = [n \in Nat |-> IF n = 0 THEN Bottom(mb) ELSE Called(mb, has[n - 1])]
  BY <1>3
<1>5. FoundBelow(mb) = has
  BY DEF FoundBelow, Bottom, Called
<1> HIDE DEF has
<1>6. has[0] = Bottom(mb) /\ \A n \in Nat : has[n + 1] = Called(mb, has[n])
  BY <1>4
<1>7. \A n \in Nat : has[n] \in V
  <2> DEFINE S == {n \in Nat : has[n] \in V}
  <2>1. 0 \in S /\ \A n \in Nat : n \in S => n + 1 \in S
    BY <1>1, <1>6, CalledTyped
  <2> HIDE DEF S
  <2>2. \A n \in Nat : n \in S
    BY <2>1, AllNat
  <2> QED BY <2>2 DEF S
<1>8. has \in [Nat -> V]
  BY <1>4, <1>7
<1> QED BY <1>5, <1>6, <1>8

\* At any depth: a group with images of its own has images; without, the
\* children decide, one call further down.
LEMMA FoundAt ==
    ASSUME NEW mb, NEW n \in Nat, NEW h \in GroupIds
    PROVE  /\ FoundBelow(mb)[n] \in [GroupIds -> Finds]
           /\ FoundBelow(mb)[n][h] \in Finds
           /\ getGroupImages(mb, h) # {} => FoundBelow(mb)[n][h] = "yes"
           /\ getGroupImages(mb, h) = {} =>
                /\ FoundBelow(mb)[0][h] = "loop"
                /\ FoundBelow(mb)[n + 1][h] = FirstFound(FoundBelow(mb)[n], getChildGroups(mb, h))
<1>1. FoundBelow(mb)[n] \in [GroupIds -> Finds] /\ FoundBelow(mb)[0] = Bottom(mb)
      /\ FoundBelow(mb)[n + 1] = Called(mb, FoundBelow(mb)[n])
  BY FoundIs
<1>2. getGroupImages(mb, h) # {} => FoundBelow(mb)[n][h] = "yes"
  <2>1. CASE n = 0
    BY <1>1, <2>1 DEF Bottom
  <2>2. CASE n # 0
    <3>1. n - 1 \in Nat /\ (n - 1) + 1 = n
      BY <2>2
    <3>2. FoundBelow(mb)[(n - 1) + 1] = Called(mb, FoundBelow(mb)[n - 1])
      BY <3>1, FoundIs
    <3>3. FoundBelow(mb)[n] = Called(mb, FoundBelow(mb)[n - 1])
      BY <3>1, <3>2
    <3> QED BY <3>3 DEF Called
  <2> QED BY <2>1, <2>2
<1>3. getGroupImages(mb, h) = {} => FoundBelow(mb)[0][h] = "loop"
  BY <1>1 DEF Bottom
<1>4. getGroupImages(mb, h) = {} =>
        FoundBelow(mb)[n + 1][h] = FirstFound(FoundBelow(mb)[n], getChildGroups(mb, h))
  BY <1>1 DEF Called
<1> QED BY <1>1, <1>2, <1>3, <1>4

\* More depth does not change an answer.
LEMMA FoundStays ==
    ASSUME NEW mb
    PROVE  \A n \in Nat : \A h \in GroupIds :
              FoundBelow(mb)[n][h] # "loop" => FoundBelow(mb)[n + 1][h] = FoundBelow(mb)[n][h]
<1> DEFINE has == FoundBelow(mb)
           S == {n \in Nat : \A h \in GroupIds : has[n][h] # "loop" => has[n + 1][h] = has[n][h]}
<1>1. 0 \in S
  <2> SUFFICES ASSUME NEW h \in GroupIds, has[0][h] # "loop" PROVE has[0 + 1][h] = has[0][h]
    OBVIOUS
  <2>1. getGroupImages(mb, h) # {}
    BY FoundAt
  <2> QED BY <2>1, FoundAt
<1>2. ASSUME NEW n \in Nat, n \in S PROVE n + 1 \in S
  <2> SUFFICES ASSUME NEW h \in GroupIds, has[n + 1][h] # "loop"
               PROVE  has[(n + 1) + 1][h] = has[n + 1][h]
    OBVIOUS
  <2>0. n + 1 \in Nat /\ \A c \in GroupIds : has[n][c] # "loop" => has[n + 1][c] = has[n][c]
    BY <1>2
  <2>1. CASE getGroupImages(mb, h) # {}
    BY <2>0, <2>1, FoundAt
  <2>2. CASE getGroupImages(mb, h) = {}
    <3> DEFINE kids == getChildGroups(mb, h)
               F(m) == FirstFound(has[m], kids)
    <3>1. kids \subseteq GroupIds /\ kids \subseteq Nat
      BY ChildrenAre
    <3>2. /\ has[n] \in [GroupIds -> Finds] /\ has[n + 1] \in [GroupIds -> Finds]
          /\ has[n + 1][h] = F(n) /\ has[(n + 1) + 1][h] = F(n + 1)
      BY <2>0, <2>2, FoundAt
    <3> HIDE DEF has, kids
    <3>3. CASE F(n) = "no"
      <4>1. \A c \in kids : has[n][c] = "no"
        BY <3>1, <3>2, <3>3, FirstFoundIs
      <4>2. \A c \in kids : has[n + 1][c] = "no"
        BY <2>0, <3>1, <4>1
      <4>3. F(n + 1) = "no"
        BY <3>1, <3>2, <4>2, FirstFoundIs
      <4> QED BY <3>2, <3>3, <4>3
    <3>4. CASE F(n) # "no"
      <4>1. F(n) = "yes"
        BY <3>2, <3>4 DEF Finds
      <4>2. PICK c \in kids : has[n][c] = "yes" /\ \A d \in kids : has[n][d] # "no" => c =< d
        <5> DEFINE found == has[n]
        <5>0. found \in [GroupIds -> Finds] /\ FirstFound(found, kids) # "no"
          BY <3>2, <3>4
        <5> HIDE DEF found
        <5>1. PICK c \in kids : /\ FirstFound(found, kids) = found[c] /\ found[c] # "no"
                                /\ \A d \in kids : found[d] # "no" => c =< d
          BY <3>1, <5>0, FirstFoundIs
        <5> QED BY <4>1, <5>1 DEF found
      <4>3. has[n + 1][c] = "yes"
        BY <2>0, <3>1, <4>2
      <4>4. \A d \in kids : d < c => has[n + 1][d] = "no"
        <5>1. \A d \in kids : d < c => has[n][d] = "no"
          BY <3>1, <4>2
        <5> QED BY <2>0, <3>1, <5>1
      <4>5. F(n + 1) # "no"
        BY <3>1, <3>2, <4>3, FirstFoundIs
      <4>6. PICK d \in kids : /\ F(n + 1) = has[n + 1][d] /\ has[n + 1][d] # "no"
                              /\ \A e \in kids : has[n + 1][e] # "no" => d =< e
        BY <3>1, <3>2, <4>5, FirstFoundIs
      <4>7. d = c
        BY <3>1, <4>3, <4>4, <4>6
      <4> QED BY <3>2, <4>1, <4>3, <4>6, <4>7
    <3> QED BY <3>3, <3>4
  <2> QED BY <2>1, <2>2
<1> HIDE DEF S
<1>3. \A n \in Nat : n \in S
  BY <1>1, <1>2, AllNat
<1> QED BY <1>3 DEF S, has

\* A search that has not returned at a depth has a line of groups of that
\* length below it.
LEMMA LoopHasLine ==
    ASSUME NEW mb \in MenuBuilder
    PROVE  \A n \in Nat : \A h \in GroupIds : FoundBelow(mb)[n][h] = "loop" =>
              \E c \in GroupIds : Ancestor(mb.groups, c)[n] = h
<1> DEFINE has == FoundBelow(mb)
           S == {n \in Nat : \A h \in GroupIds : has[n][h] = "loop" =>
                                \E c \in GroupIds : Ancestor(mb.groups, c)[n] = h}
<1>0. mb.groups \in Tables
  BY DEF MenuBuilder
<1>1. 0 \in S
  <2>1. \A h \in GroupIds : Ancestor(mb.groups, h)[0] = h
    BY <1>0, AncestorIs
  <2> QED BY <2>1
<1>2. ASSUME NEW n \in Nat, n \in S PROVE n + 1 \in S
  <2> SUFFICES ASSUME NEW h \in GroupIds, has[n + 1][h] = "loop"
               PROVE  \E c \in GroupIds : Ancestor(mb.groups, c)[n + 1] = h
    OBVIOUS
  <2> DEFINE kids == getChildGroups(mb, h)
  <2>1. /\ has[n] \in [GroupIds -> Finds]
        /\ has[n + 1][h] = FirstFound(has[n], kids)
    <3>1. getGroupImages(mb, h) = {}
      BY FoundAt
    <3> QED BY <3>1, FoundAt
  <2>2. PICK d \in kids : has[n][d] = "loop"
    <3>1. kids \subseteq GroupIds /\ kids \subseteq Nat
      BY ChildrenAre
    <3>2. FirstFound(has[n], kids) = "loop"
      BY <2>1
    <3> HIDE DEF kids, has
    <3>3. PICK c \in kids : FirstFound(has[n], kids) = has[n][c]
      BY <2>1, <3>1, <3>2, FirstFoundIs
    <3> QED BY <3>2, <3>3
  <2>3. d \in GroupIds /\ mb.groups[d] # None /\ mb.groups[d].parent = h
    BY ChildrenAre DEF GroupEnabled
  <2>4. PICK c \in GroupIds : Ancestor(mb.groups, c)[n] = d
    BY <1>2, <2>2, <2>3
  <2>5. Above(mb.groups, d) = h
    BY <2>3, MenuAssumption DEF Above
  <2>6. Ancestor(mb.groups, c)[n + 1] = h
    BY <1>0, <2>4, <2>5, AncestorIs
  <2> QED BY <2>6
<1> HIDE DEF S
<1>3. \A n \in Nat : n \in S
  BY <1>1, <1>2, AllNat
<1> QED BY <1>3 DEF S, has

LEMMA LoopIsCycle ==
    ASSUME NEW mb \in MenuBuilder, NEW g \in GroupIds, groupHasImages(mb, g) = "loop"
    PROVE  ~Acyclic(mb.groups)
<1>1. PICK c \in GroupIds : Ancestor(mb.groups, c)[Depth] = g
  BY LoopHasLine, DepthIs DEF groupHasImages
<1> QED BY <1>1, MenuAssumption DEF Acyclic

LEMMA ImagesIn ==
    ASSUME NEW mb \in MenuBuilder
    PROVE  /\ mb.groups \in Tables
           /\ \A f \in DOMAIN mb.imgs : f \in Images /\ f \in Nat /\ mb.imgs[f] \in GroupIds \cup {0}
<1>1. mb.groups \in Tables /\ mb.imgs \in Shown
  BY DEF MenuBuilder
<1>2. PICK S \in SUBSET Images : mb.imgs \in [S -> GroupIds \cup {0}]
  BY <1>1 DEF Shown
<1> QED BY <1>1, <1>2, MenuAssumption

\* A search that has found something has a line of groups below it that ends
\* at the group of one of the machine's images.
LEMMA FoundHasLine ==
    ASSUME NEW mb \in MenuBuilder
    PROVE  \A n \in Nat : \A h \in GroupIds : FoundBelow(mb)[n][h] = "yes" =>
              \E f \in DOMAIN mb.imgs : \E k \in 0..n : Ancestor(mb.groups, mb.imgs[f])[k] = h
<1> DEFINE has == FoundBelow(mb)
           Leads(n, h) == \E f \in DOMAIN mb.imgs : \E k \in 0..n :
                             Ancestor(mb.groups, mb.imgs[f])[k] = h
           S == {n \in Nat : \A h \in GroupIds : has[n][h] = "yes" => Leads(n, h)}
<1>0. mb.groups \in Tables /\ \A f \in DOMAIN mb.imgs : mb.imgs[f] \in GroupIds \cup {0}
  BY ImagesIn
<1>1. ASSUME NEW n \in Nat, NEW h \in GroupIds, getGroupImages(mb, h) # {}
      PROVE  Leads(n, h)
  <2>1. PICK f \in DOMAIN mb.imgs : mb.imgs[f] = h
    BY <1>1 DEF getGroupImages
  <2>2. Ancestor(mb.groups, mb.imgs[f])[0] = h /\ 0 \in 0..n
    BY <1>0, <2>1, AncestorIs
  <2> QED BY <2>1, <2>2
<1>2. 0 \in S
  <2>1. \A h \in GroupIds : has[0][h] = "yes" => getGroupImages(mb, h) # {}
    BY FoundAt
  <2> QED BY <1>1, <2>1
<1>3. ASSUME NEW n \in Nat, n \in S PROVE n + 1 \in S
  <2> SUFFICES ASSUME NEW h \in GroupIds, has[n + 1][h] = "yes", getGroupImages(mb, h) = {}
               PROVE  Leads(n + 1, h)
    BY <1>1
  <2> DEFINE kids == getChildGroups(mb, h)
  <2>1. has[n] \in [GroupIds -> Finds] /\ FirstFound(has[n], kids) = "yes"
    BY FoundAt
  <2>2. PICK d \in kids : has[n][d] = "yes"
    <3>1. kids \subseteq GroupIds /\ kids \subseteq Nat
      BY ChildrenAre
    <3> HIDE DEF kids, has
    <3>2. PICK c \in kids : FirstFound(has[n], kids) = has[n][c]
      BY <2>1, <3>1, FirstFoundIs
    <3> QED BY <2>1, <3>2
  <2>3. d \in GroupIds /\ mb.groups[d] # None /\ mb.groups[d].parent = h
    BY ChildrenAre DEF GroupEnabled
  <2>4. PICK f \in DOMAIN mb.imgs, k \in 0..n : Ancestor(mb.groups, mb.imgs[f])[k] = d
    BY <1>3, <2>2, <2>3
  <2>5. Above(mb.groups, d) = h
    BY <2>3, MenuAssumption DEF Above
  <2>6. Ancestor(mb.groups, mb.imgs[f])[k + 1] = h /\ k + 1 \in 0..(n + 1)
    BY <1>0, <2>4, <2>5, AncestorIs
  <2> QED BY <2>6
<1> HIDE DEF S
<1>4. \A n \in Nat : n \in S
  BY <1>2, <1>3, AllNat
<1> QED BY <1>4 DEF S, has

-----------------------------------------------------------------------------
(* A menu that was served. *)

\* No enabled group is in trouble.
LEMMA ServedIs ==
    ASSUME NEW mb \in MenuBuilder, buildGroupMenus(mb) = "served"
    PROVE  \A g \in GroupIds : GroupEnabled(mb, g) => groupHasImages(mb, g) # "loop"
<1>1. \A g \in GroupIds : Trouble(mb, g) = "none"
  BY BuildIs
<1> QED BY <1>1 DEF Trouble

\* An enabled group above a visible one is visible: its search has found it.
LEMMA ParentVisible ==
    ASSUME NEW mb \in MenuBuilder, buildGroupMenus(mb) = "served",
           NEW g \in GroupIds, Visible(mb, g),
           NEW p \in GroupIds, mb.groups[g].parent = p, GroupEnabled(mb, p)
    PROVE  Visible(mb, p)
<1> DEFINE has == FoundBelow(mb)  kids == getChildGroups(mb, p)
<1>1. has[Depth][p] \in Finds /\ has[Depth] \in [GroupIds -> Finds]
  BY DepthIs, FoundAt
<1>2. has[Depth][p] # "loop"
  BY ServedIs DEF groupHasImages
<1>3. has[Depth][p] # "no"
  <2> SUFFICES ASSUME has[Depth][p] = "no" PROVE FALSE
    OBVIOUS
  <2>1. has[Depth + 1][p] = "no"
    BY <1>2, DepthIs, FoundStays
  <2>2. getGroupImages(mb, p) = {}
    BY DepthIs, FoundAt
  <2>3. FirstFound(has[Depth], kids) = "no"
    BY <2>1, <2>2, DepthIs, FoundAt
  <2>4. g \in kids /\ has[Depth][g] = "yes"
    BY DEF Visible, getChildGroups, groupHasImages
  <2>5. kids \subseteq GroupIds /\ kids \subseteq Nat
    BY ChildrenAre
  <2>6. \A c \in kids : has[Depth][c] = "no"
    <3> HIDE DEF has, kids
    <3> QED BY <1>1, <2>3, <2>5, FirstFoundIs
  <2> QED BY <2>4, <2>6
<1>4. groupHasImages(mb, p) = "yes"
  BY <1>1, <1>2, <1>3 DEF Finds, groupHasImages
<1> QED BY <1>4 DEF Visible

\* A visible group without images of its own has a visible subgroup.
LEMMA VisibleBelow ==
    ASSUME NEW mb \in MenuBuilder, NEW g \in GroupIds, Visible(mb, g),
           getGroupImages(mb, g) = {}
    PROVE  \E c \in getChildGroups(mb, g) : Visible(mb, c)
<1> DEFINE has == FoundBelow(mb)  kids == getChildGroups(mb, g)
<1>1. has[Depth] \in [GroupIds -> Finds] /\ has[Depth][g] = "yes"
  BY DepthIs, FoundAt DEF Visible, groupHasImages
<1>2. has[Depth + 1][g] = "yes"
  BY <1>1, DepthIs, FoundStays
<1>3. FirstFound(has[Depth], kids) = "yes"
  BY <1>2, DepthIs, FoundAt
<1>4. kids \subseteq GroupIds /\ kids \subseteq Nat /\ \A c \in kids : GroupEnabled(mb, c)
  BY ChildrenAre
<1>5. PICK c \in kids : has[Depth][c] = "yes"
  <2> DEFINE found == has[Depth]
  <2>1. found \in [GroupIds -> Finds] /\ FirstFound(found, kids) = "yes"
    BY <1>1, <1>3
  <2> HIDE DEF found, kids
  <2>2. \E c \in kids : FirstFound(found, kids) = found[c]
    BY <1>4, <2>1, FirstFoundIs
  <2> QED BY <2>1, <2>2 DEF found
<1> QED BY <1>4, <1>5 DEF Visible, groupHasImages

\* A group with images of its own is visible if it is enabled.
LEMMA VisibleOwn ==
    ASSUME NEW mb \in MenuBuilder, NEW g \in GroupIds, GroupEnabled(mb, g),
           getGroupImages(mb, g) # {}
    PROVE  Visible(mb, g)
BY DepthIs, FoundAt DEF Visible, groupHasImages

\* Where each kind of label leads.
LEMMA LabelIs ==
    ASSUME NEW mb, NEW l \in Labels(mb)
    PROVE  \/ l = Start
           \/ \E g \in GroupIds : l = Group(g) /\ Visible(mb, g)
           \/ \E f \in DOMAIN mb.imgs : l = Iso(f)
           \/ mb.tools /\ l \in {Word("tools"), Word("tool"), Word("back")}
           \/ l \in Options \cup {Word("failed")}
BY DEF Labels

LEMMA TargetsAre ==
    ASSUME NEW mb
    PROVE  /\ Targets(mb, Start) = buildMainMenu(mb)
           /\ \A g : Targets(mb, Group(g)) = GroupMenu(mb, g)
           /\ \A f : Targets(mb, Iso(f)) = buildImageBootSections(mb, f)
           /\ Targets(mb, Word("tools")) = {Word("tool"), Word("back")}
           /\ Targets(mb, Word("tool")) = {Word("failed")}
           /\ Targets(mb, Word("back")) = {Start} /\ Targets(mb, Word("failed")) = {Start}
           /\ \A l \in Options : Targets(mb, l) = {}
<1>1. Targets(mb, Start) = buildMainMenu(mb)
  BY DEF Targets, Start
<1>2. ASSUME NEW g PROVE Targets(mb, Group(g)) = GroupMenu(mb, g)
  BY DEF Targets, Group
<1>3. ASSUME NEW f PROVE Targets(mb, Iso(f)) = buildImageBootSections(mb, f)
  BY DEF Targets, Iso
<1>4. ASSUME NEW w \in {"tools", "tool", "back", "failed", "local", "shell", "reboot"}
      PROVE  Targets(mb, Word(w)) = buildFooter(mb, w)
  BY DEF Targets, Word
<1>5. /\ buildFooter(mb, "tools") = {Word("tool"), Word("back")}
      /\ buildFooter(mb, "tool") = {Word("failed")}
      /\ buildFooter(mb, "back") = {Start} /\ buildFooter(mb, "failed") = {Start}
      /\ \A w \in {"local", "shell", "reboot"} : buildFooter(mb, w) = {}
  BY DEF buildFooter
<1> QED BY <1>1, <1>2, <1>3, <1>4, <1>5 DEF Options

\* What a label of a main menu script leads to.
LEMMA Resolves ==
    ASSUME NEW mb \in MenuBuilder, buildGroupMenus(mb) = "served", ~hasEnabledImage(mb),
           NEW l \in Labels(mb), NEW t \in Targets(mb, l)
    PROVE  t \in Labels(mb) \/ (t[1] = "group" /\ ~GroupEnabled(mb, t[2]))
<1>0. /\ Start \in Labels(mb) /\ Word("failed") \in Labels(mb) /\ Options \subseteq Labels(mb)
      /\ \A g \in GroupIds : Visible(mb, g) => Group(g) \in Labels(mb)
      /\ \A f \in DOMAIN mb.imgs : Iso(f) \in Labels(mb)
      /\ mb.tools => {Word("tools"), Word("tool"), Word("back")} \subseteq Labels(mb)
  BY DEF Labels
<1>1. CASE l = Start
  BY <1>0, <1>1, TargetsAre DEF buildMainMenu, getRootGroups, getUngroupedImages
<1>2. ASSUME NEW g \in GroupIds, l = Group(g), Visible(mb, g)
      PROVE  t \in Labels(mb) \/ (t[1] = "group" /\ ~GroupEnabled(mb, t[2]))
  <2>1. t \in GroupMenu(mb, g)
    BY <1>2, TargetsAre
  <2>2. CASE t = Back(mb, g)
    <3> DEFINE p == mb.groups[g].parent
    <3>1. p \in GroupIds \cup {0}
      BY <1>2, ImagesIn DEF Visible, GroupEnabled, Tables, ImageGroupRow
    <3>2. CASE p = 0
      BY <1>0, <2>2, <3>2 DEF Back
    <3>3. CASE p # 0
      <4>1. t = Group(p) /\ p \in GroupIds
        BY <2>2, <3>1, <3>3 DEF Back
      <4>2. GroupEnabled(mb, p) => Visible(mb, p)
        BY <1>2, <4>1, ParentVisible
      <4>3. t[1] = "group" /\ t[2] = p
        BY <4>1 DEF Group
      <4> QED BY <1>0, <4>1, <4>2, <4>3
    <3> QED BY <3>2, <3>3
  <2>3. CASE t # Back(mb, g)
    BY <1>0, <2>1, <2>3, ChildrenAre DEF GroupMenu, getGroupImages
  <2> QED BY <2>2, <2>3
<1>3. ASSUME NEW f \in DOMAIN mb.imgs, l = Iso(f)
      PROVE  t \in Labels(mb) \/ (t[1] = "group" /\ ~GroupEnabled(mb, t[2]))
  <2> DEFINE g == mb.imgs[f]
  <2>1. t = Word("failed") \/ (g = 0 /\ t = Start) \/ (g # 0 /\ t = Group(g))
    BY <1>3, TargetsAre DEF buildImageBootSections
  <2>2. ASSUME g # 0, t = Group(g)
        PROVE  t \in Labels(mb) \/ (t[1] = "group" /\ ~GroupEnabled(mb, t[2]))
    <3>1. g \in GroupIds /\ getGroupImages(mb, g) # {}
      BY <2>2, ImagesIn DEF getGroupImages
    <3>2. t[1] = "group" /\ t[2] = g
      BY <2>2 DEF Group
    <3>3. GroupEnabled(mb, g) => Visible(mb, g)
      BY <3>1, VisibleOwn
    <3> HIDE DEF g
    <3> QED BY <1>0, <2>2, <3>1, <3>2, <3>3
  <2> QED BY <1>0, <2>1, <2>2
<1>4. CASE mb.tools /\ l \in {Word("tools"), Word("tool"), Word("back")}
  BY <1>0, <1>4, TargetsAre
<1>5. CASE l \in Options \cup {Word("failed")}
  BY <1>0, <1>5, TargetsAre
<1> QED BY <1>1, <1>2, <1>3, <1>4, <1>5, LabelIs

-----------------------------------------------------------------------------
(* A machine nobody sits at. *)

\* The groups from the top down to g are n + 1.
Below(mb, g, n) == Ancestor(mb.groups, g)[n] # 0 /\ Ancestor(mb.groups, g)[n + 1] = 0

LEMMA ParentIs ==
    ASSUME NEW mb \in MenuBuilder, NEW g \in GroupIds, GroupEnabled(mb, g)
    PROVE  /\ mb.groups[g].parent \in GroupIds \cup {0}
           /\ Above(mb.groups, g) = mb.groups[g].parent
BY ImagesIn, MenuAssumption DEF GroupEnabled, Tables, ImageGroupRow, Above

LEMMA RootIsBelow ==
    ASSUME NEW mb \in MenuBuilder, NEW g \in getRootGroups(mb)
    PROVE  g \in GroupIds /\ Below(mb, g, 0)
<1>1. g \in GroupIds /\ GroupEnabled(mb, g) /\ mb.groups[g].parent = 0 /\ g # 0
  BY MenuAssumption DEF getRootGroups
<1>2. Above(mb.groups, g) = 0
  BY <1>1, ParentIs
<1>3. Ancestor(mb.groups, g)[0] = g /\ Ancestor(mb.groups, g)[0 + 1] = 0
  BY <1>1, <1>2, ImagesIn, AncestorIs
<1> QED BY <1>1, <1>3 DEF Below

LEMMA ChildIsBelow ==
    ASSUME NEW mb \in MenuBuilder, NEW g \in GroupIds, NEW n \in Nat, Below(mb, g, n),
           NEW c \in getChildGroups(mb, g)
    PROVE  Below(mb, c, n + 1)
<1>1. c \in GroupIds /\ Above(mb.groups, c) = g
  BY ChildrenAre, ParentIs
<1>2. \A i \in Nat : Ancestor(mb.groups, c)[i + 1] = Ancestor(mb.groups, g)[i]
  BY <1>1, ImagesIn, AncestorOfParent
<1> QED BY <1>2 DEF Below

\* The first item below the tools is one that boots or a visible group.
LEMMA FirstToBootIs ==
    ASSUME NEW mb \in MenuBuilder
    PROVE  /\ FirstToBoot(mb) \in buildMainMenu(mb)
           /\ \/ FirstToBoot(mb) \in Options
              \/ \E f \in DOMAIN mb.imgs : FirstToBoot(mb) = Iso(f)
              \/ \E g \in getRootGroups(mb) : Visible(mb, g) /\ FirstToBoot(mb) = Group(g)
<1> DEFINE groups == {g \in getRootGroups(mb) : Visible(mb, g)}
           images == getUngroupedImages(mb)
<1>1. groups # {} => Min(groups) \in groups
  <2>1. groups \subseteq Nat
    BY MenuAssumption DEF getRootGroups
  <2> HIDE DEF groups
  <2> QED BY <2>1, MinIs
<1>2. images # {} => Min(images) \in images /\ Min(images) \in DOMAIN mb.imgs
  <2>1. images \subseteq Nat /\ images \subseteq DOMAIN mb.imgs
    BY ImagesIn DEF getUngroupedImages
  <2> HIDE DEF images
  <2> QED BY <2>1, MinIs
<1>3. FirstToBoot(mb) = IF groups # {} THEN Group(Min(groups))
                        ELSE IF images # {} THEN Iso(Min(images)) ELSE Word("local")
  BY DEF FirstToBoot
<1>4. CASE groups # {}
  BY <1>1, <1>3, <1>4 DEF buildMainMenu
<1>5. CASE groups = {} /\ images # {}
  BY <1>2, <1>3, <1>5 DEF buildMainMenu
<1>6. CASE groups = {} /\ images = {}
  BY <1>3, <1>6 DEF buildMainMenu, Options
<1> QED BY <1>4, <1>5, <1>6

\* A menu in which a machine cannot be stuck.
Timely(mb) == mb.theme.timed /\ ~hasEnabledImage(mb) /\ (mb.next # None => ~mb.tools)

\* What the first timeout chooses.
LEMMA DefaultIs ==
    ASSUME NEW mb \in MenuBuilder, Timely(mb)
    PROVE  \/ Unattended(mb, Start) \in Options
           \/ \E f \in DOMAIN mb.imgs : Unattended(mb, Start) = Iso(f)
           \/ \E g \in getRootGroups(mb) : Visible(mb, g) /\ Unattended(mb, Start) = Group(g)
<1> DEFINE default == resolveDefaultItem(mb)
<1>1. mb.theme.default \in {"local", "shell", "reboot", "first"} /\ mb.local \in BOOLEAN
      /\ mb.tools \in BOOLEAN
  BY DEF MenuBuilder, Themes
<1>2. Unattended(mb, Start) = IF default \in buildMainMenu(mb) THEN default ELSE FirstItem(mb)
  <2>1. TimesOut(mb, Start)
    BY DEF Timely, TimesOut
  <2> QED BY <2>1 DEF Unattended
<1>3. Options \subseteq buildMainMenu(mb)
  BY DEF buildMainMenu
<1>4. CASE mb.next = None
  <2>1. CASE mb.local
    BY <1>2, <1>3, <1>4, <2>1 DEF resolveDefaultItem, Options
  <2>2. CASE ~mb.local /\ mb.theme.default # "first"
    <3>1. default = Word(mb.theme.default)
      BY <1>1, <1>4, <2>2 DEF resolveDefaultItem
    <3>2. default \in Options
      BY <1>1, <2>2, <3>1 DEF Options
    <3> QED BY <1>2, <1>3, <3>2
  <2>3. CASE ~mb.local /\ mb.theme.default = "first"
    <3>1. default = FirstToBoot(mb)
      BY <1>1, <1>4, <2>3 DEF resolveDefaultItem
    <3> QED BY <1>2, <3>1, FirstToBootIs
  <2> QED BY <1>1, <2>1, <2>2, <2>3
<1>5. CASE mb.next # None
  <2>1. default = Iso(mb.next) /\ mb.next \notin DOMAIN mb.imgs
    BY <1>5 DEF resolveDefaultItem, Timely, hasEnabledImage
  <2>2. default \notin buildMainMenu(mb)
    BY <2>1 DEF buildMainMenu, getUngroupedImages, Iso, Group, Word, Options
  <2>3. FirstItem(mb) = FirstToBoot(mb)
    BY <1>5 DEF FirstItem, Timely
  <2> QED BY <1>2, <2>2, <2>3, FirstToBootIs
<1> QED BY <1>4, <1>5

\* What a timeout in the menu of a visible group chooses.
LEMMA NextIs ==
    ASSUME NEW mb \in MenuBuilder, Timely(mb), NEW g \in GroupIds, Visible(mb, g)
    PROVE  \/ \E f \in DOMAIN mb.imgs : Unattended(mb, Group(g)) = Iso(f)
           \/ \E c \in getChildGroups(mb, g) : Visible(mb, c) /\ Unattended(mb, Group(g)) = Group(c)
<1> DEFINE groups == {c \in getChildGroups(mb, g) : Visible(mb, c)}
           images == getGroupImages(mb, g)
<1>1. Unattended(mb, Group(g)) = IF groups # {} THEN Group(Min(groups))
                                 ELSE IF images # {} THEN Iso(Min(images)) ELSE Back(mb, g)
  <2>1. Group(g) # Start /\ Group(g)[1] = "group" /\ Group(g)[2] = g
    BY DEF Group, Start
  <2>2. TimesOut(mb, Group(g))
    BY <2>1 DEF TimesOut, Timely
  <2> QED BY <2>1, <2>2 DEF Unattended, FirstInGroup
<1>2. groups # {} => Min(groups) \in groups
  <2>1. groups \subseteq Nat
    BY ChildrenAre
  <2> HIDE DEF groups
  <2> QED BY <2>1, MinIs
<1>3. images # {} => Min(images) \in DOMAIN mb.imgs
  <2>1. images \subseteq Nat /\ images \subseteq DOMAIN mb.imgs
    BY ImagesIn DEF getGroupImages
  <2> HIDE DEF images
  <2> QED BY <2>1, MinIs
<1>4. groups # {} \/ images # {}
  BY VisibleBelow
<1>5. CASE groups # {}
  BY <1>1, <1>2, <1>5
<1>6. CASE groups = {} /\ images # {}
  BY <1>1, <1>3, <1>6
<1> QED BY <1>4, <1>5, <1>6

LEMMA StaysThere ==
    ASSUME NEW mb, NEW l, l \in Options \/ \E f \in DOMAIN mb.imgs : l = Iso(f)
    PROVE  Unattended(mb, l) = l /\ l # Start
<1>1. l # Start /\ l[1] # "group"
  BY DEF Options, Word, Iso, Start
<1> QED BY <1>1 DEF Unattended, TimesOut

\* Booted, or in the menu of a visible group n groups down.
On(mb, l, n) ==
    \/ l \in Options
    \/ \E f \in DOMAIN mb.imgs : l = Iso(f)
    \/ \E g \in GroupIds : l = Group(g) /\ Visible(mb, g) /\ Below(mb, g, n)

LEMMA OnStep ==
    ASSUME NEW mb \in MenuBuilder, Timely(mb), NEW n \in Nat, NEW l, On(mb, l, n)
    PROVE  On(mb, Unattended(mb, l), n + 1)
<1>1. CASE l \in Options \/ \E f \in DOMAIN mb.imgs : l = Iso(f)
  BY <1>1, StaysThere DEF On
<1>2. ASSUME NEW g \in GroupIds, l = Group(g), Visible(mb, g), Below(mb, g, n)
      PROVE  On(mb, Unattended(mb, l), n + 1)
  <2>1. CASE \E f \in DOMAIN mb.imgs : Unattended(mb, Group(g)) = Iso(f)
    BY <1>2, <2>1 DEF On
  <2>2. ASSUME NEW c \in getChildGroups(mb, g), Visible(mb, c), Unattended(mb, Group(g)) = Group(c)
        PROVE  On(mb, Unattended(mb, l), n + 1)
    <3>1. c \in GroupIds /\ Below(mb, c, n + 1)
      BY <1>2, ChildrenAre, ChildIsBelow
    <3> QED BY <1>2, <2>2, <3>1 DEF On
  <2> QED BY <1>2, <2>1, <2>2, NextIs
<1> QED BY <1>1, <1>2 DEF On

LEMMA WaitedIs ==
    ASSUME NEW mb \in MenuBuilder, Timely(mb)
    PROVE  \A n \in Nat : On(mb, Waited(mb)[n + 1], n)
<1> DEFINE V == {Start} \cup {Group(g) : g \in {h \in GroupIds : Visible(mb, h)}}
                \cup {Iso(f) : f \in DOMAIN mb.imgs} \cup Options
           G == [l \in V |-> Unattended(mb, l)]
           at == CHOOSE f : f = [n \in Nat |-> IF n = 0 THEN Start ELSE Unattended(mb, f[n - 1])]
<1>1. Start \in V /\ G \in [V -> V]
  <2> SUFFICES ASSUME NEW l \in V PROVE Unattended(mb, l) \in V
    OBVIOUS
  <2>1. CASE l = Start
    BY <2>1, DefaultIs, RootIsBelow
  <2>2. CASE l \in Options \/ \E f \in DOMAIN mb.imgs : l = Iso(f)
    BY <2>2, StaysThere
  <2>3. ASSUME NEW g \in GroupIds, Visible(mb, g), l = Group(g) PROVE Unattended(mb, l) \in V
    BY <2>3, NextIs, ChildrenAre
  <2> QED BY <2>1, <2>2, <2>3
<1>2. PICK f \in [Nat -> V] : \A n \in Nat : f[n] = IF n = 0 THEN Start ELSE G[f[n - 1]]
  <2> HIDE DEF G, V
  <2> QED BY <1>1, Recursion
<1>3. f = [n \in Nat |-> IF n = 0 THEN Start ELSE Unattended(mb, f[n - 1])]
  <2>1. \A n \in Nat : n # 0 => f[n - 1] \in V
    OBVIOUS
  <2>2. \A n \in Nat : n # 0 => G[f[n - 1]] = Unattended(mb, f[n - 1])
    BY <2>1
  <2> HIDE DEF V, G
  <2> QED BY <1>2, <2>2
<1>4. at = [n \in Nat |-> IF n = 0 THEN Start ELSE Unattended(mb, at[n - 1])]
  BY <1>3
<1>5. Waited(mb) = at
  BY DEF Waited
<1> HIDE DEF at
<1>6. at[0] = Start /\ \A n \in Nat : at[n + 1] = Unattended(mb, at[n])
  BY <1>4
<1> DEFINE S == {n \in Nat : On(mb, at[n + 1], n)}
<1>7. 0 \in S
  <2>1. at[0 + 1] = Unattended(mb, Start)
    BY <1>6
  <2>2. On(mb, Unattended(mb, Start), 0)
    BY DefaultIs, RootIsBelow DEF On
  <2> QED BY <2>1, <2>2
<1>8. ASSUME NEW n \in Nat, n \in S PROVE n + 1 \in S
  <2>1. n + 1 \in Nat /\ On(mb, at[n + 1], n)
    BY <1>8
  <2>2. at[(n + 1) + 1] = Unattended(mb, at[n + 1])
    BY <1>6, <2>1
  <2> QED BY <2>1, <2>2, OnStep
<1> HIDE DEF S
<1>9. \A n \in Nat : n \in S
  BY <1>7, <1>8, AllNat
<1> QED BY <1>5, <1>9 DEF S

LEMMA GetsPast ==
    ASSUME NEW mb \in MenuBuilder, Timely(mb)
    PROVE  /\ Waited(mb)[Depth + 1] \in Options \cup {Iso(f) : f \in DOMAIN mb.imgs}
           /\ \A n \in 0..Depth : Waited(mb)[n + 1] # Start
<1>1. \A n \in Nat : On(mb, Waited(mb)[n + 1], n)
  BY WaitedIs
<1>2. \A n \in Nat : Waited(mb)[n + 1] # Start
  <2>1. ASSUME NEW n, NEW l, On(mb, l, n) PROVE l # Start
    BY <2>1 DEF On, Options, Word, Iso, Group, Start
  <2> QED BY <1>1, <2>1
<1>3. ASSUME NEW g \in GroupIds, Below(mb, g, Depth) PROVE FALSE
  <2>1. Depth + 1 \in Nat
    BY DepthIs
  <2>2. Ancestor(mb.groups, g)[Depth] = 0
    BY <1>3, <2>1, ImagesIn, AncestorBound DEF Below
  <2> QED BY <1>3, <2>2 DEF Below
<1>4. On(mb, Waited(mb)[Depth + 1], Depth)
  BY <1>1, DepthIs
<1>5. Waited(mb)[Depth + 1] \in Options \cup {Iso(f) : f \in DOMAIN mb.imgs}
  BY <1>3, <1>4 DEF On
<1>6. \A n \in 0..Depth : n \in Nat
  BY DepthIs
<1> QED BY <1>2, <1>5, <1>6

-----------------------------------------------------------------------------
(* What can be reached from the main menu. *)

LEMMA WithinIs ==
    ASSUME NEW mb
    PROVE  /\ Within(mb)[0] = {Start}
           /\ \A n \in Nat : Within(mb)[n + 1] = Onward(mb, Within(mb)[n])
<1> DEFINE V == SUBSET ({Start} \cup Labels(mb))
           G == [near \in V |-> Onward(mb, near)]
           to == CHOOSE f : f = [n \in Nat |-> IF n = 0 THEN {Start} ELSE Onward(mb, f[n - 1])]
           a == {Start}
<1>1. a \in V /\ G \in [V -> V]
  <2>1. \A near \in V : Onward(mb, near) \in V
    <3> SUFFICES ASSUME NEW near \in V PROVE Onward(mb, near) \in V
      OBVIOUS
    <3>1. Labels(mb) \cap (UNION {Targets(mb, l) : l \in near}) \subseteq Labels(mb)
      OBVIOUS
    <3> QED BY <3>1 DEF Onward
  <2> QED BY <2>1
<1>2. PICK f \in [Nat -> V] : \A n \in Nat : f[n] = IF n = 0 THEN a ELSE G[f[n - 1]]
  <2> HIDE DEF G, V, a
  <2> QED BY <1>1, Recursion
<1>3. f = [n \in Nat |-> IF n = 0 THEN {Start} ELSE Onward(mb, f[n - 1])]
  <2>1. \A n \in Nat : n # 0 => f[n - 1] \in V
    OBVIOUS
  <2>2. \A n \in Nat : n # 0 => G[f[n - 1]] = Onward(mb, f[n - 1])
    BY <2>1
  <2> HIDE DEF V, G
  <2> QED BY <1>2, <2>2
<1>4. to = [n \in Nat |-> IF n = 0 THEN {Start} ELSE Onward(mb, to[n - 1])]
  BY <1>3
<1>5. Within(mb) = to
  BY DEF Within
<1> HIDE DEF to
<1>6. to[0] = {Start} /\ \A n \in Nat : to[n + 1] = Onward(mb, to[n])
  <2>1. to = [n \in Nat |-> IF n = 0 THEN a ELSE Onward(mb, to[n - 1])]
    BY <1>4
  <2> HIDE DEF a
  <2>2. to[0] = a /\ \A n \in Nat : to[n + 1] = Onward(mb, to[n])
    BY <2>1
  <2> QED BY <2>2 DEF a
<1> QED BY <1>5, <1>6

LEMMA OnwardIs ==
    ASSUME NEW mb, NEW near, NEW l
    PROVE  /\ l \in near => l \in Onward(mb, near)
           /\ l \in Onward(mb, near) =>
                l \in near \/ (l \in Labels(mb) /\ \E k \in near : l \in Targets(mb, k))
           /\ l \in Labels(mb) /\ (\E k \in near : l \in Targets(mb, k)) => l \in Onward(mb, near)
<1> DEFINE far == UNION {Targets(mb, k) : k \in near}
<1>1. l \in far <=> \E k \in near : l \in Targets(mb, k)
  BY Zenon
<1>2. Onward(mb, near) = near \cup (Labels(mb) \cap far)
  BY DEF Onward
<1> HIDE DEF far
<1> QED BY <1>1, <1>2

LEMMA WithinGrows ==
    ASSUME NEW mb, NEW m \in Nat, NEW l \in Within(mb)[m]
    PROVE  \A n \in Nat : n >= m => l \in Within(mb)[n]
<1> DEFINE to == Within(mb)  S == {n \in Nat : n >= m => l \in to[n]}
<1>1. \A n \in Nat : l \in to[n] => l \in to[n + 1]
  BY WithinIs, OnwardIs
<1>2. l \in to[m]
  OBVIOUS
<1> HIDE DEF to
<1>3. 0 \in S
  BY <1>2
<1>4. ASSUME NEW n \in Nat, n \in S PROVE n + 1 \in S
  <2>1. CASE n + 1 = m
    BY <1>2, <2>1
  <2>2. CASE n >= m
    BY <1>1, <1>4, <2>2
  <2> QED BY <2>1, <2>2
<1> HIDE DEF S
<1>5. \A n \in Nat : n \in S
  BY <1>3, <1>4, AllNat
<1> QED BY <1>5 DEF S, to

\* The groups from g up to the top are there and enabled.
Hung(mb, g) ==
    /\ Ancestor(mb.groups, g)[Depth] = 0
    /\ \A n \in Nat : Ancestor(mb.groups, g)[n] # 0 => GroupEnabled(mb, Ancestor(mb.groups, g)[n])

LEMMA RootedIs ==
    ASSUME NEW mb \in MenuBuilder, NEW f \in DOMAIN mb.imgs
    PROVE  Rooted(mb, f) <=> mb.imgs[f] = 0 \/ Hung(mb, mb.imgs[f])
<1> DEFINE g == mb.imgs[f]  up == Ancestor(mb.groups, g)
<1>1. g \in GroupIds \cup {0} /\ mb.groups \in Tables
  BY ImagesIn
<1>2. up[Depth] = 0 => \A n \in Nat : n >= Depth => up[n] = 0
  BY <1>1, DepthIs, AncestorEnds
<1>3. up[Depth] = 0 => \A n \in Nat : up[n] # 0 => n \in 0..Depth
  BY <1>2, DepthIs
<1>4. \A n \in 0..Depth : n \in Nat
  BY DepthIs
<1>5. Line(mb.groups, g) = {up[n] : n \in 0..Depth} \ {0}
  BY DEF Line
<1>6. up[Depth] = 0 => ((\A h \in Line(mb.groups, g) : GroupEnabled(mb, h))
                        <=> \A n \in Nat : up[n] # 0 => GroupEnabled(mb, up[n]))
  <2> HIDE DEF up, g
  <2> QED BY <1>3, <1>4, <1>5
<1> HIDE DEF up
<1> QED BY <1>6 DEF Rooted, Hung, up

\* Down from the top, from a group to its subgroups, and back.
LEMMA HungRoot ==
    ASSUME NEW mb \in MenuBuilder, NEW g \in getRootGroups(mb)
    PROVE  Hung(mb, g)
<1> DEFINE up == Ancestor(mb.groups, g)
<1>1. g \in GroupIds /\ GroupEnabled(mb, g) /\ Below(mb, g, 0) /\ mb.groups \in Tables
  BY RootIsBelow, ImagesIn DEF getRootGroups
<1>2. up[0] = g /\ up[1] = 0
  BY <1>1, AncestorIs DEF Below
<1>3. \A n \in Nat : n >= 1 => up[n] = 0
  BY <1>1, <1>2, AncestorEnds
<1>4. up[Depth] = 0
  BY <1>1, <1>2, AncestorBound
<1>5. \A n \in Nat : up[n] # 0 => n = 0
  BY <1>3
<1> QED BY <1>1, <1>2, <1>4, <1>5 DEF Hung

LEMMA HungChild ==
    ASSUME NEW mb \in MenuBuilder, NEW g \in GroupIds, Hung(mb, g), NEW c \in getChildGroups(mb, g)
    PROVE  Hung(mb, c)
<1> DEFINE up == Ancestor(mb.groups, g)  low == Ancestor(mb.groups, c)
<1>1. c \in GroupIds /\ GroupEnabled(mb, c) /\ Above(mb.groups, c) = g /\ mb.groups \in Tables
  BY ChildrenAre, ParentIs, ImagesIn
<1>2. low[0] = c /\ \A n \in Nat : low[n + 1] = up[n]
  BY <1>1, AncestorIs, AncestorOfParent
<1>3. low[Depth] = 0
  <2>1. low[Depth + 1] = 0 /\ Depth + 1 \in Nat
    BY <1>2, DepthIs DEF Hung
  <2> QED BY <1>1, <2>1, AncestorBound
<1>4. ASSUME NEW n \in Nat, low[n] # 0 PROVE GroupEnabled(mb, low[n])
  <2>1. CASE n = 0
    BY <1>1, <1>2, <2>1
  <2>2. CASE n # 0
    <3>1. n - 1 \in Nat /\ (n - 1) + 1 = n
      BY <2>2
    <3>2. low[n] = up[n - 1]
      BY <1>2, <3>1
    <3> QED BY <1>4, <3>1, <3>2 DEF Hung
  <2> QED BY <2>1, <2>2
<1> QED BY <1>3, <1>4 DEF Hung

LEMMA HungParent ==
    ASSUME NEW mb \in MenuBuilder, NEW g \in GroupIds, GroupEnabled(mb, g), Hung(mb, g)
    PROVE  Hung(mb, mb.groups[g].parent)
<1> DEFINE p == mb.groups[g].parent  up == Ancestor(mb.groups, g)  over == Ancestor(mb.groups, p)
<1>1. p \in GroupIds \cup {0} /\ Above(mb.groups, g) = p /\ mb.groups \in Tables
  BY ParentIs, ImagesIn
<1>2. \A n \in Nat : up[n + 1] = over[n]
  BY <1>1, AncestorOfParent
<1>3. over[Depth] = 0
  <2>1. up[Depth + 1] = 0
    BY <1>1, DepthIs, AncestorEnds DEF Hung
  <2> QED BY <1>2, <2>1, DepthIs
<1>4. \A n \in Nat : over[n] # 0 => GroupEnabled(mb, over[n])
  BY <1>2 DEF Hung
<1> QED BY <1>3, <1>4 DEF Hung

\* What the labels within reach have in common.
Fair(mb, l) ==
    \/ l = Start
    \/ \E g \in GroupIds : l = Group(g) /\ GroupEnabled(mb, g) /\ Hung(mb, g)
    \/ \E f \in DOMAIN mb.imgs : l = Iso(f) /\ (mb.imgs[f] = 0 \/ Hung(mb, mb.imgs[f]))
    \/ l \in Options \cup {Word("tools"), Word("tool"), Word("back"), Word("failed")}

LEMMA FairTargets ==
    ASSUME NEW mb \in MenuBuilder, NEW k, Fair(mb, k), NEW l \in Targets(mb, k), l \in Labels(mb)
    PROVE  Fair(mb, l)
<1>1. CASE k = Start
  <2>1. l \in buildMainMenu(mb)
    BY <1>1, TargetsAre
  <2>2. \A g \in getRootGroups(mb) : g \in GroupIds /\ GroupEnabled(mb, g) /\ Hung(mb, g)
    BY HungRoot DEF getRootGroups
  <2> QED BY <2>1, <2>2 DEF buildMainMenu, getUngroupedImages, Fair
<1>2. ASSUME NEW g \in GroupIds, k = Group(g), GroupEnabled(mb, g), Hung(mb, g)
      PROVE  Fair(mb, l)
  <2>1. l \in GroupMenu(mb, g)
    BY <1>2, TargetsAre
  <2>2. \A c \in getChildGroups(mb, g) : c \in GroupIds /\ GroupEnabled(mb, c) /\ Hung(mb, c)
    BY <1>2, ChildrenAre, HungChild
  <2>3. ASSUME l = Back(mb, g) PROVE Fair(mb, l)
    <3> DEFINE p == mb.groups[g].parent
    <3>1. CASE p = 0
      BY <2>3, <3>1 DEF Back, Fair
    <3>2. CASE p # 0
      <4>1. l = Group(p) /\ p \in GroupIds /\ Hung(mb, p)
        BY <1>2, <2>3, <3>2, HungParent, ParentIs DEF Back
      <4>2. Ancestor(mb.groups, p)[0] = p
        BY <4>1, ImagesIn, AncestorIs
      <4>3. GroupEnabled(mb, p)
        BY <3>2, <4>1, <4>2 DEF Hung
      <4> HIDE DEF p
      <4> QED BY <4>1, <4>3 DEF Fair
    <3> QED BY <3>1, <3>2
  <2>4. ASSUME NEW c \in getChildGroups(mb, g), l = Group(c) PROVE Fair(mb, l)
    BY <2>2, <2>4 DEF Fair
  <2>5. ASSUME NEW f \in getGroupImages(mb, g), l = Iso(f) PROVE Fair(mb, l)
    BY <1>2, <2>5 DEF Fair, getGroupImages
  <2>6. CASE l \in Options
    BY <2>6 DEF Fair
  <2> QED BY <2>1, <2>3, <2>4, <2>5, <2>6 DEF GroupMenu
<1>3. ASSUME NEW f \in DOMAIN mb.imgs, k = Iso(f), mb.imgs[f] = 0 \/ Hung(mb, mb.imgs[f])
      PROVE  Fair(mb, l)
  <2> DEFINE g == mb.imgs[f]
  <2>1. l = Word("failed") \/ (g = 0 /\ l = Start) \/ (g # 0 /\ l = Group(g))
    BY <1>3, TargetsAre DEF buildImageBootSections
  <2>2. ASSUME g # 0, l = Group(g) PROVE Fair(mb, l)
    <3>1. g \in GroupIds /\ Hung(mb, g)
      BY <1>3, <2>2, ImagesIn
    <3>2. Ancestor(mb.groups, g)[0] = g
      BY <3>1, ImagesIn, AncestorIs
    <3>3. GroupEnabled(mb, g)
      BY <2>2, <3>1, <3>2 DEF Hung
    <3> HIDE DEF g
    <3> QED BY <2>2, <3>1, <3>3 DEF Fair
  <2> QED BY <2>1, <2>2 DEF Fair
<1>4. CASE k \in Options \cup {Word("tools"), Word("tool"), Word("back"), Word("failed")}
  BY <1>4, TargetsAre DEF Fair
<1> QED BY <1>1, <1>2, <1>3, <1>4 DEF Fair

LEMMA WithinFair ==
    ASSUME NEW mb \in MenuBuilder
    PROVE  \A n \in Nat : \A l \in Within(mb)[n] : Fair(mb, l)
<1> DEFINE to == Within(mb)  S == {n \in Nat : \A l \in to[n] : Fair(mb, l)}
<1>1. to[0] = {Start} /\ \A n \in Nat : to[n + 1] = Onward(mb, to[n])
  BY WithinIs
<1> HIDE DEF to
<1>2. 0 \in S
  BY <1>1 DEF Fair
<1>3. ASSUME NEW n \in Nat, n \in S PROVE n + 1 \in S
  <2> SUFFICES ASSUME NEW l \in Onward(mb, to[n]) PROVE Fair(mb, l)
    BY <1>1
  <2>1. l \in to[n] \/ (l \in Labels(mb) /\ \E k \in to[n] : l \in Targets(mb, k))
    BY OnwardIs
  <2> QED BY <1>3, <2>1, FairTargets
<1> HIDE DEF S
<1>4. \A n \in Nat : n \in S
  BY <1>2, <1>3, AllNat
<1> QED BY <1>4 DEF S, to

\* One step further.
LEMMA WithinStep ==
    ASSUME NEW mb, NEW n \in Nat, NEW k \in Within(mb)[n], NEW l \in Targets(mb, k),
           l \in Labels(mb)
    PROVE  l \in Within(mb)[n + 1]
BY WithinIs, OnwardIs

\* The groups above an enabled group with images are visible.
LEMMA VisibleUp ==
    ASSUME NEW mb \in MenuBuilder, buildGroupMenus(mb) = "served", NEW g \in GroupIds,
           getGroupImages(mb, g) # {}, Hung(mb, g)
    PROVE  \A n \in Nat : Ancestor(mb.groups, g)[n] # 0 => Visible(mb, Ancestor(mb.groups, g)[n])
<1> DEFINE up == Ancestor(mb.groups, g)  S == {n \in Nat : up[n] # 0 => Visible(mb, up[n])}
<1>0. mb.groups \in Tables /\ Above(mb.groups, 0) = 0
  BY ImagesIn, AboveIs
<1>1. /\ up \in [Nat -> GroupIds \cup {0}] /\ up[0] = g
      /\ \A n \in Nat : up[n + 1] = Above(mb.groups, up[n])
      /\ Above(mb.groups, 0) = 0
  BY <1>0, AncestorIs
<1>2. \A n \in Nat : up[n] # 0 => GroupEnabled(mb, up[n])
  BY DEF Hung
<1> HIDE DEF up
<1>3. 0 \in S
  BY <1>1, <1>2, VisibleOwn
<1>4. ASSUME NEW n \in Nat, n \in S PROVE n + 1 \in S
  <2> SUFFICES ASSUME up[n + 1] # 0 PROVE Visible(mb, up[n + 1])
    OBVIOUS
  <2> DEFINE c == up[n]  p == up[n + 1]
  <2>1. c \in GroupIds /\ p \in GroupIds /\ p = Above(mb.groups, c)
    BY <1>1
  <2>2. Visible(mb, c) /\ GroupEnabled(mb, c) /\ GroupEnabled(mb, p)
    BY <1>1, <1>2, <1>4
  <2> HIDE DEF c, p
  <2>3. mb.groups[c].parent = p
    BY <2>1, <2>2, ParentIs
  <2>4. Visible(mb, p)
    BY <2>1, <2>2, <2>3, ParentVisible
  <2> QED BY <2>4 DEF p
<1> HIDE DEF S
<1>5. \A n \in Nat : n \in S
  BY <1>3, <1>4, AllNat
<1> QED BY <1>5 DEF S, up

LEMMA GroupWithin ==
    ASSUME NEW mb \in MenuBuilder, buildGroupMenus(mb) = "served", NEW g \in GroupIds,
           getGroupImages(mb, g) # {}, Hung(mb, g)
    PROVE  \E k \in Nat : k =< Depth /\ Group(g) \in Within(mb)[k]
<1> DEFINE up == Ancestor(mb.groups, g)  T == {n \in Nat : up[n] = 0}
<1>1. /\ up \in [Nat -> GroupIds \cup {0}] /\ up[0] = g
      /\ \A n \in Nat : up[n + 1] = Above(mb.groups, up[n])
  BY ImagesIn, AncestorIs
<1>2. up[Depth] = 0 /\ Depth \in Nat /\ \A n \in Nat : up[n] # 0 => GroupEnabled(mb, up[n])
  BY DepthIs DEF Hung
<1>3. \A n \in Nat : up[n] # 0 => Visible(mb, up[n])
  BY VisibleUp
<1> HIDE DEF up
<1>4. PICK k \in T : \A n \in T : k =< n
  <2>1. T \subseteq Nat /\ Depth \in T
    BY <1>2
  <2> HIDE DEF T
  <2> QED BY <2>1, LeastNat
<1>5. k \in Nat /\ k =< Depth /\ k # 0 /\ up[k] = 0 /\ \A n \in Nat : n < k => up[n] # 0
  BY <1>1, <1>2, <1>4, MenuAssumption
<1> DEFINE At1(i) == up[k - 1 - i]
           S == {i \in Nat : i < k => Group(At1(i)) \in Within(mb)[i + 1]}
<1>6. ASSUME NEW n \in Nat, n < k
      PROVE  /\ up[n] \in GroupIds /\ GroupEnabled(mb, up[n]) /\ Visible(mb, up[n])
             /\ mb.groups[up[n]].parent = up[n + 1] /\ Group(up[n]) \in Labels(mb)
  <2>1. up[n] \in GroupIds /\ GroupEnabled(mb, up[n]) /\ Visible(mb, up[n])
    BY <1>1, <1>2, <1>3, <1>5, <1>6
  <2>2. mb.groups[up[n]].parent = up[n + 1]
    BY <1>1, <2>1, ParentIs
  <2>3. Group(up[n]) \in Labels(mb)
    BY <2>1 DEF Labels
  <2> QED BY <2>1, <2>2, <2>3
<1>7. 0 \in S
  <2> DEFINE r == up[k - 1]
  <2>1. k - 1 \in Nat /\ k - 1 < k /\ (k - 1) + 1 = k /\ k - 1 - 0 = k - 1
    BY <1>5
  <2>2. r \in GroupIds /\ GroupEnabled(mb, r) /\ Visible(mb, r) /\ mb.groups[r].parent = 0
        /\ Group(r) \in Labels(mb)
    BY <1>5, <1>6, <2>1
  <2>3. At1(0) = r
    BY <2>1
  <2> HIDE DEF r, At1
  <2>4. Group(r) \in Targets(mb, Start)
    BY <2>2, TargetsAre DEF buildMainMenu, getRootGroups
  <2>5. Start \in Within(mb)[0]
    BY WithinIs
  <2>6. Group(r) \in Within(mb)[0 + 1]
    BY <2>2, <2>4, <2>5, WithinStep
  <2> QED BY <2>3, <2>6
<1>8. ASSUME NEW i \in Nat, i \in S PROVE i + 1 \in S
  <2> SUFFICES ASSUME i + 1 < k PROVE Group(At1(i + 1)) \in Within(mb)[(i + 1) + 1]
    OBVIOUS
  <2> DEFINE m == k - 1 - (i + 1)  c == up[m]  h == up[m + 1]
  <2>1. m \in Nat /\ m < k /\ m + 1 = k - 1 - i /\ m + 1 < k /\ i < k /\ i + 1 \in Nat
    BY <1>5
  <2>2. At1(i + 1) = c /\ At1(i) = h
    BY <2>1
  <2>3. Group(h) \in Within(mb)[i + 1]
    BY <1>8, <2>1, <2>2
  <2>4. c \in GroupIds /\ GroupEnabled(mb, c) /\ Visible(mb, c) /\ mb.groups[c].parent = h
        /\ Group(c) \in Labels(mb)
    BY <1>6, <2>1
  <2> HIDE DEF At1, m, c, h
  <2>5. Group(c) \in Targets(mb, Group(h))
    BY <2>4, TargetsAre DEF GroupMenu, getChildGroups
  <2>6. Group(c) \in Within(mb)[(i + 1) + 1]
    BY <2>1, <2>3, <2>4, <2>5, WithinStep
  <2> QED BY <2>2, <2>6
<1>9. \A i \in Nat : i \in S
  <2> HIDE DEF S
  <2> QED BY <1>7, <1>8, AllNat
<1>10. k - 1 \in Nat /\ k - 1 < k /\ (k - 1) + 1 = k /\ k - 1 - (k - 1) = 0
  BY <1>5
<1>11. At1(k - 1) = g
  BY <1>1, <1>10
<1>12. Group(At1(k - 1)) \in Within(mb)[(k - 1) + 1]
  <2> HIDE DEF At1
  <2> QED BY <1>9, <1>10
<1>13. Group(g) \in Within(mb)[k]
  <2> HIDE DEF At1
  <2> QED BY <1>10, <1>11, <1>12
<1> QED BY <1>5, <1>13

LEMMA ReachIs ==
    ASSUME NEW mb \in MenuBuilder, buildGroupMenus(mb) = "served", NEW f \in DOMAIN mb.imgs
    PROVE  Iso(f) \in Reach(mb) <=> Rooted(mb, f)
<1> DEFINE g == mb.imgs[f]
<1>1. Depth + 3 \in Nat /\ Iso(f) \in Labels(mb)
  BY DepthIs DEF Labels
<1>2. ASSUME Iso(f) \in Reach(mb) PROVE Rooted(mb, f)
  <2>1. Fair(mb, Iso(f))
    BY <1>1, <1>2, WithinFair DEF Reach
  <2>2. g = 0 \/ Hung(mb, g)
    BY <2>1 DEF Fair, Iso, Group, Start, Word, Options
  <2> QED BY <2>2, RootedIs
<1>3. ASSUME g = 0 PROVE Iso(f) \in Reach(mb)
  <2>1. Iso(f) \in Targets(mb, Start)
    BY <1>3, TargetsAre DEF buildMainMenu, getUngroupedImages
  <2>2. Start \in Within(mb)[0]
    BY WithinIs
  <2>3. Iso(f) \in Within(mb)[0 + 1]
    BY <1>1, <2>1, <2>2, WithinStep
  <2>4. 0 + 1 \in Nat /\ Depth + 3 >= 0 + 1
    BY DepthIs
  <2> QED BY <1>1, <2>3, <2>4, WithinGrows DEF Reach
<1>4. ASSUME g # 0, Hung(mb, g) PROVE Iso(f) \in Reach(mb)
  <2>1. g \in GroupIds /\ f \in getGroupImages(mb, g)
    BY <1>4, ImagesIn DEF getGroupImages
  <2>2. PICK k \in Nat : k =< Depth /\ Group(g) \in Within(mb)[k]
    BY <1>4, <2>1, GroupWithin
  <2>3. Iso(f) \in Targets(mb, Group(g))
    BY <2>1, TargetsAre DEF GroupMenu
  <2>4. Iso(f) \in Within(mb)[k + 1]
    BY <1>1, <2>2, <2>3, WithinStep
  <2>5. k + 1 \in Nat /\ Depth + 3 >= k + 1
    BY <2>2, DepthIs
  <2> QED BY <1>1, <2>4, <2>5, WithinGrows DEF Reach
<1> QED BY <1>2, <1>3, <1>4, RootedIs

-----------------------------------------------------------------------------
(* The scripts that are served. *)

\* Served scripts come from Build.
LEMMA MainMenuIs ==
    ASSUME Inv, NEW mb \in MainMenus
    PROVE  mb \in MenuBuilder /\ buildGroupMenus(mb) = "served" /\ ~hasEnabledImage(mb)
<1>1. /\ answer # None /\ answer.outcome = "served" /\ mb = answer.mb /\ ~hasEnabledImage(mb)
  BY DEF MainMenus, Served
<1>2. /\ answer \in [outcome: {"served", "panic", "overflow"}, mb: MenuBuilder]
      /\ answer.outcome = buildGroupMenus(answer.mb)
  BY <1>1 DEF Inv, Types, AnswerOK, Built
<1> QED BY <1>1, <1>2

\* No item of a main menu script and no goto is dangling, unless it leads to
\* a group that is disabled or gone: what buildGroupMenus leaves out, the
\* menus above it leave out too, whatever the tree of groups.
THEOREM MenusResolve == Spec => []TargetsResolve
<1>1. Inv => TargetsResolve
  BY MainMenuIs, Resolves DEF TargetsResolve
<1> QED BY <1>1, InvAlways, PTL

\* The menus lead to exactly the images of the machine that have no group or
\* enabled groups up to the top (buildMainMenu, buildGroupMenus,
\* groupHasImages), for trees of groups of any depth and width.
THEOREM MenusReachExactly == Spec => []ReachExact
<1>1. Inv => ReachExact
  BY MainMenuIs, ReachIs DEF ReachExact
<1> QED BY <1>1, InvAlways, PTL

\* The timeouts of the menus lead a machine nobody sits at to something that
\* boots, at most one menu per group later (resolveDefaultItem, the order of
\* the items of a group's menu), if the theme has a timeout at all and no next
\* boot image that is missing from the menu leaves the choice to the tools.
THEOREM TimeoutsBoot == Spec => []UnattendedBoots
<1>1. Inv => UnattendedBoots
  BY MainMenuIs, GetsPast DEF UnattendedBoots, Timely
<1> QED BY <1>1, InvAlways, PTL

\* Build overflows only on groups that form a cycle, and panics only at a group
\* above one of the machine's images, whose parent was gone when the parents
\* were read (groupHasImages, buildGroupMenus).
THEOREM BuildFailsOnlyOnBrokenGroups == Spec => []FailsOnlyOnBrokenGroups
<1>1. ASSUME NEW mb \in MenuBuilder, buildGroupMenus(mb) # "served"
      PROVE  /\ buildGroupMenus(mb) = "overflow" => ~Acyclic(mb.groups)
             /\ buildGroupMenus(mb) = "panic" =>
                   \E f \in DOMAIN mb.imgs : \E g \in Line(mb.groups, mb.imgs[f]) :
                       /\ mb.groups[g] # None /\ mb.groups[g].parent # 0
                       /\ mb.groups[g].parent \notin mb.parents
  <2>1. PICK g \in GroupIds : Trouble(mb, g) = buildGroupMenus(mb)
    BY <1>1, BuildIs
  <2>2. ASSUME Trouble(mb, g) = "overflow" PROVE ~Acyclic(mb.groups)
    <3>1. \/ groupHasImages(mb, g) = "loop"
          \/ \E c \in getChildGroups(mb, g) : groupHasImages(mb, c) = "loop"
      BY <2>2 DEF Trouble
    <3> QED BY <3>1, LoopIsCycle, ChildrenAre
  <2>3. ASSUME Trouble(mb, g) = "panic"
        PROVE  \E f \in DOMAIN mb.imgs : \E h \in Line(mb.groups, mb.imgs[f]) :
                   /\ mb.groups[h] # None /\ mb.groups[h].parent # 0
                   /\ mb.groups[h].parent \notin mb.parents
    <3>1. /\ mb.groups[g] # None /\ groupHasImages(mb, g) \notin {"loop", "no"}
          /\ mb.groups[g].parent # 0 /\ mb.groups[g].parent \notin mb.parents
      BY <2>3 DEF Trouble, GroupEnabled
    <3>2. FoundBelow(mb)[Depth][g] = "yes"
      BY <3>1, DepthIs, FoundAt DEF Finds, groupHasImages
    <3>3. PICK f \in DOMAIN mb.imgs, k \in 0..Depth : Ancestor(mb.groups, mb.imgs[f])[k] = g
      BY <3>2, DepthIs, FoundHasLine
    <3>4. g \in Line(mb.groups, mb.imgs[f])
      BY <3>3, MenuAssumption DEF Line
    <3> QED BY <3>1, <3>4
  <2> QED BY <2>1, <2>2, <2>3
<1>2. Inv => FailsOnlyOnBrokenGroups
  <2> SUFFICES ASSUME Inv, answer # None PROVE FailsOnlyOnBrokenGroups
    BY DEF FailsOnlyOnBrokenGroups
  <2>1. answer.mb \in MenuBuilder /\ answer.outcome = buildGroupMenus(answer.mb)
    BY DEF Inv, Types, AnswerOK, Built
  <2> QED BY <1>1, <2>1 DEF FailsOnlyOnBrokenGroups
<1> QED BY <1>2, InvAlways, PTL
=============================================================================
