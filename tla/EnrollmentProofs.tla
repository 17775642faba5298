-------------------------- MODULE EnrollmentProofs --------------------------
(***************************************************************************)
(* Theorems about Enrollment, for every set of clients, clusters, tokens   *)
(* and concurrent requests, with and without foreign keys.                 *)
(*                                                                         *)
(* Records are typed once, in lemmas without state; then the statements;   *)
(* then one step per action.                                               *)
(***************************************************************************)
EXTENDS Enrollment, TLAPS

-----------------------------------------------------------------------------
(* Rows and requests that the actions build are well typed.                *)

\* The constant records.
LEMMA ConstantsTyped ==
    /\ NoClient \in ClientRow
    /\ Idle \in Request
    /\ NoIssue \in Issue
BY ConstantsAssumption
   DEF NoClient, Idle, NoIssue, ClientRow, Request, Issue, Steps, States

\* A row detached from its cluster.
LEMMA DetachedTyped == \A row \in ClientRow : Detached(row) \in ClientRow
BY DEF Detached, ClientRow, States

\* A row after setClientEnrollmentState.
LEMMA WithStateTyped ==
    \A row \in ClientRow, s \in States : WithState(row, s) \in ClientRow
<1> SUFFICES ASSUME NEW row \in ClientRow, NEW s \in States
             PROVE  WithState(row, s) \in ClientRow
  OBVIOUS
<1>1. [row EXCEPT !.state = s, !.token = None, !.expires = 0] \in ClientRow
  BY DEF ClientRow
<1>2. [row EXCEPT !.state = s] \in ClientRow
  BY DEF ClientRow
<1> QED BY <1>1, <1>2 DEF WithState

\* A row after assignNodeToCluster.
LEMMA AssignedTyped ==
    ASSUME NEW row \in ClientRow, NEW c \in ClusterIds \cup {None},
           NEW role \in Roles \cup {""}, NEW t \in Tokens, NEW e \in Nat
    PROVE  [row EXCEPT !.state = "approved", !.cluster = c, !.role = role,
                       !.token = t, !.expires = e] \in ClientRow
BY DEF ClientRow, States

\* A row with another next-boot image.
LEMMA NextTyped ==
    \A row \in ClientRow, b \in BootImages \cup {None} :
        [row EXCEPT !.next = b] \in ClientRow
BY DEF ClientRow

\* What is remembered of a token.
LEMMA IssueTyped ==
    ASSUME NEW m \in Clients \cup {None}, NEW c \in ClusterIds \cup {None},
           NEW role \in Roles \cup {""}, NEW e \in Nat
    PROVE  [mac |-> m, cluster |-> c, role |-> role, expires |-> e] \in Issue
BY DEF Issue

\* The form of the handlers that create a client themselves.
LEMMA BlankFormTyped == BlankForm \in Form
BY DEF BlankForm, Form, States

\* Rows of the two other tables.
LEMMA ClusterRowTyped ==
    ASSUME NEW s \in RowStates, NEW i \in NodeImageIds \cup {None}
    PROVE  [row |-> s, image |-> i, configs |-> {}] \in ClusterRow
BY DEF ClusterRow

\* A row of the node_images table.
LEMMA NodeImageRowTyped ==
    ASSUME NEW s \in RowStates, NEW d \in BOOLEAN
    PROVE  [row |-> s, downloaded |-> d] \in NodeImageRow
BY Zenon DEF NodeImageRow

\* A request that has read the row of its client.
LEMMA ReaderTyped ==
    ASSUME NEW s \in Steps, NEW m \in Clients \cup {None}, NEW row \in ClientRow
    PROVE  [Idle EXCEPT !.pc = s, !.mac = m, !.row = row] \in Request
BY ConstantsTyped DEF Request

\* A request that moves on, with what it has just read.
LEMMA ProgressTyped ==
    ASSUME NEW q \in Request, NEW s \in Steps,
           NEW i \in NodeImageIds \cup {None}, NEW docs \in SUBSET Roles
    PROVE  /\ [q EXCEPT !.pc = s] \in Request
           /\ [q EXCEPT !.pc = s, !.image = i] \in Request
           /\ [q EXCEPT !.pc = s, !.image = i, !.configs = docs] \in Request
BY DEF Request

\* The fields of a request in flight.
LEMMA RequestTyped ==
    ASSUME TypeOK, NEW r \in Requests
    PROVE  /\ req[r] \in Request
           /\ req[r].pc \in Steps
           /\ req[r].mac \in Clients \cup {None}
           /\ req[r].cluster \in ClusterIds \cup {None}
           /\ req[r].image \in NodeImageIds \cup {None}
           /\ req[r].role \in Roles \cup {""}
           /\ req[r].token \in Tokens \cup {None}
           /\ req[r].uuid \in Uuids \cup {None}
           /\ req[r].configs \in SUBSET Roles
           /\ req[r].row \in ClientRow
           /\ req[r].row.cluster \in ClusterIds \cup {None}
           /\ req[r].row.role \in Roles \cup {""}
BY DEF TypeOK, Request, ClientRow

\* The rest of the menu handler.
LEMMA MenuTailTyped ==
    ASSUME TypeOK, NEW r \in Requests
    PROVE  MenuTail(r, req[r].row) \in Request
BY ConstantsTyped, ReaderTyped, RequestTyped DEF MenuTail, Steps

\* What a request reads of a cluster that exists.
LEMMA ClusterTyped ==
    ASSUME TypeOK, NEW c \in ClusterIds \cup {None}, ClusterExists(c)
    PROVE  /\ c \in ClusterIds
           /\ cluster[c].image \in NodeImageIds \cup {None}
           /\ cluster[c].configs \in SUBSET Roles
BY DEF TypeOK, ClusterRow, ClusterExists

\* A request moves to its next step, or ends.
LEMMA GotoTyped ==
    ASSUME TypeOK, NEW r \in Requests, NEW s \in Steps, Goto(r, s)
    PROVE  req' \in [Requests -> Request]
<1>1. [req[r] EXCEPT !.pc = s] \in Request
  BY ProgressTyped, RequestTyped
<1> QED BY <1>1 DEF Goto, TypeOK

\* A request that ends leaves its slot idle.
LEMMA FinishTyped ==
    ASSUME TypeOK, NEW r \in Requests, Finish(r)
    PROVE  req' \in [Requests -> Request]
BY ConstantsTyped DEF Finish, TypeOK

\* A step that only replaces what one request remembers.
LEMMA SlotTyped ==
    ASSUME TypeOK, NEW r \in Requests, NEW q \in Request,
           req' = [req EXCEPT ![r] = q],
           UNCHANGED <<client, cluster, nodeImage, inventory, rowIds, issued, now>>
    PROVE  TypeOK'
<1>1. req' \in [Requests -> Request]
  BY DEF TypeOK
<1> QED BY <1>1 DEF TypeOK

\* A token's expiry.
LEMMA ExpiryTyped == TypeOK => now + TTL \in Nat
<1>1. TTL \in Nat
  BY ConstantsAssumption, Zenon
<1>2. TypeOK => now \in Nat
  BY Zenon DEF TypeOK
<1> QED BY <1>1, <1>2

-----------------------------------------------------------------------------
(* Statements preserve the types of the tables they write.                 *)

\* The UPDATE of assignNodeToCluster keeps the tables well typed.
LEMMA AssignStatementTyped ==
    ASSUME TypeOK, NEW m \in Clients \cup {None},
           NEW c \in ClusterIds \cup {None}, NEW role \in Roles \cup {""},
           AssignNodeToCluster(m, c, role)
    PROVE  /\ client' \in [Clients -> ClientRow]
           /\ issued' \in [Tokens -> Issue]
<1>1. PICK t \in Tokens :
        /\ client' = [client EXCEPT ![m] =
               [@ EXCEPT !.state = "approved", !.cluster = c, !.role = role,
                         !.token = t, !.expires = now + TTL]]
        /\ issued' = [issued EXCEPT ![t] =
               [mac |-> m, cluster |-> c, role |-> role, expires |-> now + TTL]]
  BY DEF AssignNodeToCluster
<1>2. now + TTL \in Nat
  BY ExpiryTyped
<1>3. client' \in [Clients -> ClientRow]
  <2>1. \A row \in ClientRow :
           [row EXCEPT !.state = "approved", !.cluster = c, !.role = role,
                       !.token = t, !.expires = now + TTL] \in ClientRow
    BY <1>2, AssignedTyped
  <2> QED BY <1>1, <2>1 DEF TypeOK
<1>4. issued' \in [Tokens -> Issue]
  BY <1>1, <1>2, IssueTyped DEF TypeOK
<1> QED BY <1>3, <1>4

\* So does the INSERT of a client,
LEMMA CreateStatementTyped ==
    ASSUME TypeOK, NEW m \in Clients \cup {None},
           NEW form \in Form,
           CreateClientRow(m, form)
    PROVE  /\ client' \in [Clients -> ClientRow]
           /\ rowIds' \in SUBSET RowIds
<1>1. PICK id \in RowIds \ rowIds :
        /\ rowIds' = rowIds \cup {id}
        /\ client' = [client EXCEPT ![m] = CreatedRow(id, form)]
  BY DEF CreateClientRow
<1>2. CreatedRow(id, form) \in ClientRow
  BY ConstantsTyped DEF CreatedRow, Form, ClientRow
<1> QED BY <1>1, <1>2 DEF TypeOK

\* and the UPDATE of setClientEnrollmentState.
LEMMA StateStatementTyped ==
    ASSUME TypeOK, NEW m \in Clients \cup {None}, NEW s \in States,
           SetClientEnrollmentState(m, s)
    PROVE  client' \in [Clients -> ClientRow]
BY WithStateTyped DEF SetClientEnrollmentState, TypeOK

-----------------------------------------------------------------------------
(* Type correctness.                                                       *)

\* The empty tables are well typed.
LEMMA TypeInit == Init => TypeOK
<1> SUFFICES ASSUME Init PROVE TypeOK
  OBVIOUS
<1>1. cluster \in [ClusterIds -> ClusterRow]
  BY ClusterRowTyped DEF Init, RowStates
<1>2. nodeImage \in [NodeImageIds -> NodeImageRow]
  <2>1. [row |-> "unused", downloaded |-> FALSE] \in NodeImageRow
    BY NodeImageRowTyped DEF RowStates
  <2> QED BY <2>1 DEF Init
<1> QED BY <1>1, <1>2, ConstantsTyped DEF Init, TypeOK

\* The steps of Next keep every table and every request well typed.
LEMMA TypeNext == TypeOK /\ [Next]_vars => TypeOK'
<1> SUFFICES ASSUME TypeOK, [Next]_vars PROVE TypeOK'
  OBVIOUS
<1> USE ConstantsTyped
<1>1. ASSUME NEW r \in Requests, NEW m \in Clients, CreateClient(r, m)
      PROVE  TypeOK'
  BY <1>1, CreateStatementTyped, ConstantsAssumption
     DEF CreateClient, TypeOK
<1>2. ASSUME NEW r \in Requests, NEW m \in Clients, DeleteClient(r, m)
      PROVE  TypeOK'
  <2>1. [Idle EXCEPT !.pc = "client_delete", !.mac = m, !.row = client[m]] \in Request
    BY ReaderTyped DEF Steps, TypeOK
  <2> QED BY <1>2, <2>1, SlotTyped DEF DeleteClient
<1>3. ASSUME NEW r \in Requests, NEW m \in Clients, NEW b \in BootImages \cup {None}, SetNextBootImage(r, m, b)
      PROVE  TypeOK'
  BY <1>3, NextTyped
     DEF SetNextBootImage, TypeOK
<1>4. ASSUME NEW r \in Requests, NEW m \in Clients, NEW c \in ClusterIds, NEW role \in Roles, AssignNode(r, m, c, role)
      PROVE  TypeOK'
  <2>1. [Idle EXCEPT !.pc = "assign_lookup", !.mac = m,
                     !.cluster = c, !.role = role] \in Request
    BY DEF Request, Steps
  <2> QED BY <1>4, <2>1, SlotTyped DEF AssignNode
<1>5. ASSUME NEW r \in Requests, NEW m \in Clients, ReinstallNode(r, m)
      PROVE  TypeOK'
  <2>1. [Idle EXCEPT !.pc = "reinstall_write", !.mac = m, !.row = client[m]] \in Request
    BY ReaderTyped DEF Steps, TypeOK
  <2> QED BY <1>5, <2>1, SlotTyped DEF ReinstallNode, EnrollmentStateAction
<1>6. ASSUME NEW r \in Requests, NEW m \in Clients, UnassignNode(r, m)
      PROVE  TypeOK'
  <2>1. [Idle EXCEPT !.pc = "unassign_write", !.mac = m, !.row = client[m]] \in Request
    BY ReaderTyped DEF Steps, TypeOK
  <2> QED BY <1>6, <2>1, SlotTyped DEF UnassignNode, EnrollmentStateAction
<1>7. ASSUME NEW r \in Requests, NEW m \in Clients, MarkNodeInstalled(r, m)
      PROVE  TypeOK'
  <2>1. [Idle EXCEPT !.pc = "mark_write", !.mac = m, !.row = client[m]] \in Request
    BY ReaderTyped DEF Steps, TypeOK
  <2> QED BY <1>7, <2>1, SlotTyped DEF MarkNodeInstalled, EnrollmentStateAction
<1>8. ASSUME NEW r \in Requests, NEW i \in NodeImageIds \cup {None}, CreateCluster(r, i)
      PROVE  TypeOK'
  <2>1. [Idle EXCEPT !.pc = "cluster_create", !.image = i] \in Request
    BY ConstantsTyped DEF Request, Steps
  <2> QED BY <1>8, <2>1 DEF CreateCluster, TypeOK
<1>9. ASSUME NEW r \in Requests, NEW c \in ClusterIds, NEW i \in NodeImageIds \cup {None}, UpdateCluster(r, c, i)
      PROVE  TypeOK'
  <2>1. [Idle EXCEPT !.pc = "cluster_update", !.cluster = c,
                     !.image = i] \in Request
    BY ConstantsTyped DEF Request, Steps
  <2> QED BY <1>9, <2>1 DEF UpdateCluster, TypeOK
<1>10. ASSUME NEW r \in Requests, NEW c \in ClusterIds, NEW roles \in SUBSET Roles, ClusterConfig(r, c, roles)
      PROVE  TypeOK'
  <2>1. [Idle EXCEPT !.pc = "config_image", !.cluster = c,
                     !.image = cluster[c].image, !.configs = roles] \in Request
    BY ConstantsTyped, ClusterTyped, <1>10 DEF Request, Steps, ClusterConfig
  <2> QED BY <1>10, <2>1 DEF ClusterConfig, TypeOK
<1>11. ASSUME NEW r \in Requests, NEW c \in ClusterIds, DeleteCluster(r, c)
      PROVE  TypeOK'
  <2>1. [Idle EXCEPT !.pc = "cluster_detach", !.cluster = c] \in Request
    BY DEF Request, Steps
  <2> QED BY <1>11, <2>1, SlotTyped DEF DeleteCluster
<1>12. ASSUME NEW r \in Requests, CreateNodeImage(r)
      PROVE  TypeOK'
  BY <1>12
     DEF CreateNodeImage, TypeOK, NodeImageRow, RowStates
<1>13. ASSUME NEW r \in Requests, NEW i \in NodeImageIds, DownloadNodeImage(r, i)
      PROVE  TypeOK'
  <2>1. [Idle EXCEPT !.pc = "image_download", !.image = i] \in Request
    BY ConstantsTyped DEF Request, Steps
  <2> QED BY <1>13, <2>1 DEF DownloadNodeImage, TypeOK
<1>14. ASSUME NEW r \in Requests, NEW i \in NodeImageIds, DeleteNodeImage(r, i)
      PROVE  TypeOK'
  <2>1. [Idle EXCEPT !.pc = "image_count", !.image = i] \in Request
    BY ConstantsTyped DEF Request, Steps
  <2> QED BY <1>14, <2>1 DEF DeleteNodeImage, TypeOK
<1>15. ASSUME NEW r \in Requests, NEW m \in Clients, NEW u \in Uuids \cup {None},
             InventoryReport(r, m, u)
      PROVE  TypeOK'
  <2>1. \A s \in Steps :
           [Idle EXCEPT !.pc = s, !.mac = m, !.uuid = u] \in Request
    BY ConstantsTyped DEF Request
  <2> QED BY <1>15, <2>1 DEF InventoryReport, TypeOK, Steps
<1>16. ASSUME NEW r \in Requests, NEW m \in Clients, IPXEMenu(r, m)
      PROVE  TypeOK'
  <2>1. \A s \in Steps :
            [Idle EXCEPT !.pc = s, !.mac = m, !.row = client[m]] \in Request
    BY ReaderTyped DEF TypeOK
  <2>2. PICK q : /\ req' = [req EXCEPT ![r] = q]
                 /\ \/ q = Idle
                    \/ \E s \in {"menu_cluster", "menu_installed", "menu_next"} :
                          q = [Idle EXCEPT !.pc = s, !.mac = m, !.row = client[m]]
    BY <1>16 DEF IPXEMenu
  <2>3. q \in Request
    BY <2>1, <2>2 DEF Steps
  <2> QED BY <1>16, <2>2, <2>3, SlotTyped DEF IPXEMenu
<1>17. ASSUME NEW r \in Requests, NEW m \in Clients, NEW t \in Tokens, NEW u \in Uuids \cup {None}, MachineConfig(r, m, t, u)
      PROVE  TypeOK'
  <2>1. [Idle EXCEPT !.pc = "mc_inventory", !.mac = m,
                     !.token = t, !.uuid = u, !.row = client[m]] \in Request
    <3>1. client[m] \in ClientRow /\ "mc_inventory" \in Steps
      BY DEF TypeOK, Steps
    <3> QED BY <3>1 DEF Request
  <2> QED BY <1>17, <2>1, SlotTyped DEF MachineConfig
<1>18. ASSUME NEW r \in Requests, DeleteClientRow(r)
      PROVE  TypeOK'
  BY <1>18
     DEF DeleteClientRow, TypeOK, Finish
<1>19. ASSUME NEW r \in Requests, AssignLookup(r)
      PROVE  TypeOK'
  <2>1. req' \in [Requests -> Request]
    BY <1>19, GotoTyped, FinishTyped DEF AssignLookup, Steps
  <2> QED BY <1>19, <2>1 DEF AssignLookup, TypeOK
<1>20. ASSUME NEW r \in Requests, AssignCreate(r)
      PROVE  TypeOK'
  <2>1. req' \in [Requests -> Request]
    BY <1>20, GotoTyped, FinishTyped DEF AssignCreate, Steps
  <2>2. client' \in [Clients -> ClientRow] /\ rowIds' \in SUBSET RowIds
    BY <1>20, CreateStatementTyped, BlankFormTyped, RequestTyped DEF AssignCreate, TypeOK
  <2> QED BY <1>20, <2>1, <2>2 DEF AssignCreate, TypeOK
<1>21. ASSUME NEW r \in Requests, AssignWrite(r)
      PROVE  TypeOK'
  <2>1. /\ client' \in [Clients -> ClientRow]
        /\ issued' \in [Tokens -> Issue]
    BY <1>21, AssignStatementTyped, RequestTyped DEF AssignWrite
  <2> QED BY <1>21, <2>1, FinishTyped DEF AssignWrite, TypeOK
<1>22. ASSUME NEW r \in Requests, ReinstallWrite(r)
      PROVE  TypeOK'
  <2>1. /\ client' \in [Clients -> ClientRow]
        /\ issued' \in [Tokens -> Issue]
    BY <1>22, AssignStatementTyped, RequestTyped DEF ReinstallWrite
  <2> QED BY <1>22, <2>1, FinishTyped DEF ReinstallWrite, TypeOK
<1>23. ASSUME NEW r \in Requests, UnassignWrite(r)
      PROVE  TypeOK'
  BY <1>23, DetachedTyped
     DEF UnassignWrite, TypeOK, Finish
<1>24. ASSUME NEW r \in Requests, MarkWrite(r)
      PROVE  TypeOK'
  BY <1>24, StateStatementTyped, RequestTyped
     DEF MarkWrite, TypeOK, Finish, States
<1>25. ASSUME NEW r \in Requests, CreateClusterRow(r)
      PROVE  TypeOK'
  <2>1. [row |-> "live", image |-> req[r].image, configs |-> {}] \in ClusterRow
    BY ClusterRowTyped, RequestTyped DEF RowStates
  <2>2. cluster' \in [ClusterIds -> ClusterRow]
    BY <1>25, <2>1 DEF CreateClusterRow, TypeOK
  <2> QED BY <1>25, <2>2, FinishTyped DEF CreateClusterRow, TypeOK
<1>26. ASSUME NEW r \in Requests, UpdateClusterRow(r)
      PROVE  TypeOK'
  <2>1. \A row \in ClusterRow : [row EXCEPT !.image = req[r].image] \in ClusterRow
    BY RequestTyped DEF ClusterRow
  <2>2. cluster' \in [ClusterIds -> ClusterRow]
    BY <1>26, <2>1 DEF UpdateClusterRow, TypeOK
  <2> QED BY <1>26, <2>2, FinishTyped DEF UpdateClusterRow, TypeOK
<1>27. ASSUME NEW r \in Requests, ClusterConfigImage(r)
      PROVE  TypeOK'
  <2>1. req' \in [Requests -> Request]
    BY <1>27, GotoTyped, FinishTyped DEF ClusterConfigImage, Steps
  <2> QED BY <1>27, <2>1 DEF ClusterConfigImage, TypeOK
<1>28. ASSUME NEW r \in Requests, SetClusterConfigs(r)
      PROVE  TypeOK'
  <2>1. \A row \in ClusterRow :
            [row EXCEPT !.configs = row.configs \cup req[r].configs] \in ClusterRow
    BY RequestTyped DEF ClusterRow
  <2>2. cluster' \in [ClusterIds -> ClusterRow]
    BY <1>28, <2>1 DEF SetClusterConfigs, TypeOK
  <2> QED BY <1>28, <2>2, FinishTyped DEF SetClusterConfigs, TypeOK
<1>29. ASSUME NEW r \in Requests, DetachNodes(r)
      PROVE  TypeOK'
  BY <1>29, ProgressTyped, RequestTyped, DetachedTyped
     DEF DetachNodes, TypeOK, Goto, Steps
<1>30. ASSUME NEW r \in Requests, DeleteClusterRow(r)
      PROVE  TypeOK'
  BY <1>30, ClusterRowTyped
     DEF DeleteClusterRow, TypeOK, Finish, RowStates
<1>31. ASSUME NEW r \in Requests, SetNodeImageDownloaded(r)
      PROVE  TypeOK'
  BY <1>31
     DEF SetNodeImageDownloaded, TypeOK, Finish, NodeImageRow, NodeImageExists
<1>32. ASSUME NEW r \in Requests, CountClusters(r)
      PROVE  TypeOK'
  <2>1. req' \in [Requests -> Request]
    BY <1>32, GotoTyped, FinishTyped DEF CountClusters, Steps
  <2> QED BY <1>32, <2>1 DEF CountClusters, TypeOK
<1>33. ASSUME NEW r \in Requests, DeleteNodeImageRow(r)
      PROVE  TypeOK'
  BY <1>33, NodeImageRowTyped
     DEF DeleteNodeImageRow, TypeOK, Finish, RowStates
<1>34. ASSUME NEW r \in Requests, InventoryCreateClient(r)
      PROVE  TypeOK'
  BY <1>34, ProgressTyped, RequestTyped, CreateStatementTyped, BlankFormTyped
     DEF InventoryCreateClient, TypeOK, Goto, Steps
<1>35. ASSUME NEW r \in Requests, InsertInventory(r)
      PROVE  TypeOK'
  BY <1>35, RequestTyped
     DEF InsertInventory, TypeOK, Finish
<1>36. ASSUME NEW r \in Requests, MenuCluster(r)
      PROVE  TypeOK'
  <2>1. CASE ClusterExists(req[r].row.cluster)
    <3>1. [req[r] EXCEPT !.pc = "menu_image",
                         !.image = cluster[req[r].row.cluster].image] \in Request
      <4>1. /\ cluster[req[r].row.cluster].image \in NodeImageIds \cup {None}
            /\ cluster[req[r].row.cluster].configs \in SUBSET Roles
        BY <2>1, RequestTyped, ClusterTyped
      <4>2. req[r] \in Request /\ "menu_image" \in Steps
        BY RequestTyped DEF Steps
      <4> QED BY <4>1, <4>2, ProgressTyped
    <3>2. MenuTail(r, req[r].row) \in Request
      BY MenuTailTyped
    <3>3. req' \in [Requests -> Request]
      BY <1>36, <3>1, <3>2 DEF MenuCluster, TypeOK
    <3> QED BY <1>36, <3>3 DEF MenuCluster, TypeOK
  <2>2. CASE ~ClusterExists(req[r].row.cluster)
    BY <1>36, <2>2, MenuTailTyped, SlotTyped DEF MenuCluster
  <2> QED BY <2>1, <2>2
<1>37. ASSUME NEW r \in Requests, MenuImage(r)
      PROVE  TypeOK'
  BY <1>37, ProgressTyped, RequestTyped, MenuTailTyped
     DEF MenuImage, TypeOK, Steps
<1>38. ASSUME NEW r \in Requests, MenuInstalled(r)
      PROVE  TypeOK'
  BY <1>38, StateStatementTyped, RequestTyped, MenuTailTyped
     DEF MenuInstalled, TypeOK, States
<1>39. ASSUME NEW r \in Requests, MenuNextBoot(r)
      PROVE  TypeOK'
  BY <1>39, NextTyped
     DEF MenuNextBoot, TypeOK, Finish
<1>40. ASSUME NEW r \in Requests, MachineConfigInventory(r)
      PROVE  TypeOK'
  <2>1. req' \in [Requests -> Request]
    BY <1>40, GotoTyped, FinishTyped DEF MachineConfigInventory, Steps
  <2> QED BY <1>40, <2>1 DEF MachineConfigInventory, TypeOK
<1>41. ASSUME NEW r \in Requests, MachineConfigCluster(r)
      PROVE  TypeOK'
  <2>1. CASE ClusterExists(req[r].row.cluster)
    <3>1. [req[r] EXCEPT !.pc = "mc_image",
                         !.image = cluster[req[r].row.cluster].image,
                         !.configs = cluster[req[r].row.cluster].configs] \in Request
      <4>1. /\ cluster[req[r].row.cluster].image \in NodeImageIds \cup {None}
            /\ cluster[req[r].row.cluster].configs \in SUBSET Roles
        BY <2>1, RequestTyped, ClusterTyped
      <4>2. req[r] \in Request /\ "mc_image" \in Steps
        BY RequestTyped DEF Steps
      <4> QED BY <4>1, <4>2, ProgressTyped
    <3>2. req' \in [Requests -> Request]
      BY <1>41, <3>1 DEF MachineConfigCluster, TypeOK
    <3> QED BY <1>41, <3>2 DEF MachineConfigCluster, TypeOK
  <2>2. CASE ~ClusterExists(req[r].row.cluster)
    BY <1>41, <2>2, SlotTyped DEF MachineConfigCluster
  <2> QED BY <2>1, <2>2
<1>42. ASSUME NEW r \in Requests, MachineConfigImage(r)
      PROVE  TypeOK'
  <2>1. req' \in [Requests -> Request]
    BY <1>42, GotoTyped, FinishTyped DEF MachineConfigImage, Steps
  <2> QED BY <1>42, <2>1 DEF MachineConfigImage, TypeOK
<1>43. ASSUME NEW r \in Requests, MachineConfigWrite(r)
      PROVE  TypeOK'
  BY <1>43, ProgressTyped, RequestTyped, StateStatementTyped
     DEF MachineConfigWrite, TypeOK, Goto, Steps, States
<1>44. ASSUME NEW r \in Requests, Respond(r)
      PROVE  TypeOK'
  BY <1>44
     DEF Respond, TypeOK, Finish
<1>45. ASSUME NEW r \in Requests, RequestError(r)
      PROVE  TypeOK'
  <2>1. \A s \in Steps : [req[r] EXCEPT !.pc = s] \in Request
    BY ProgressTyped, RequestTyped
  <2>2. PICK q : /\ req' = [req EXCEPT ![r] = q]
                 /\ \/ q = Idle
                    \/ q = MenuTail(r, req[r].row)
                    \/ \E s \in {"served_config", "inventory_insert",
                                "assign_create", "mc_cluster"} :
                          q = [req[r] EXCEPT !.pc = s]
    BY <1>45 DEF RequestError, TypeOK
  <2>3. q \in Request
    BY <2>1, <2>2, MenuTailTyped DEF Steps
  <2> QED BY <1>45, <2>2, <2>3, SlotTyped DEF RequestError
<1>46. CASE Restart
  BY <1>46 DEF Restart, TypeOK
<1>47. CASE Tick
  BY <1>47 DEF Tick, TypeOK
<1>48. CASE UNCHANGED vars
  BY <1>48 DEF vars, TypeOK
<1> QED
  BY <1>1, <1>2, <1>3, <1>4, <1>5, <1>6, <1>7, <1>8, <1>9, <1>10, <1>11,
     <1>12, <1>13, <1>14, <1>15, <1>16, <1>17, <1>18, <1>19, <1>20, <1>21, <1>22,
     <1>23, <1>24, <1>25, <1>26, <1>27, <1>28, <1>29, <1>30, <1>31, <1>32, <1>33,
     <1>34, <1>35, <1>36, <1>37, <1>38, <1>39, <1>40, <1>41, <1>42, <1>43, <1>44,
     <1>45, <1>46, <1>47, <1>48
     DEF Next, ClientArrival, ClusterArrival, MachineArrival, RequestStep

\* Every reachable state of the tables and requests is well typed.
THEOREM TypeCorrect == Spec => []TypeOK
BY TypeInit, TypeNext, PTL DEF Spec

-----------------------------------------------------------------------------
(* Tokens.  A row either loses its token, keeps it with everything that was *)
(* issued with it, or receives a fresh one from assignNodeToCluster.       *)

\* What a request in flight knows of the token it read: the strengthening that
\* makes TokensSound and ServedAsIssued inductive.
IssuedFor(r) ==
    /\ req[r].mac # None
    /\ req[r].row.token # None
    /\ issued[req[r].row.token] =
          [mac |-> req[r].mac, cluster |-> req[r].row.cluster,
           role |-> req[r].row.role, expires |-> req[r].row.expires]

RequestBound(r) ==
    /\ req[r].pc \in {"assign_lookup", "assign_create", "assign_write"} =>
          req[r].cluster # None
    /\ req[r].pc = "reinstall_write" => req[r].row.cluster # None
    /\ req[r].pc \in {"menu_cluster", "menu_image", "served_script"} =>
          IssuedFor(r)
    /\ req[r].pc \in {"mc_inventory", "mc_cluster", "mc_image", "mc_write",
                      "served_config"} =>
          IssuedFor(r) /\ req[r].token = req[r].row.token
    /\ req[r].pc \in {"mc_write", "served_config"} =>
          req[r].row.role \in req[r].configs

RequestBinding == \A r \in Requests : RequestBound(r)

RowKept(m) ==
    \/ client'[m].token = None
    \/ /\ client'[m].id = client[m].id
       /\ client'[m].token = client[m].token
       /\ client'[m].cluster = client[m].cluster
       /\ client'[m].role = client[m].role
       /\ client'[m].expires = client[m].expires
       /\ client'[m].state \in {client[m].state, "installing"}

\* Steps that keep or clear tokens preserve the token invariants.
LEMMA RowsKept ==
    ASSUME TokensSound, UNCHANGED issued, \A m \in Clients : RowKept(m)
    PROVE  TokensSound'
BY DEF TokensSound, TokenImpliesEnrolled, TokenBinding, RowKept, ClientExists

\* A token in use has been issued.
LEMMA HeldIsIssued ==
    ASSUME TokensSound, NEW m \in Clients, client[m].token # None
    PROVE  issued[client[m].token] # NoIssue
<1>1. m # None
  BY ConstantsAssumption, Zenon
<1>2. issued[client[m].token] = [mac |-> m, cluster |-> client[m].cluster,
                                 role |-> client[m].role,
                                 expires |-> client[m].expires]
  BY DEF TokensSound, TokenBinding
<1>3. issued[client[m].token].mac = m
  BY <1>2
<1>4. NoIssue.mac = None
  BY DEF NoIssue
<1> QED BY <1>1, <1>3, <1>4

\* assignNodeToCluster preserves them: no other row holds the fresh token.
LEMMA AssignKeepsTokens ==
    ASSUME TypeOK, TokensSound, NEW m \in Clients \cup {None},
           NEW c \in ClusterIds, NEW role \in Roles \cup {""},
           AssignNodeToCluster(m, c, role)
    PROVE  TokensSound'
<1>1. PICK t \in Tokens :
        /\ issued[t] = NoIssue
        /\ ClientExists(m)
        /\ client' = [client EXCEPT ![m] =
               [@ EXCEPT !.state = "approved", !.cluster = c, !.role = role,
                         !.token = t, !.expires = now + TTL]]
        /\ issued' = [issued EXCEPT ![t] =
               [mac |-> m, cluster |-> c, role |-> role, expires |-> now + TTL]]
  BY DEF AssignNodeToCluster
<1> SUFFICES ASSUME NEW n \in Clients, client'[n].token # None
             PROVE  /\ client'[n].id # None
                    /\ client'[n].state \in {"approved", "installing"}
                    /\ client'[n].cluster # None
                    /\ issued'[client'[n].token] =
                          [mac |-> n, cluster |-> client'[n].cluster,
                           role |-> client'[n].role,
                           expires |-> client'[n].expires]
  BY DEF TokensSound, TokenImpliesEnrolled, TokenBinding, ClientExists
<1>2. client[n] \in ClientRow /\ issued \in [Tokens -> Issue]
  BY DEF TypeOK
<1>3. CASE n = m
  <2>1. client'[n] = [client[n] EXCEPT !.state = "approved", !.cluster = c,
                      !.role = role, !.token = t, !.expires = now + TTL]
    BY <1>1, <1>3 DEF TypeOK
  <2>2. /\ client'[n].id = client[n].id
        /\ client'[n].state = "approved"
        /\ client'[n].cluster = c
        /\ client'[n].role = role
        /\ client'[n].token = t
        /\ client'[n].expires = now + TTL
    BY <1>2, <2>1 DEF ClientRow
  <2>3. issued'[t] = [mac |-> m, cluster |-> c, role |-> role,
                      expires |-> now + TTL]
    BY <1>1, <1>2
  <2>4. c # None
    BY ConstantsAssumption
  <2> QED BY <1>1, <1>3, <2>2, <2>3, <2>4 DEF ClientExists
<1>4. CASE n # m
  <2>1. client'[n] = client[n]
    BY <1>1, <1>4 DEF TypeOK
  <2>2. client[n].token # t
    BY <1>1, <2>1, HeldIsIssued
  <2>3. client[n].token \in Tokens
    BY <1>2, <2>1 DEF ClientRow
  <2>4. issued'[client[n].token] = issued[client[n].token]
    BY <1>1, <1>2, <2>2, <2>3
  <2> QED BY <2>1, <2>4
             DEF TokensSound, TokenImpliesEnrolled, TokenBinding, ClientExists
<1> QED BY <1>3, <1>4

\* Creating a client gives it no token and leaves the others alone.
LEMMA CreateKeepsRows ==
    ASSUME TypeOK, NEW m \in Clients \cup {None}, NEW form,
           CreateClientRow(m, form)
    PROVE  \A n \in Clients : RowKept(n)
<1>1. PICK id \in RowIds \ rowIds :
        client' = [client EXCEPT ![m] = CreatedRow(id, form)]
  BY DEF CreateClientRow
<1>2. CreatedRow(id, form).token = None
  BY DEF CreatedRow, NoClient
<1> QED BY <1>1, <1>2 DEF TypeOK, RowKept

\* Neither does a change of state to installing or installed hand out one.
LEMMA StateKeepsRows ==
    ASSUME TypeOK, NEW m \in Clients \cup {None},
           NEW s \in {"installing", "installed"}, SetClientEnrollmentState(m, s)
    PROVE  \A n \in Clients : RowKept(n)
<1>1. \A row \in ClientRow :
         /\ WithState(row, "installed").token = None
         /\ WithState(row, "installing").id = row.id
         /\ WithState(row, "installing").token = row.token
         /\ WithState(row, "installing").cluster = row.cluster
         /\ WithState(row, "installing").role = row.role
         /\ WithState(row, "installing").expires = row.expires
         /\ WithState(row, "installing").state = "installing"
  BY DEF WithState, ClientRow
<1>2. \A n \in Clients : client[n] \in ClientRow
  BY DEF TypeOK
<1>3. \A n \in Clients : client'[n] \in {client[n], WithState(client[n], s)}
  BY DEF SetClientEnrollmentState, TypeOK
<1> QED BY <1>1, <1>2, <1>3 DEF RowKept

\* Next-boot images have nothing to do with tokens.
LEMMA NextBootKeepsRows ==
    ASSUME TypeOK, NEW m \in Clients \cup {None}, NEW b,
           client' = [client EXCEPT ![m].next = b]
    PROVE  \A n \in Clients : RowKept(n)
<1> SUFFICES ASSUME NEW n \in Clients PROVE RowKept(n)
  OBVIOUS
<1>1. client[n] \in ClientRow
  BY DEF TypeOK
<1>2. client'[n] = IF n = m THEN [client[n] EXCEPT !.next = b] ELSE client[n]
  BY DEF TypeOK
<1>3. \A row \in ClientRow : LET new == [row EXCEPT !.next = b]
        IN  /\ new.id = row.id /\ new.state = row.state
            /\ new.cluster = row.cluster /\ new.role = row.role
            /\ new.token = row.token /\ new.expires = row.expires
  BY DEF ClientRow
<1> QED BY <1>1, <1>2, <1>3 DEF RowKept

\* A step either keeps all rows or is one assignNodeToCluster.
RowsStep ==
    \/ UNCHANGED issued /\ \A m \in Clients : RowKept(m)
    \/ \E m \in Clients \cup {None}, c \in ClusterIds, role \in Roles \cup {""} :
          AssignNodeToCluster(m, c, role)

\* Every step of Next is of one of these two kinds.
LEMMA RowsNext == TypeOK /\ RequestBinding /\ [Next]_vars => RowsStep
<1> SUFFICES ASSUME TypeOK, RequestBinding, [Next]_vars
             PROVE  RowsStep
  OBVIOUS
<1>0. ASSUME UNCHANGED issued, \A m \in Clients : RowKept(m)
      PROVE  RowsStep
  BY <1>0 DEF RowsStep
<1>1. ASSUME UNCHANGED <<client, issued>>
      PROVE  RowsStep
  BY <1>0, <1>1 DEF RowKept
<1>2. ASSUME NEW r \in Requests, ClientArrival(r)
      PROVE  RowsStep
  <2>1. ASSUME NEW m \in Clients, CreateClient(r, m)
        PROVE  RowsStep
    BY <2>1, <1>0, CreateKeepsRows DEF CreateClient
  <2>2. ASSUME NEW m \in Clients, NEW b, SetNextBootImage(r, m, b)
        PROVE  RowsStep
    BY <2>2, <1>0, NextBootKeepsRows DEF SetNextBootImage
  <2> QED BY <1>1, <1>2, <2>1, <2>2
             DEF ClientArrival, DeleteClient, AssignNode, ReinstallNode,
                 UnassignNode, MarkNodeInstalled, EnrollmentStateAction
<1>3. ASSUME NEW r \in Requests, ClusterArrival(r)
      PROVE  RowsStep
  BY <1>1, <1>3 DEF ClusterArrival, CreateCluster, UpdateCluster, ClusterConfig,
                    DeleteCluster, CreateNodeImage, DownloadNodeImage,
                    DeleteNodeImage
<1>4. ASSUME NEW r \in Requests, MachineArrival(r)
      PROVE  RowsStep
  BY <1>1, <1>4 DEF MachineArrival, IPXEMenu, InventoryReport, MachineConfig
<1>5. ASSUME NEW r \in Requests, DeleteClientRow(r)
      PROVE  RowsStep
  <2>1. \A m \in Clients : client'[m] \in {client[m], NoClient}
    BY <1>5 DEF DeleteClientRow, TypeOK
  <2>2. NoClient.token = None
    BY DEF NoClient
  <2> QED BY <1>5, <2>1, <2>2, <1>0 DEF DeleteClientRow, RowKept
<1>6. ASSUME NEW r \in Requests, AssignCreate(r) \/ InventoryCreateClient(r)
      PROVE  RowsStep
  <2>1. CASE UNCHANGED client
    BY <1>6, <2>1, <1>1 DEF AssignCreate, InventoryCreateClient
  <2>2. CASE CreateClientRow(req[r].mac, BlankForm)
    BY <1>6, <2>2, <1>0, CreateKeepsRows, RequestTyped
       DEF AssignCreate, InventoryCreateClient
  <2> QED BY <1>6, <2>1, <2>2 DEF AssignCreate, InventoryCreateClient
<1>7. ASSUME NEW r \in Requests, AssignWrite(r)
      PROVE  RowsStep
  <2>1. req[r].cluster \in ClusterIds
    BY <1>7, RequestTyped DEF AssignWrite, At, RequestBinding, RequestBound
  <2> QED BY <1>7, <2>1, RequestTyped
             DEF AssignWrite, RowsStep
<1>8. ASSUME NEW r \in Requests, ReinstallWrite(r)
      PROVE  RowsStep
  <2>1. req[r].row.cluster \in ClusterIds
    BY <1>8, RequestTyped DEF ReinstallWrite, At, RequestBinding, RequestBound
  <2> QED BY <1>8, <2>1, RequestTyped
             DEF ReinstallWrite, RowsStep
<1>9. ASSUME NEW r \in Requests, UnassignWrite(r) \/ DetachNodes(r)
      PROVE  RowsStep
  <2>1. \A row \in ClientRow : Detached(row).token = None
    BY DEF Detached, ClientRow
  <2>2. \A m \in Clients : client[m] \in ClientRow
    BY DEF TypeOK
  <2>3. \A m \in Clients : client'[m] \in {client[m], Detached(client[m])}
    BY <1>9 DEF UnassignWrite, DetachNodes, TypeOK
  <2> QED BY <1>9, <2>1, <2>2, <2>3, <1>0
             DEF UnassignWrite, DetachNodes, RowKept
<1>10. ASSUME NEW r \in Requests,
              MarkWrite(r) \/ MenuInstalled(r) \/ MachineConfigWrite(r)
       PROVE  RowsStep
  BY <1>10, <1>0, StateKeepsRows, RequestTyped
     DEF MarkWrite, MenuInstalled, MachineConfigWrite
<1>11. ASSUME NEW r \in Requests, MenuNextBoot(r)
       PROVE  RowsStep
  BY <1>11, <1>0, NextBootKeepsRows, RequestTyped DEF MenuNextBoot
<1>12. ASSUME NEW r \in Requests,
              \/ AssignLookup(r) \/ CreateClusterRow(r) \/ UpdateClusterRow(r)
              \/ ClusterConfigImage(r) \/ SetClusterConfigs(r)
              \/ DeleteClusterRow(r) \/ SetNodeImageDownloaded(r)
              \/ CountClusters(r) \/ DeleteNodeImageRow(r)
              \/ InsertInventory(r) \/ MenuCluster(r) \/ MenuImage(r)
              \/ MachineConfigInventory(r) \/ MachineConfigCluster(r)
              \/ MachineConfigImage(r) \/ Respond(r) \/ RequestError(r)
       PROVE  RowsStep
  BY <1>1, <1>12
     DEF AssignLookup, CreateClusterRow, UpdateClusterRow, ClusterConfigImage,
         SetClusterConfigs, DeleteClusterRow, SetNodeImageDownloaded,
         CountClusters, DeleteNodeImageRow, InsertInventory, MenuCluster,
         MenuImage, MachineConfigInventory, MachineConfigCluster,
         MachineConfigImage, Respond, RequestError
<1>13. CASE Restart \/ Tick \/ UNCHANGED vars
  BY <1>1, <1>13 DEF Restart, Tick, vars
<1> QED
  BY <1>2, <1>3, <1>4, <1>5, <1>6, <1>7, <1>8, <1>9, <1>10, <1>11, <1>12, <1>13
     DEF Next, RequestStep

\* The steps of Next preserve the token invariants.
LEMMA TokenNext ==
    TypeOK /\ TokensSound /\ RequestBinding /\ [Next]_vars => TokensSound'
BY RowsNext, RowsKept, AssignKeepsTokens DEF RowsStep

-----------------------------------------------------------------------------
(* Requests.  What a request has read of a token stays true, because what  *)
(* is issued is never changed.                                             *)

IssuedKept == \A t \in Tokens : issued[t] # NoIssue => issued'[t] = issued[t]

\* Only assignNodeToCluster issues a token, and a fresh one.
LEMMA IssuedNext == TypeOK /\ RequestBinding /\ [Next]_vars => IssuedKept
<1>1. ASSUME TypeOK, NEW m, NEW c, NEW role, AssignNodeToCluster(m, c, role)
      PROVE  IssuedKept
  BY <1>1 DEF AssignNodeToCluster, IssuedKept, TypeOK
<1>2. UNCHANGED issued => IssuedKept
  BY DEF IssuedKept
<1> QED BY <1>1, <1>2, RowsNext DEF RowsStep

\* The fields of a request that moves on.
LEMMA GotoFields ==
    ASSUME TypeOK, NEW r \in Requests, NEW s, Goto(r, s)
    PROVE  /\ req'[r].pc = s
           /\ req'[r].mac = req[r].mac
           /\ req'[r].cluster = req[r].cluster
           /\ req'[r].token = req[r].token
           /\ req'[r].configs = req[r].configs
           /\ req'[r].row = req[r].row
           /\ \A x \in Requests \ {r} : req'[x] = req[x]
<1>1. req[r] \in Request
  BY DEF TypeOK
<1>2. req'[r] = [req[r] EXCEPT !.pc = s]
  BY DEF Goto, TypeOK
<1>3. \A x \in Requests \ {r} : req'[x] = req[x]
  BY DEF Goto, TypeOK
<1> QED BY <1>1, <1>2, <1>3 DEF Request

\* The fields of a request that has read a cluster or a node image.
LEMMA ReadFields ==
    ASSUME NEW q \in Request, NEW s, NEW i, NEW docs
    PROVE  /\ [q EXCEPT !.pc = s].pc = s
           /\ [q EXCEPT !.pc = s].mac = q.mac
           /\ [q EXCEPT !.pc = s].row = q.row
           /\ [q EXCEPT !.pc = s, !.image = i].pc = s
           /\ [q EXCEPT !.pc = s, !.image = i].mac = q.mac
           /\ [q EXCEPT !.pc = s, !.image = i].row = q.row
           /\ [q EXCEPT !.pc = s, !.image = i, !.configs = docs].pc = s
           /\ [q EXCEPT !.pc = s, !.image = i, !.configs = docs].mac = q.mac
           /\ [q EXCEPT !.pc = s, !.image = i, !.configs = docs].token = q.token
           /\ [q EXCEPT !.pc = s, !.image = i, !.configs = docs].row = q.row
BY DEF Request

\* A request that keeps its client, its row and its token keeps what they
\* were issued for.
LEMMA IssuedForKept ==
    ASSUME TypeOK, IssuedKept, NEW r \in Requests, IssuedFor(r),
           req'[r].mac = req[r].mac, req'[r].row = req[r].row
    PROVE  IssuedFor(r)'
<1>1. req[r].row.token \in Tokens
  BY DEF TypeOK, Request, ClientRow, IssuedFor
<1>2. NoIssue.mac = None
  BY DEF NoIssue
<1>3. issued[req[r].row.token].mac = req[r].mac
  BY DEF IssuedFor
<1>4. issued[req[r].row.token] # NoIssue
  BY <1>2, <1>3 DEF IssuedFor
<1> QED BY <1>1, <1>4 DEF IssuedKept, IssuedFor

\* A request that did not move stays bound.
LEMMA OthersStayBound ==
    ASSUME TypeOK, IssuedKept, NEW r \in Requests, RequestBound(r),
           req'[r] = req[r]
    PROVE  RequestBound(r)'
<1>1. IssuedFor(r) => IssuedFor(r)'
  BY IssuedForKept
<1> QED BY <1>1 DEF RequestBound

\* Steps that carry no obligation.
FreeSteps == Steps \ {"assign_lookup", "assign_create", "assign_write",
                      "reinstall_write", "menu_cluster", "menu_image",
                      "served_script", "mc_inventory", "mc_cluster", "mc_image",
                      "mc_write", "served_config"}

\* Nothing is required of a request at a step of FreeSteps.
LEMMA FreeIsBound ==
    ASSUME NEW r \in Requests, req'[r].pc \in FreeSteps
    PROVE  RequestBound(r)'
BY DEF FreeSteps, RequestBound

\* An idle request is one of them,
LEMMA IdleIsFree == Idle.pc \in FreeSteps
BY DEF Idle, FreeSteps, Steps

\* and so is one that goes on to the menu.
LEMMA MenuTailIsFree ==
    ASSUME NEW r \in Requests PROVE MenuTail(r, req[r].row).pc \in FreeSteps
BY DEF MenuTail, Idle, FreeSteps, Steps

\* A client row that holds a token, read by a request.
LEMMA ReadRowIssued ==
    ASSUME TypeOK, TokensSound, UNCHANGED issued, NEW r \in Requests,
           NEW m \in Clients, client[m].token # None,
           req'[r].mac = m, req'[r].row = client[m]
    PROVE  IssuedFor(r)'
<1>1. m # None
  BY ConstantsAssumption, Zenon
<1> QED BY <1>1 DEF TokensSound, TokenBinding, IssuedFor

\* The steps of Next preserve what requests know of tokens.
LEMMA BindingNext ==
    TypeOK /\ TokensSound /\ RequestBinding /\ [Next]_vars => RequestBinding'
<1> SUFFICES ASSUME TypeOK, TokensSound, RequestBinding, [Next]_vars
             PROVE  RequestBinding'
  OBVIOUS
<1>1. IssuedKept
  BY IssuedNext
<1>2. ASSUME NEW r \in Requests, RequestBound(r)',
             \A x \in Requests \ {r} : req'[x] = req[x]
      PROVE  RequestBinding'
  BY <1>1, <1>2, OthersStayBound DEF RequestBinding
<1>3. ASSUME NEW r \in Requests, NEW q, q.pc \in FreeSteps,
             req' = [req EXCEPT ![r] = q]
      PROVE  RequestBinding'
  <2>1. req'[r].pc \in FreeSteps /\ \A x \in Requests \ {r} : req'[x] = req[x]
    BY <1>3 DEF TypeOK
  <2> QED BY <1>2, <2>1, FreeIsBound
<1>4. ASSUME NEW r \in Requests, NEW s \in FreeSteps, Goto(r, s)
      PROVE  RequestBinding'
  <2>1. req'[r].pc \in FreeSteps /\ \A x \in Requests \ {r} : req'[x] = req[x]
    BY <1>4 DEF Goto, TypeOK, Request
  <2> QED BY <1>2, <2>1, FreeIsBound
<1>5. ASSUME NEW r \in Requests, Finish(r)
      PROVE  RequestBinding'
  BY <1>3, <1>5, IdleIsFree DEF Finish
<1>6. ASSUME UNCHANGED req
      PROVE  RequestBinding'
  BY <1>1, <1>6, OthersStayBound DEF RequestBinding
<1>7. ASSUME NEW r \in Requests, ClientArrival(r)
      PROVE  RequestBinding'
  <2>1. ASSUME NEW m \in Clients, NEW step \in FreeSteps, NEW op,
               EnrollmentStateAction(r, m, op, step)
        PROVE  RequestBinding'
    <3>1. [Idle EXCEPT !.pc = step, !.mac = m, !.row = client[m]].pc \in FreeSteps
      BY DEF Idle
    <3> QED BY <1>3, <2>1, <3>1 DEF EnrollmentStateAction
  <2>2. ASSUME NEW m \in Clients, DeleteClient(r, m)
        PROVE  RequestBinding'
    <3>1. [Idle EXCEPT !.pc = "client_delete", !.mac = m,
                       !.row = client[m]].pc \in FreeSteps
      BY DEF Idle, FreeSteps, Steps
    <3> QED BY <1>3, <2>2, <3>1 DEF DeleteClient
  <2>3. ASSUME NEW m \in Clients, NEW c \in ClusterIds, NEW role \in Roles,
               AssignNode(r, m, c, role)
        PROVE  RequestBinding'
    <3>1. /\ req'[r].pc = "assign_lookup"
          /\ req'[r].cluster = c
          /\ \A x \in Requests \ {r} : req'[x] = req[x]
      BY <2>3 DEF AssignNode, TypeOK, Idle
    <3>2. c # None
      BY ConstantsAssumption, Zenon
    <3> QED BY <1>2, <3>1, <3>2 DEF RequestBound
  <2>4. ASSUME NEW m \in Clients, ReinstallNode(r, m)
        PROVE  RequestBinding'
    <3>1. /\ req'[r].pc = "reinstall_write"
          /\ req'[r].row = client[m]
          /\ \A x \in Requests \ {r} : req'[x] = req[x]
      BY <2>4 DEF ReinstallNode, EnrollmentStateAction, TypeOK, Idle
    <3> QED BY <1>2, <2>4, <3>1 DEF RequestBound, ReinstallNode
  <2>5. "unassign_write" \in FreeSteps /\ "mark_write" \in FreeSteps
    BY DEF FreeSteps, Steps
  <2> QED BY <1>6, <1>7, <2>1, <2>2, <2>3, <2>4, <2>5
             DEF ClientArrival, CreateClient, SetNextBootImage, UnassignNode,
                 MarkNodeInstalled
<1>8. ASSUME NEW r \in Requests, ClusterArrival(r)
      PROVE  RequestBinding'
  <2>1. ASSUME NEW c, NEW i, NEW docs
        PROVE /\ [Idle EXCEPT !.pc = "cluster_create", !.image = i].pc \in FreeSteps
              /\ [Idle EXCEPT !.pc = "cluster_update", !.cluster = c,
                              !.image = i].pc \in FreeSteps
              /\ [Idle EXCEPT !.pc = "config_image", !.cluster = c, !.image = i,
                              !.configs = docs].pc \in FreeSteps
              /\ [Idle EXCEPT !.pc = "cluster_detach", !.cluster = c].pc \in FreeSteps
              /\ [Idle EXCEPT !.pc = "image_download", !.image = i].pc \in FreeSteps
              /\ [Idle EXCEPT !.pc = "image_count", !.image = i].pc \in FreeSteps
    BY DEF Idle, FreeSteps, Steps
  <2>2. ASSUME NEW i, CreateCluster(r, i) PROVE RequestBinding'
    BY <1>3, <2>1, <2>2 DEF CreateCluster
  <2>3. ASSUME NEW c, NEW i, UpdateCluster(r, c, i) PROVE RequestBinding'
    BY <1>3, <2>1, <2>3 DEF UpdateCluster
  <2>4. ASSUME NEW c, NEW docs, ClusterConfig(r, c, docs) PROVE RequestBinding'
    BY <1>3, <2>1, <2>4 DEF ClusterConfig
  <2>5. ASSUME NEW c, DeleteCluster(r, c) PROVE RequestBinding'
    BY <1>3, <2>1, <2>5 DEF DeleteCluster
  <2>6. ASSUME NEW i, DownloadNodeImage(r, i) PROVE RequestBinding'
    BY <1>3, <2>1, <2>6 DEF DownloadNodeImage
  <2>7. ASSUME NEW i, DeleteNodeImage(r, i) PROVE RequestBinding'
    BY <1>3, <2>1, <2>7 DEF DeleteNodeImage
  <2>8. ASSUME CreateNodeImage(r) PROVE RequestBinding'
    BY <1>6, <2>8 DEF CreateNodeImage
  <2> QED BY <1>8, <2>2, <2>3, <2>4, <2>5, <2>6, <2>7, <2>8 DEF ClusterArrival
<1>9. ASSUME NEW r \in Requests, NEW m \in Clients, IPXEMenu(r, m)
      PROVE  RequestBinding'
  <2>1. CASE /\ client[m].state = "approved"
             /\ client[m].cluster # None
             /\ ValidateToken(client[m], client[m].token)
    <3>1. /\ req'[r].pc = "menu_cluster"
          /\ req'[r].mac = m
          /\ req'[r].row = client[m]
          /\ \A x \in Requests \ {r} : req'[x] = req[x]
      BY <1>9, <2>1 DEF IPXEMenu, TypeOK, Idle
    <3>2. client[m].token # None
      BY <2>1 DEF ValidateToken
    <3>3. IssuedFor(r)'
      BY <1>9, <3>1, <3>2, ReadRowIssued DEF IPXEMenu
    <3> QED BY <1>2, <3>1, <3>3 DEF RequestBound
  <2>2. CASE ~ /\ client[m].state = "approved"
               /\ client[m].cluster # None
               /\ ValidateToken(client[m], client[m].token)
    <3>1. /\ req'[r].pc \in {"menu_installed", "menu_next", "idle"}
          /\ \A x \in Requests \ {r} : req'[x] = req[x]
      BY <1>9, <2>2 DEF IPXEMenu, TypeOK, Idle
    <3> QED BY <1>2, <3>1, FreeIsBound DEF FreeSteps, Steps
  <2> QED BY <2>1, <2>2
<1>10. ASSUME NEW r \in Requests, NEW m \in Clients, NEW u,
              InventoryReport(r, m, u)
       PROVE  RequestBinding'
  <2>1. /\ req'[r].pc \in {"inventory_insert", "inventory_create"}
        /\ \A x \in Requests \ {r} : req'[x] = req[x]
    BY <1>10 DEF InventoryReport, TypeOK, Idle
  <2> QED BY <1>2, <2>1, FreeIsBound DEF FreeSteps, Steps
<1>11. ASSUME NEW r \in Requests, NEW m \in Clients, NEW t \in Tokens, NEW u,
              MachineConfig(r, m, t, u)
       PROVE  RequestBinding'
  <2>1. /\ req'[r].pc = "mc_inventory"
        /\ req'[r].mac = m
        /\ req'[r].token = t
        /\ req'[r].row = client[m]
        /\ \A x \in Requests \ {r} : req'[x] = req[x]
    BY <1>11 DEF MachineConfig, TypeOK, Idle
  <2>2. client[m].token # None /\ client[m].token = t
    BY <1>11 DEF MachineConfig, ValidateToken
  <2>3. IssuedFor(r)'
    BY <1>11, <2>1, <2>2, ReadRowIssued DEF MachineConfig
  <2> QED BY <1>2, <2>1, <2>2, <2>3 DEF RequestBound
<1>12. ASSUME NEW r \in Requests,
              \/ DeleteClientRow(r) \/ AssignWrite(r) \/ ReinstallWrite(r)
              \/ UnassignWrite(r) \/ MarkWrite(r) \/ CreateClusterRow(r)
              \/ UpdateClusterRow(r) \/ SetClusterConfigs(r)
              \/ DeleteClusterRow(r) \/ SetNodeImageDownloaded(r)
              \/ DeleteNodeImageRow(r) \/ InsertInventory(r)
              \/ MenuNextBoot(r) \/ Respond(r)
       PROVE  RequestBinding'
  <2>1. Finish(r)
    BY <1>12 DEF DeleteClientRow, AssignWrite, ReinstallWrite, UnassignWrite,
         MarkWrite, CreateClusterRow, UpdateClusterRow, SetClusterConfigs,
         DeleteClusterRow, SetNodeImageDownloaded, DeleteNodeImageRow,
         InsertInventory, MenuNextBoot, Respond
  <2> QED BY <1>5, <2>1
<1>13. ASSUME NEW r \in Requests,
              \/ ClusterConfigImage(r) \/ DetachNodes(r) \/ CountClusters(r)
              \/ InventoryCreateClient(r)
       PROVE  RequestBinding'
  <2>1. /\ "config_write" \in FreeSteps /\ "cluster_delete" \in FreeSteps
        /\ "image_delete" \in FreeSteps /\ "inventory_insert" \in FreeSteps
    BY DEF FreeSteps, Steps
  <2> QED BY <1>4, <1>5, <1>13, <2>1
             DEF ClusterConfigImage, DetachNodes, CountClusters,
                 InventoryCreateClient
<1>14. ASSUME NEW r \in Requests, req[r].pc \in {"assign_lookup", "assign_create"},
              Goto(r, "assign_create") \/ Goto(r, "assign_write")
       PROVE  RequestBinding'
  <2>1. req[r].cluster # None
    BY <1>14 DEF RequestBinding, RequestBound
  <2>2. /\ req'[r].pc \in {"assign_create", "assign_write"}
        /\ req'[r].cluster = req[r].cluster
        /\ \A x \in Requests \ {r} : req'[x] = req[x]
    BY <1>14, GotoFields
  <2> QED BY <1>2, <2>1, <2>2 DEF RequestBound
<1>15. ASSUME NEW r \in Requests, AssignLookup(r) \/ AssignCreate(r)
       PROVE  RequestBinding'
  BY <1>5, <1>14, <1>15 DEF AssignLookup, AssignCreate, At
<1>16. ASSUME NEW r \in Requests, MenuCluster(r) \/ MenuImage(r)
       PROVE  RequestBinding'
  <2>1. CASE req' = [req EXCEPT ![r] = MenuTail(r, req[r].row)]
    BY <1>3, <2>1, MenuTailIsFree
  <2>2. CASE \/ \E i : req' = [req EXCEPT ![r] =
                          [req[r] EXCEPT !.pc = "menu_image", !.image = i]]
             \/ req' = [req EXCEPT ![r] = [req[r] EXCEPT !.pc = "served_script"]]
    <3>1. req[r].pc \in {"menu_cluster", "menu_image"}
      BY <1>16 DEF MenuCluster, MenuImage, At
    <3>2. IssuedFor(r)
      BY <3>1 DEF RequestBinding, RequestBound
    <3>3. req[r] \in Request /\ \A x \in Requests \ {r} : req'[x] = req[x]
      BY <2>2 DEF TypeOK
    <3>5. /\ req'[r].pc \in {"menu_image", "served_script"}
          /\ req'[r].mac = req[r].mac
          /\ req'[r].row = req[r].row
      <4>1. ASSUME NEW i, req' = [req EXCEPT ![r] =
                      [req[r] EXCEPT !.pc = "menu_image", !.image = i]]
            PROVE  <3>5!:
        <5>1. req'[r] = [req[r] EXCEPT !.pc = "menu_image", !.image = i]
          BY <4>1 DEF TypeOK
        <5> QED BY <3>3, <5>1, ReadFields
      <4>2. CASE req' = [req EXCEPT ![r] = [req[r] EXCEPT !.pc = "served_script"]]
        <5>1. req'[r] = [req[r] EXCEPT !.pc = "served_script"]
          BY <4>2 DEF TypeOK
        <5> QED BY <3>3, <5>1, ReadFields
      <4> QED BY <2>2, <4>1, <4>2
    <3>6. IssuedFor(r)'
      BY <1>1, <3>2, <3>5, IssuedForKept
    <3> QED BY <1>2, <3>3, <3>5, <3>6 DEF RequestBound
  <2> QED BY <1>16, <2>1, <2>2 DEF MenuCluster, MenuImage
<1>17. ASSUME NEW r \in Requests, MenuInstalled(r)
       PROVE  RequestBinding'
  BY <1>3, <1>17, MenuTailIsFree DEF MenuInstalled
<1>18. ASSUME NEW r \in Requests, req[r].pc \in {"mc_inventory", "mc_cluster"},
              \/ Goto(r, "mc_cluster")
              \/ \E i, docs : req' = [req EXCEPT ![r] =
                    [req[r] EXCEPT !.pc = "mc_image", !.image = i, !.configs = docs]]
       PROVE  RequestBinding'
  <2>1. IssuedFor(r) /\ req[r].token = req[r].row.token
    BY <1>18 DEF RequestBinding, RequestBound
  <2>2. /\ req'[r].pc \in {"mc_cluster", "mc_image"}
        /\ req'[r].mac = req[r].mac
        /\ req'[r].token = req[r].token
        /\ req'[r].row = req[r].row
        /\ \A x \in Requests \ {r} : req'[x] = req[x]
    <3>1. CASE Goto(r, "mc_cluster")
      BY <3>1, GotoFields
    <3>2. ASSUME NEW i, NEW docs, req' = [req EXCEPT ![r] =
                 [req[r] EXCEPT !.pc = "mc_image", !.image = i, !.configs = docs]]
          PROVE  <2>2!:
      <4>1. /\ req[r] \in Request
            /\ req'[r] = [req[r] EXCEPT !.pc = "mc_image", !.image = i,
                                        !.configs = docs]
            /\ \A x \in Requests \ {r} : req'[x] = req[x]
        BY <3>2 DEF TypeOK
      <4> QED BY <4>1, ReadFields
    <3> QED BY <1>18, <3>1, <3>2
  <2>3. IssuedFor(r)'
    BY <1>1, <2>1, <2>2, IssuedForKept
  <2> QED BY <1>2, <2>1, <2>2, <2>3 DEF RequestBound
<1>19. ASSUME NEW r \in Requests,
              MachineConfigInventory(r) \/ MachineConfigCluster(r)
       PROVE  RequestBinding'
  <2>1. CASE req' = [req EXCEPT ![r] = Idle]
    BY <1>3, <2>1, IdleIsFree
  <2>2. req[r].pc \in {"mc_inventory", "mc_cluster"}
    BY <1>19 DEF MachineConfigInventory, MachineConfigCluster, At
  <2>3. CASE \/ Goto(r, "mc_cluster")
             \/ \E i, docs : req' = [req EXCEPT ![r] =
                   [req[r] EXCEPT !.pc = "mc_image", !.image = i, !.configs = docs]]
    BY <1>18, <2>2, <2>3
  <2> QED BY <1>19, <2>1, <2>3
             DEF MachineConfigInventory, MachineConfigCluster, Finish
<1>20. ASSUME NEW r \in Requests, req[r].pc \in {"mc_image", "mc_write"},
              req[r].row.role \in req[r].configs,
              Goto(r, "mc_write") \/ Goto(r, "served_config")
       PROVE  RequestBinding'
  <2>1. IssuedFor(r) /\ req[r].token = req[r].row.token
    BY <1>20 DEF RequestBinding, RequestBound
  <2>2. /\ req'[r].pc \in {"mc_write", "served_config"}
        /\ req'[r].mac = req[r].mac
        /\ req'[r].token = req[r].token
        /\ req'[r].row = req[r].row
        /\ req'[r].configs = req[r].configs
        /\ \A x \in Requests \ {r} : req'[x] = req[x]
    BY <1>20, GotoFields
  <2>3. IssuedFor(r)'
    BY <1>1, <2>1, <2>2, IssuedForKept
  <2> QED BY <1>2, <1>20, <2>1, <2>2, <2>3 DEF RequestBound
<1>21. ASSUME NEW r \in Requests, MachineConfigImage(r)
       PROVE  RequestBinding'
  BY <1>5, <1>20, <1>21 DEF MachineConfigImage, At
<1>22. ASSUME NEW r \in Requests, MachineConfigWrite(r)
       PROVE  RequestBinding'
  <2>1. req[r].row.role \in req[r].configs
    BY <1>22 DEF MachineConfigWrite, At, RequestBinding, RequestBound
  <2> QED BY <1>20, <1>22, <2>1 DEF MachineConfigWrite, At
<1>23. ASSUME NEW r \in Requests, RequestError(r)
       PROVE  RequestBinding'
  <2>1. CASE req[r].pc = "mc_write"
    <3>1. req[r].row.role \in req[r].configs
      BY <2>1 DEF RequestBinding, RequestBound
    <3>2. Goto(r, "served_config")
      BY <1>23, <2>1 DEF RequestError, Goto, TypeOK
    <3> QED BY <1>20, <2>1, <3>1, <3>2
  <2>2. CASE req[r].pc = "inventory_create"
    <3>1. Goto(r, "inventory_insert")
      BY <1>23, <2>2 DEF RequestError, Goto, TypeOK
    <3>2. "inventory_insert" \in FreeSteps
      BY DEF FreeSteps, Steps
    <3> QED BY <1>4, <3>1, <3>2
  <2>3. CASE req[r].pc \in {"menu_cluster", "menu_image", "menu_installed"}
    BY <1>3, <1>23, <2>3, MenuTailIsFree DEF RequestError
  <2>4. CASE req[r].pc = "assign_lookup"
    <3>1. Goto(r, "assign_create")
      BY <1>23, <2>4 DEF RequestError, Goto, TypeOK
    <3> QED BY <1>14, <2>4, <3>1
  <2>5. CASE req[r].pc = "mc_inventory" /\ req[r].row.cluster # None
    <3>1. Goto(r, "mc_cluster")
      BY <1>23, <2>5 DEF RequestError, Goto, TypeOK
    <3> QED BY <1>18, <2>5, <3>1
  <2>6. CASE /\ req[r].pc \notin {"mc_write", "inventory_create", "menu_cluster",
                                  "menu_image", "menu_installed", "assign_lookup"}
             /\ ~(req[r].pc = "mc_inventory" /\ req[r].row.cluster # None)
    BY <1>3, <1>23, <2>6, IdleIsFree DEF RequestError
  <2> QED BY <2>1, <2>2, <2>3, <2>4, <2>5, <2>6
<1>24. CASE Restart
  BY <1>24, FreeIsBound, IdleIsFree DEF Restart, RequestBinding
<1>25. CASE Tick \/ UNCHANGED vars
  BY <1>6, <1>25 DEF Tick, vars
<1> QED
  BY <1>7, <1>8, <1>9, <1>10, <1>11, <1>12, <1>13, <1>16, <1>17, <1>21,
     <1>22, <1>23, <1>24, <1>25, <1>15, <1>19
     DEF Next, MachineArrival, RequestStep

-----------------------------------------------------------------------------
(* The theorems.                                                           *)

\* The inductive invariant: types, tokens, and what requests know of them.
IInv == TypeOK /\ TokensSound /\ RequestBinding

\* It holds initially and every step preserves it.
LEMMA InductiveInvariant == Spec => []IInv
<1>1. Init => IInv
  <2> SUFFICES ASSUME Init PROVE IInv
    OBVIOUS
  <2>1. TypeOK
    BY TypeInit
  <2>2. TokensSound
    BY DEF Init, NoClient, TokensSound, TokenImpliesEnrolled, TokenBinding
  <2>3. RequestBinding
    BY DEF Init, Idle, RequestBinding, RequestBound
  <2> QED BY <2>1, <2>2, <2>3 DEF IInv
<1>2. IInv /\ [Next]_vars => IInv'
  BY TypeNext, TokenNext, BindingNext DEF IInv
<1> QED BY <1>1, <1>2, PTL DEF Spec

\* A stored enrollment token always belongs to an approved or installing node
\* and to the MAC, cluster, role and expiry it was issued for, whatever
\* requests overlap, fail or are cut short.
THEOREM TokensAreSound == Spec => []TokensSound
<1>1. IInv => TokensSound
  BY DEF IInv
<1> QED BY <1>1, InductiveInvariant, PTL

\* The machine config and the install script a node receives are those of the
\* cluster and role its token was issued for.
THEOREM ConfigsServedAsIssued == Spec => []ServedAsIssued
<1>1. IInv => ServedAsIssued
  <2> SUFFICES ASSUME IInv, NEW r \in Requests,
                      req[r].pc \in {"served_config", "served_script"}
               PROVE  /\ issued[req[r].row.token] = Assignment(req[r].mac, req[r].row)
                      /\ req[r].pc = "served_config" =>
                            /\ req[r].token = req[r].row.token
                            /\ req[r].row.role \in req[r].configs
    BY DEF ServedAsIssued
  <2>1. RequestBound(r)
    BY DEF IInv, RequestBinding
  <2>2. issued[req[r].row.token] = Assignment(req[r].mac, req[r].row)
    BY <2>1 DEF RequestBound, IssuedFor, Assignment
  <2> QED BY <2>1, <2>2 DEF RequestBound
<1> QED BY <1>1, InductiveInvariant, PTL

\* A token that has been revoked never becomes valid again.
THEOREM RevocationIsFinal == Spec => RevokedStaysRevoked
<1>1. IInv /\ [Next]_vars =>
         [\A t \in Tokens : issued[t] # NoIssue /\ ~Held(t) => ~Held(t)']_vars
  <2> SUFFICES ASSUME IInv, [Next]_vars, NEW t \in Tokens,
                      issued[t] # NoIssue, NEW n \in Clients,
                      client'[n].token = t
               PROVE  client[n].token = t
    BY DEF Held
  <2>1. RowsStep
    BY RowsNext DEF IInv
  <2>2. t # None
    BY ConstantsAssumption, Zenon
  <2>3. ASSUME NEW m, NEW c, NEW role, AssignNodeToCluster(m, c, role)
        PROVE  client[n].token = t
    <3>1. PICK k \in Tokens :
            /\ issued[k] = NoIssue
            /\ client' = [client EXCEPT ![m] =
                   [@ EXCEPT !.state = "approved", !.cluster = c, !.role = role,
                             !.token = k, !.expires = now + TTL]]
      BY <2>3 DEF AssignNodeToCluster
    <3>2. client[n] \in ClientRow
      BY DEF IInv, TypeOK
    <3>3. client'[n] \in {client[n], [client[n] EXCEPT !.state = "approved",
                !.cluster = c, !.role = role, !.token = k, !.expires = now + TTL]}
      BY <3>1 DEF IInv, TypeOK
    <3>4. client'[n].token \in {client[n].token, k}
      BY <3>2, <3>3 DEF ClientRow
    <3> QED BY <3>1, <3>4
  <2> QED BY <2>1, <2>2, <2>3 DEF RowsStep, RowKept
<1> QED BY <1>1, InductiveInvariant, PTL DEF Spec, RevokedStaysRevoked
=============================================================================
