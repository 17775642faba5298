-------------------------- MODULE LifecycleProofs ---------------------------
(***************************************************************************)
(* Enrollment implements NodeLifecycle as long as requests do not overlap: *)
(* for every set of nodes, clusters and tokens, with and without foreign   *)
(* keys, with errors and restarts in the middle of a handler.              *)
(*                                                                         *)
(* A handler acts on a row it has read some statements ago.  Alone, it     *)
(* finds the tables as it has read them, and Fresh says which of what it   *)
(* has read is still so.  Every statement then has one of five effects on  *)
(* what the administrator sees of the nodes, and each effect is a step of  *)
(* the lifecycle.                                                          *)
(***************************************************************************)
EXTENDS EnrollmentProofs

\* One request at a time.
OneAtATime == \A r, s \in Requests : r = s

\* No body posted to /api/clients presets a state or a cluster.
PlainForms == \A form \in CreateForms : form.state = "" /\ form.cluster = None

\* Steps that act on the row read at the start of the request.
RowSteps == {"client_delete", "reinstall_write", "unassign_write", "mark_write",
             "menu_cluster", "menu_image", "menu_installed",
             "mc_inventory", "mc_cluster", "mc_image", "mc_write"}

AssignSteps == {"assign_lookup", "assign_create", "assign_write"}

Fresh(r) ==
    /\ req[r].pc \in RowSteps =>
          /\ req[r].mac \in Clients
          /\ ClientExists(req[r].mac)
          /\ req[r].row = client[req[r].mac]
    /\ req[r].pc \in AssignSteps =>
          req[r].mac \in Clients /\ ClusterExists(req[r].cluster)
    /\ req[r].pc = "mc_write" => req[r].row.state = "approved"
    /\ req[r].pc = "cluster_detach" => req[r].cluster \in ClusterIds
    /\ req[r].pc = "cluster_delete" =>
          \A m \in Clients : client[m].cluster # req[r].cluster

\* What the administrator sees of a node that is not there.
Blank(row) == row.state = "" /\ row.cluster = None /\ row.token = None

AbsentIsBlank == \A m \in Clients : ClientExists(m) \/ Blank(client[m])

SerialInv ==
    /\ \A r \in Requests : Fresh(r)
    /\ AbsentIsBlank
    /\ NoDanglingCluster

-----------------------------------------------------------------------------
(* The effects of a step on what the administrator sees of the nodes.      *)

\* References name rows of the tables they refer to, or none.
LEMMA ClientRefsTyped ==
    ASSUME TypeOK PROVE \A m \in Clients : client[m].cluster \in ClusterIds \cup {None}
BY DEF TypeOK, ClientRow

\* The statements on clients that do not assign keep or clear the reference.
LEMMA RowFieldsKept ==
    ASSUME NEW row \in ClientRow, NEW b
    PROVE  /\ NoClient.cluster = None
           /\ Detached(row).cluster = None
           /\ WithState(row, "installed").cluster = row.cluster
           /\ WithState(row, "installing").cluster = row.cluster
           /\ [row EXCEPT !.next = b].cluster = row.cluster
BY DEF ClientRow, NoClient, Detached, WithState

Same(n) ==
    /\ client'[n].state = client[n].state
    /\ client'[n].cluster = client[n].cluster
    /\ client'[n].token = client[n].token
    /\ ClientExists(n) => client'[n].id # None

Quiet == UNCHANGED issued /\ \A n \in Clients : Same(n)

Assigned(m, c, t) ==
    /\ ClusterExists(c)
    /\ issued[t] = NoIssue
    /\ issued'[t] # NoIssue
    /\ \A u \in Tokens \ {t} : issued'[u] = issued[u]
    /\ client'[m].id # None
    /\ client'[m].state = "approved" /\ client'[m].cluster = c /\ client'[m].token = t
    /\ \A n \in Clients \ {m} : Same(n)

Released(S) ==
    /\ UNCHANGED issued
    /\ \A n \in Clients : IF n \in S THEN Blank(client'[n]) ELSE Same(n)

Declared(m) ==
    /\ UNCHANGED issued
    /\ client'[m].id # None
    /\ client'[m].state = "installed" /\ client'[m].token = None
    /\ client'[m].cluster = client[m].cluster
    /\ \A n \in Clients \ {m} : Same(n)

Began(m) ==
    /\ UNCHANGED issued
    /\ client[m].state = "approved" /\ client[m].token # None
    /\ client'[m].id # None
    /\ client'[m].state = "installing" /\ client'[m].token = client[m].token
    /\ client'[m].cluster = client[m].cluster
    /\ \A n \in Clients \ {m} : Same(n)

Effect ==
    \/ Quiet
    \/ \E m \in Clients, c \in ClusterIds, t \in Tokens : Assigned(m, c, t)
    \/ \E m \in Clients : Released({m}) \/ Declared(m) \/ Began(m)
    \/ \E c \in ClusterIds : Released({n \in Clients : client[n].cluster = c})

\* A node that is looked at and left alone.
LEMMA SameIfUnchanged == ASSUME UNCHANGED <<client, issued>> PROVE Effect
BY DEF Effect, Quiet, Same, ClientExists

\* The columns the administrator sees, in the rows the statements write.
LEMMA RowColumns ==
    ASSUME NEW row \in ClientRow, NEW c, NEW role, NEW t, NEW e, NEW b
    PROVE  /\ Blank(NoClient)
           /\ Blank(Detached(row)) /\ Detached(row).id = row.id
           /\ LET new == [row EXCEPT !.state = "approved", !.cluster = c, !.role = role,
                                     !.token = t, !.expires = e]
              IN  new.id = row.id /\ new.state = "approved" /\ new.cluster = c
                  /\ new.token = t
           /\ LET new == [row EXCEPT !.next = b]
              IN  new.id = row.id /\ new.state = row.state
                  /\ new.cluster = row.cluster /\ new.token = row.token
           /\ LET new == WithState(row, "installed")
              IN  new.id = row.id /\ new.state = "installed"
                  /\ new.cluster = row.cluster /\ new.token = None
           /\ LET new == WithState(row, "installing")
              IN  new.id = row.id /\ new.state = "installing"
                  /\ new.cluster = row.cluster /\ new.token = row.token
BY DEF ClientRow, Blank, NoClient, Detached, WithState

\* A created client looks like one that is not there.
LEMMA CreatedColumns ==
    ASSUME NEW id, NEW form, form.state = "", form.cluster = None
    PROVE  CreatedRow(id, form).id = id /\ Blank(CreatedRow(id, form))
BY DEF CreatedRow, NoClient, Blank

\* INSERT of a client.
LEMMA CreateEffect ==
    ASSUME TypeOK, AbsentIsBlank, NEW m \in Clients, ~ClientExists(m), NEW form,
           form.state = "", form.cluster = None, CreateClientRow(m, form),
           UNCHANGED issued
    PROVE  Effect
<1>1. PICK id \in RowIds : client' = [client EXCEPT ![m] = CreatedRow(id, form)]
  BY DEF CreateClientRow
<1>2. id # None
  BY ConstantsAssumption
<1>3. client'[m] = CreatedRow(id, form) /\ \A n \in Clients \ {m} : client'[n] = client[n]
  BY <1>1 DEF TypeOK
<1>4. Blank(client[m])
  BY DEF AbsentIsBlank
<1>5. Blank(client'[m]) /\ client'[m].id = id
  BY <1>3, CreatedColumns
<1>6. \A n \in Clients : Same(n)
  BY <1>2, <1>3, <1>4, <1>5 DEF Same, Blank, ClientExists
<1> QED BY <1>6 DEF Effect, Quiet

\* assignNodeToCluster.
LEMMA AssignEffect ==
    ASSUME TypeOK, NEW m \in Clients, NEW c \in ClusterIds, NEW role, ClusterExists(c),
           AssignNodeToCluster(m, c, role)
    PROVE  Effect
<1>1. PICK t \in Tokens :
        /\ issued[t] = NoIssue
        /\ ClientExists(m)
        /\ client' = [client EXCEPT ![m] =
               [@ EXCEPT !.state = "approved", !.cluster = c, !.role = role,
                         !.token = t, !.expires = now + TTL]]
        /\ issued' = [issued EXCEPT ![t] =
               [mac |-> m, cluster |-> c, role |-> role, expires |-> now + TTL]]
  BY DEF AssignNodeToCluster
<1>2. /\ issued'[t] = [mac |-> m, cluster |-> c, role |-> role, expires |-> now + TTL]
      /\ \A u \in Tokens \ {t} : issued'[u] = issued[u]
  BY <1>1 DEF TypeOK
<1>3. issued'[t] # NoIssue
  <2>1. m # None
    BY ConstantsAssumption, Zenon
  <2>2. issued'[t].mac = m /\ NoIssue.mac = None
    BY <1>2 DEF NoIssue
  <2> QED BY <2>1, <2>2
<1>4. client[m] \in ClientRow
  BY DEF TypeOK
<1>5. /\ client'[m] = [client[m] EXCEPT !.state = "approved", !.cluster = c, !.role = role,
                                        !.token = t, !.expires = now + TTL]
      /\ \A n \in Clients \ {m} : client'[n] = client[n]
  BY <1>1 DEF TypeOK
<1>6. /\ client'[m].id = client[m].id
      /\ client'[m].state = "approved" /\ client'[m].cluster = c /\ client'[m].token = t
  BY <1>4, <1>5, RowColumns
<1>7. \A n \in Clients \ {m} : Same(n)
  BY <1>5 DEF Same, ClientExists
<1>8. Assigned(m, c, t)
  BY <1>1, <1>2, <1>3, <1>6, <1>7 DEF Assigned, ClientExists
<1> QED BY <1>8 DEF Effect

\* setClientEnrollmentState.
LEMMA StateEffect ==
    ASSUME TypeOK, NEW m \in Clients, ClientExists(m), UNCHANGED issued
    PROVE  /\ SetClientEnrollmentState(m, "installed") => Effect
           /\ /\ SetClientEnrollmentState(m, "installing")
              /\ client[m].state = "approved" /\ client[m].token # None
              => Effect
<1>1. client[m] \in ClientRow
  BY DEF TypeOK
<1>2. ASSUME NEW s, SetClientEnrollmentState(m, s)
      PROVE  /\ client'[m] = WithState(client[m], s)
             /\ \A n \in Clients \ {m} : Same(n)
  BY <1>2 DEF SetClientEnrollmentState, TypeOK, Same, ClientExists
<1>3. SetClientEnrollmentState(m, "installed") => Declared(m)
  BY <1>1, <1>2, RowColumns DEF Declared, ClientExists
<1>4. /\ SetClientEnrollmentState(m, "installing")
      /\ client[m].state = "approved" /\ client[m].token # None
      => Began(m)
  BY <1>1, <1>2, RowColumns DEF Began, ClientExists
<1> QED BY <1>3, <1>4 DEF Effect

\* The next-boot image is not part of the lifecycle.
LEMMA NextBootEffect ==
    ASSUME TypeOK, NEW m \in Clients \cup {None}, NEW b, UNCHANGED issued,
           client' = [client EXCEPT ![m].next = b]
    PROVE  Effect
<1>1. \A n \in Clients : /\ client[n] \in ClientRow
                         /\ client'[n] \in {client[n], [client[n] EXCEPT !.next = b]}
  BY DEF TypeOK
<1>2. \A n \in Clients : Same(n)
  BY <1>1, RowColumns DEF Same, ClientExists
<1> QED BY <1>2 DEF Effect, Quiet

\* Every step has one of the effects.
LEMMA EffectNext ==
    ASSUME OneAtATime, PlainForms, TypeOK, RequestBinding, SerialInv, [Next]_vars
    PROVE  Effect
<1>1. AbsentIsBlank /\ NoDanglingCluster /\ \A r \in Requests : Fresh(r)
  BY DEF SerialInv
<1>2. ASSUME NEW r \in Requests, ClientArrival(r) PROVE Effect
  <2>1. ASSUME NEW m \in Clients, CreateClient(r, m) PROVE Effect
    <3>1. PICK form \in CreateForms : CreateClientRow(m, form)
      BY <2>1 DEF CreateClient
    <3>2. form.state = "" /\ form.cluster = None
      BY DEF PlainForms
    <3> QED BY <1>1, <2>1, <3>1, <3>2, CreateEffect DEF CreateClient
  <2>2. ASSUME NEW m \in Clients, NEW b, SetNextBootImage(r, m, b) PROVE Effect
    BY <2>2, NextBootEffect DEF SetNextBootImage
  <2> QED BY <1>2, <2>1, <2>2, SameIfUnchanged
             DEF ClientArrival, DeleteClient, AssignNode, ReinstallNode,
                 UnassignNode, MarkNodeInstalled, EnrollmentStateAction
<1>3. ASSUME NEW r \in Requests, ClusterArrival(r) \/ MachineArrival(r) PROVE Effect
  BY <1>3, SameIfUnchanged
     DEF ClusterArrival, CreateCluster, UpdateCluster, ClusterConfig, DeleteCluster,
         CreateNodeImage, DownloadNodeImage, DeleteNodeImage,
         MachineArrival, IPXEMenu, InventoryReport, MachineConfig
<1>4. ASSUME NEW r \in Requests, DeleteClientRow(r) PROVE Effect
  <2> DEFINE m == req[r].mac
  <2>1. m \in Clients /\ UNCHANGED issued
    BY <1>1, <1>4 DEF Fresh, RowSteps, DeleteClientRow, At
  <2>2. \A n \in Clients : client'[n] = client[n] \/ (n = m /\ client'[n] = NoClient)
    BY <1>4 DEF DeleteClientRow, TypeOK
  <2>3. CASE client'[m] = NoClient
    <3>1. \A n \in Clients \ {m} : Same(n)
      BY <2>2 DEF Same, ClientExists
    <3>2. Blank(NoClient)
      BY DEF Blank, NoClient
    <3>3. Released({m})
      BY <2>1, <2>3, <3>1, <3>2 DEF Released
    <3> QED BY <2>1, <3>3 DEF Effect
  <2>4. CASE client'[m] # NoClient
    <3>1. \A n \in Clients : Same(n)
      BY <2>2, <2>4 DEF Same, ClientExists
    <3> QED BY <2>1, <3>1 DEF Effect, Quiet
  <2> QED BY <2>3, <2>4
<1>5. ASSUME NEW r \in Requests, AssignCreate(r) PROVE Effect
  <2>1. req[r].mac \in Clients
    BY <1>1, <1>5 DEF Fresh, AssignSteps, AssignCreate, At
  <2>2. BlankForm.state = "" /\ BlankForm.cluster = None
    BY DEF BlankForm
  <2> QED BY <1>1, <1>5, <2>1, <2>2, CreateEffect, SameIfUnchanged DEF AssignCreate
<1>6. ASSUME NEW r \in Requests, InventoryCreateClient(r) PROVE Effect
  <2>1. CASE UNCHANGED <<client, rowIds>>
    BY <1>6, <2>1, SameIfUnchanged DEF InventoryCreateClient
  <2>2. CASE ~ClientExists(req[r].mac) /\ CreateClientRow(req[r].mac, BlankForm)
    <3>1. CASE req[r].mac \in Clients
      <4>1. BlankForm.state = "" /\ BlankForm.cluster = None
        BY DEF BlankForm
      <4> QED BY <1>1, <1>6, <2>2, <3>1, <4>1, CreateEffect DEF InventoryCreateClient
    <3>2. CASE req[r].mac \notin Clients
      <4>1. PICK id \in RowIds :
               client' = [client EXCEPT ![req[r].mac] = CreatedRow(id, BlankForm)]
        BY <2>2 DEF CreateClientRow
      <4>2. client' = client
        BY <3>2, <4>1 DEF TypeOK
      <4> QED BY <1>6, <4>2, SameIfUnchanged DEF InventoryCreateClient
    <3> QED BY <3>1, <3>2
  <2> QED BY <1>6, <2>1, <2>2 DEF InventoryCreateClient
<1>7. ASSUME NEW r \in Requests, AssignWrite(r) PROVE Effect
  <2>1. req[r].mac \in Clients /\ ClusterExists(req[r].cluster)
    BY <1>1, <1>7 DEF Fresh, AssignSteps, AssignWrite, At
  <2>2. req[r].cluster \in ClusterIds
    BY <2>1, RequestTyped DEF ClusterExists
  <2> QED BY <1>7, <2>1, <2>2, AssignEffect DEF AssignWrite
<1>8. ASSUME NEW r \in Requests, ReinstallWrite(r) PROVE Effect
  <2>1. req[r].mac \in Clients /\ req[r].row = client[req[r].mac]
    BY <1>1, <1>8 DEF Fresh, RowSteps, ReinstallWrite, At
  <2>2. req[r].row.cluster # None
    BY <1>8 DEF RequestBinding, RequestBound, ReinstallWrite, At
  <2>3. req[r].row.cluster \in ClusterIds /\ ClusterExists(req[r].row.cluster)
    BY <1>1, <2>1, <2>2, RequestTyped DEF NoDanglingCluster
  <2> QED BY <1>8, <2>1, <2>3, AssignEffect DEF ReinstallWrite
<1>9. ASSUME NEW r \in Requests, UnassignWrite(r) PROVE Effect
  <2> DEFINE m == req[r].mac
  <2>1. m \in Clients /\ UNCHANGED issued
    BY <1>1, <1>9 DEF Fresh, RowSteps, UnassignWrite, At
  <2>2. client[m] \in ClientRow /\ client'[m] = Detached(client[m])
    BY <1>9, <2>1 DEF UnassignWrite, TypeOK
  <2>3. \A n \in Clients \ {m} : Same(n)
    BY <1>9 DEF UnassignWrite, TypeOK, Same, ClientExists
  <2>4. Blank(client'[m])
    BY <2>2, RowColumns
  <2>5. Released({m})
    BY <2>1, <2>3, <2>4 DEF Released
  <2> QED BY <2>1, <2>5 DEF Effect
<1>10. ASSUME NEW r \in Requests, MarkWrite(r) \/ MenuInstalled(r) PROVE Effect
  <2>1. req[r].mac \in Clients /\ ClientExists(req[r].mac)
    BY <1>1, <1>10 DEF Fresh, RowSteps, MarkWrite, MenuInstalled, At
  <2> QED BY <1>10, <2>1, StateEffect DEF MarkWrite, MenuInstalled
<1>11. ASSUME NEW r \in Requests, MachineConfigWrite(r) PROVE Effect
  <2>1. /\ req[r].mac \in Clients /\ ClientExists(req[r].mac)
        /\ req[r].row = client[req[r].mac] /\ req[r].row.state = "approved"
    BY <1>1, <1>11 DEF Fresh, RowSteps, MachineConfigWrite, At
  <2>2. req[r].row.token # None
    BY <1>11 DEF RequestBinding, RequestBound, IssuedFor, MachineConfigWrite, At
  <2> QED BY <1>11, <2>1, <2>2, StateEffect DEF MachineConfigWrite
<1>12. ASSUME NEW r \in Requests, DetachNodes(r) PROVE Effect
  <2> DEFINE c == req[r].cluster
             S == {n \in Clients : client[n].cluster = c}
  <2>1. c \in ClusterIds /\ UNCHANGED issued
    BY <1>1, <1>12 DEF Fresh, DetachNodes, At
  <2>2. \A n \in Clients :
           /\ client[n] \in ClientRow
           /\ client'[n] = IF n \in S THEN Detached(client[n]) ELSE client[n]
    BY <1>12 DEF DetachNodes, TypeOK
  <2>3. \A n \in S : Blank(client'[n])
    BY <2>2, RowColumns
  <2>4. \A n \in Clients \ S : Same(n)
    BY <2>2 DEF Same, ClientExists
  <2>5. Released(S)
    BY <2>1, <2>3, <2>4 DEF Released
  <2> QED BY <2>1, <2>5 DEF Effect
<1>13. ASSUME NEW r \in Requests, MenuNextBoot(r) PROVE Effect
  BY <1>13, NextBootEffect, RequestTyped DEF MenuNextBoot
<1>14. ASSUME NEW r \in Requests,
              \/ AssignLookup(r) \/ CreateClusterRow(r) \/ UpdateClusterRow(r)
              \/ ClusterConfigImage(r) \/ SetClusterConfigs(r) \/ DeleteClusterRow(r)
              \/ SetNodeImageDownloaded(r) \/ CountClusters(r) \/ DeleteNodeImageRow(r)
              \/ InsertInventory(r) \/ MenuCluster(r) \/ MenuImage(r)
              \/ MachineConfigInventory(r) \/ MachineConfigCluster(r)
              \/ MachineConfigImage(r) \/ Respond(r) \/ RequestError(r)
       PROVE  Effect
  BY <1>14, SameIfUnchanged
     DEF AssignLookup, CreateClusterRow, UpdateClusterRow, ClusterConfigImage,
         SetClusterConfigs, DeleteClusterRow, SetNodeImageDownloaded, CountClusters,
         DeleteNodeImageRow, InsertInventory, MenuCluster, MenuImage,
         MachineConfigInventory, MachineConfigCluster, MachineConfigImage, Respond,
         RequestError
<1>15. CASE Restart \/ Tick \/ UNCHANGED vars
  BY <1>15, SameIfUnchanged DEF Restart, Tick, vars
<1> QED
  BY <1>2, <1>3, <1>4, <1>5, <1>6, <1>7, <1>8, <1>9, <1>10, <1>11, <1>12, <1>13,
     <1>14, <1>15 DEF Next, RequestStep

-----------------------------------------------------------------------------
(* What a request knows stays true until it acts on it.                    *)

\* Steps at which a request relies on nothing it has read.
CarefreeSteps == Steps \ (RowSteps \cup AssignSteps \cup {"cluster_detach", "cluster_delete"})

\* A request at such a step is fresh.
LEMMA CarefreeIsFresh ==
    ASSUME NEW r, req'[r].pc \in CarefreeSteps
    PROVE  Fresh(r)'
BY DEF Fresh, CarefreeSteps, RowSteps

\* So an idle slot is,
LEMMA IdleIsCarefree == Idle.pc \in CarefreeSteps
BY DEF Idle, CarefreeSteps, RowSteps, AssignSteps, Steps

\* and the end of a menu request.
LEMMA MenuTailIsCarefree ==
    ASSUME NEW r, NEW row PROVE MenuTail(r, row).pc \in CarefreeSteps
BY DEF MenuTail, Idle, CarefreeSteps, RowSteps, AssignSteps, Steps

\* A request that has just read its client.
LEMMA ReadIsFresh ==
    ASSUME TypeOK, NEW r \in Requests, NEW m \in Clients, ClientExists(m),
           UNCHANGED client, req'[r].mac = m, req'[r].row = client[m],
           req'[r].pc \in RowSteps \ {"mc_write"}
    PROVE  Fresh(r)'
BY DEF Fresh, RowSteps, AssignSteps, ClientExists

\* A request that goes on with the row it has.
LEMMA OnIsFresh ==
    ASSUME TypeOK, NEW r \in Requests, Fresh(r), req[r].pc \in RowSteps,
           UNCHANGED client, req'[r].mac = req[r].mac, req'[r].row = req[r].row,
           req'[r].pc \in RowSteps, req'[r].pc = "mc_write" => req[r].row.state = "approved"
    PROVE  Fresh(r)'
BY DEF Fresh, RowSteps, AssignSteps, ClientExists

\* A request that goes on to assign its node.
LEMMA AssigningIsFresh ==
    ASSUME TypeOK, NEW r \in Requests, UNCHANGED cluster,
           req'[r].mac \in Clients, ClusterExists(req'[r].cluster),
           req'[r].pc \in AssignSteps
    PROVE  Fresh(r)'
BY DEF Fresh, RowSteps, AssignSteps, ClusterExists

\* The next step of the only request in flight is fresh again.
LEMMA FreshNext ==
    ASSUME OneAtATime, TypeOK, \A r \in Requests : Fresh(r), [Next]_vars
    PROVE  \A r \in Requests : Fresh(r)'
<1>1. ASSUME NEW r \in Requests, Fresh(r)'
      PROVE  \A s \in Requests : Fresh(s)'
  BY <1>1, Zenon DEF OneAtATime
<1>2. ASSUME NEW r \in Requests, At(r, "idle"), UNCHANGED req
      PROVE  Fresh(r)'
  BY <1>2, CarefreeIsFresh
     DEF At, CarefreeSteps, RowSteps, AssignSteps, Steps
<1>3. ASSUME NEW r \in Requests, NEW q, q.pc \in CarefreeSteps,
             req' = [req EXCEPT ![r] = q]
      PROVE  Fresh(r)'
  <2>1. req'[r].pc \in CarefreeSteps
    BY <1>3 DEF TypeOK
  <2> QED BY <2>1, CarefreeIsFresh
<1>4. ASSUME NEW r \in Requests, Finish(r)
      PROVE  Fresh(r)'
  BY <1>3, <1>4, IdleIsCarefree DEF Finish
<1>5. ASSUME NEW r \in Requests, NEW s \in CarefreeSteps, Goto(r, s)
      PROVE  Fresh(r)'
  BY <1>5, GotoFields, CarefreeIsFresh
<1>6. ASSUME NEW r \in Requests, NEW s \in RowSteps, Goto(r, s), req[r].pc \in RowSteps,
             UNCHANGED client, s = "mc_write" => req[r].row.state = "approved"
      PROVE  Fresh(r)'
  BY <1>6, GotoFields, OnIsFresh
<1>7. ASSUME NEW r \in Requests, ClientArrival(r)
      PROVE  Fresh(r)'
  <2>1. ASSUME NEW m \in Clients, NEW s \in RowSteps \ {"mc_write"}, ClientExists(m),
               UNCHANGED client,
               req' = [req EXCEPT ![r] = [Idle EXCEPT !.pc = s, !.mac = m, !.row = client[m]]]
        PROVE  Fresh(r)'
    <3>1. req'[r].pc = s /\ req'[r].mac = m /\ req'[r].row = client[m]
      BY <2>1 DEF TypeOK, Idle
    <3> QED BY <2>1, <3>1, ReadIsFresh
  <2>2. ASSUME NEW m \in Clients, NEW c \in ClusterIds, NEW role, AssignNode(r, m, c, role)
        PROVE  Fresh(r)'
    <3>1. req'[r].pc = "assign_lookup" /\ req'[r].mac = m /\ req'[r].cluster = c
      BY <2>2 DEF AssignNode, TypeOK, Idle
    <3> QED BY <2>2, <3>1, AssigningIsFresh DEF AssignNode, AssignSteps
  <2>3. ASSUME NEW m \in Clients, DeleteClient(r, m)
        PROVE  Fresh(r)'
    <3>1. "client_delete" \in RowSteps \ {"mc_write"}
      BY DEF RowSteps
    <3> QED BY <2>1, <2>3, <3>1 DEF DeleteClient
  <2>4. ASSUME NEW m \in Clients, NEW op, NEW s \in RowSteps \ {"mc_write"},
               EnrollmentStateAction(r, m, op, s)
        PROVE  Fresh(r)'
    BY <2>1, <2>4 DEF EnrollmentStateAction
  <2>5. {"reinstall_write", "unassign_write", "mark_write"} \subseteq RowSteps \ {"mc_write"}
    BY DEF RowSteps
  <2>6. ASSUME NEW m \in Clients, NEW b,
               CreateClient(r, m) \/ SetNextBootImage(r, m, b)
        PROVE  Fresh(r)'
    BY <1>2, <2>6 DEF CreateClient, SetNextBootImage, Arrives
  <2> QED BY <1>7, <2>2, <2>3, <2>4, <2>5, <2>6
             DEF ClientArrival, ReinstallNode, UnassignNode, MarkNodeInstalled
<1>8. ASSUME NEW r \in Requests, ClusterArrival(r)
      PROVE  Fresh(r)'
  <2>1. ASSUME NEW c, NEW i, NEW docs
        PROVE /\ [Idle EXCEPT !.pc = "cluster_create", !.image = i].pc \in CarefreeSteps
              /\ [Idle EXCEPT !.pc = "cluster_update", !.cluster = c,
                              !.image = i].pc \in CarefreeSteps
              /\ [Idle EXCEPT !.pc = "config_image", !.cluster = c, !.image = i,
                              !.configs = docs].pc \in CarefreeSteps
              /\ [Idle EXCEPT !.pc = "image_download", !.image = i].pc \in CarefreeSteps
              /\ [Idle EXCEPT !.pc = "image_count", !.image = i].pc \in CarefreeSteps
    BY DEF Idle, CarefreeSteps, RowSteps, AssignSteps, Steps
  <2>2. ASSUME NEW c \in ClusterIds, DeleteCluster(r, c)
        PROVE  Fresh(r)'
    <3>1. req'[r].pc = "cluster_detach" /\ req'[r].cluster = c
      BY <2>2 DEF DeleteCluster, TypeOK, Idle
    <3> QED BY <3>1 DEF Fresh, RowSteps, AssignSteps
  <2>3. CASE CreateNodeImage(r)
    BY <1>2, <2>3 DEF CreateNodeImage, Arrives
  <2> QED BY <1>3, <1>8, <2>1, <2>2, <2>3
             DEF ClusterArrival, CreateCluster, UpdateCluster, ClusterConfig,
                 DownloadNodeImage, DeleteNodeImage
<1>9. ASSUME NEW r \in Requests, MachineArrival(r)
      PROVE  Fresh(r)'
  <2>1. ASSUME NEW m \in Clients, IPXEMenu(r, m)
        PROVE  Fresh(r)'
    <3> DEFINE seen(s) == [Idle EXCEPT !.pc = s, !.mac = m, !.row = client[m]]
    <3>1. req'[r] \in {seen("menu_cluster"), seen("menu_installed"), seen("menu_next"), Idle}
      BY <2>1 DEF IPXEMenu, TypeOK
    <3>2. \A s : seen(s).pc = s /\ seen(s).mac = m /\ seen(s).row = client[m]
      BY DEF Idle
    <3>3. "menu_next" \in CarefreeSteps
      BY DEF CarefreeSteps, RowSteps, AssignSteps, Steps
    <3> HIDE DEF seen
    <3>4. \/ req'[r].pc \in CarefreeSteps
          \/ /\ req'[r].pc \in {"menu_cluster", "menu_installed"}
             /\ req'[r].mac = m /\ req'[r].row = client[m]
      BY <3>1, <3>2, <3>3, IdleIsCarefree
    <3>5. {"menu_cluster", "menu_installed"} \subseteq RowSteps \ {"mc_write"}
      BY DEF RowSteps
    <3> QED BY <2>1, <3>4, <3>5, CarefreeIsFresh, ReadIsFresh DEF IPXEMenu
  <2>2. ASSUME NEW m \in Clients, NEW u, InventoryReport(r, m, u)
        PROVE  Fresh(r)'
    <3>1. req'[r].pc \in {"inventory_insert", "inventory_create"}
      BY <2>2 DEF InventoryReport, TypeOK, Idle
    <3> QED BY <3>1, CarefreeIsFresh DEF CarefreeSteps, RowSteps, AssignSteps, Steps
  <2>3. ASSUME NEW m \in Clients, NEW t, NEW u, MachineConfig(r, m, t, u)
        PROVE  Fresh(r)'
    <3>1. req'[r].pc = "mc_inventory" /\ req'[r].mac = m /\ req'[r].row = client[m]
      BY <2>3 DEF MachineConfig, TypeOK, Idle
    <3>2. "mc_inventory" \in RowSteps \ {"mc_write"}
      BY DEF RowSteps
    <3> QED BY <2>3, <3>1, <3>2, ReadIsFresh DEF MachineConfig
  <2> QED BY <1>9, <2>1, <2>2, <2>3 DEF MachineArrival
<1>10. ASSUME NEW r \in Requests, AssignLookup(r) \/ AssignCreate(r)
       PROVE  Fresh(r)'
  <2>1. /\ req[r].mac \in Clients /\ ClusterExists(req[r].cluster)
        /\ UNCHANGED cluster
    BY <1>10 DEF Fresh, AssignLookup, AssignCreate, AssignSteps, At
  <2>2. CASE Finish(r)
    BY <1>4, <2>2
  <2>3. ASSUME NEW s \in AssignSteps, Goto(r, s)
        PROVE  Fresh(r)'
    BY <2>1, <2>3, GotoFields, AssigningIsFresh
  <2> QED BY <1>10, <2>2, <2>3 DEF AssignLookup, AssignCreate, AssignSteps
<1>11. ASSUME NEW r \in Requests, DetachNodes(r)
       PROVE  Fresh(r)'
  <2>1. req[r].cluster \in ClusterIds
    BY <1>11 DEF Fresh, DetachNodes, At
  <2>2. req[r].cluster # None
    BY <2>1, ConstantsAssumption, Zenon
  <2>3. \A m \in Clients :
           /\ client[m] \in ClientRow
           /\ client'[m] = IF client[m].cluster = req[r].cluster
                           THEN Detached(client[m]) ELSE client[m]
    BY <1>11 DEF DetachNodes, TypeOK
  <2>4. \A m \in Clients : client'[m].cluster # req[r].cluster
    BY <2>2, <2>3, RowFieldsKept
  <2>5. req'[r].pc = "cluster_delete" /\ req'[r].cluster = req[r].cluster
    BY <1>11, GotoFields DEF DetachNodes
  <2> QED BY <2>4, <2>5 DEF Fresh, RowSteps, AssignSteps
<1>12. ASSUME NEW r \in Requests, MenuCluster(r) \/ MenuImage(r) \/ MenuInstalled(r)
       PROVE  Fresh(r)'
  <2>1. req[r].pc \in RowSteps /\ req[r] \in Request
    BY <1>12, RequestTyped DEF MenuCluster, MenuImage, MenuInstalled, At, RowSteps
  <2>2. CASE req'[r] = MenuTail(r, req[r].row)
    BY <2>2, MenuTailIsCarefree, CarefreeIsFresh
  <2>3. ASSUME NEW i, req'[r] = [req[r] EXCEPT !.pc = "menu_image", !.image = i],
               UNCHANGED client
        PROVE  Fresh(r)'
    <3>1. /\ req'[r].pc = "menu_image" /\ req'[r].mac = req[r].mac
          /\ req'[r].row = req[r].row
      BY <2>1, <2>3, ReadFields
    <3> QED BY <2>1, <2>3, <3>1, OnIsFresh DEF RowSteps
  <2>4. CASE req'[r] = [req[r] EXCEPT !.pc = "served_script"]
    <3>1. req'[r].pc = "served_script"
      BY <2>1, <2>4, ReadFields
    <3> QED BY <3>1, CarefreeIsFresh DEF CarefreeSteps, RowSteps, AssignSteps, Steps
  <2>5. CASE MenuCluster(r)
    BY <2>2, <2>3, <2>5 DEF MenuCluster, TypeOK
  <2>6. CASE MenuImage(r)
    BY <2>2, <2>4, <2>6 DEF MenuImage, TypeOK
  <2>7. CASE MenuInstalled(r)
    BY <2>2, <2>7 DEF MenuInstalled, TypeOK
  <2> QED BY <1>12, <2>5, <2>6, <2>7
<1>13. ASSUME NEW r \in Requests,
              MachineConfigInventory(r) \/ MachineConfigCluster(r) \/ MachineConfigImage(r)
       PROVE  Fresh(r)'
  <2>1. req[r].pc \in RowSteps /\ req[r] \in Request /\ UNCHANGED client
    BY <1>13, RequestTyped
       DEF MachineConfigInventory, MachineConfigCluster, MachineConfigImage, At, RowSteps
  <2>2. CASE MachineConfigInventory(r)
    <3>1. "mc_cluster" \in RowSteps
      BY DEF RowSteps
    <3> QED BY <1>4, <1>6, <2>1, <2>2, <3>1 DEF MachineConfigInventory
  <2>3. CASE MachineConfigCluster(r)
    <3>1. CASE req'[r] = Idle
      BY <3>1, IdleIsCarefree, CarefreeIsFresh
    <3>2. ASSUME NEW i, NEW docs,
                 req'[r] = [req[r] EXCEPT !.pc = "mc_image", !.image = i, !.configs = docs]
          PROVE  Fresh(r)'
      <4>1. /\ req'[r].pc = "mc_image" /\ req'[r].mac = req[r].mac
            /\ req'[r].row = req[r].row
        BY <2>1, <3>2, ReadFields
      <4> QED BY <2>1, <4>1, OnIsFresh DEF RowSteps
    <3> QED BY <2>3, <3>1, <3>2 DEF MachineConfigCluster, TypeOK
  <2>4. CASE MachineConfigImage(r)
    <3>1. "mc_write" \in RowSteps /\ "served_config" \in CarefreeSteps
      BY DEF RowSteps, CarefreeSteps, AssignSteps, Steps
    <3>2. \/ Finish(r) \/ Goto(r, "served_config")
          \/ req[r].row.state = "approved" /\ Goto(r, "mc_write")
      BY <2>4 DEF MachineConfigImage
    <3> QED BY <1>4, <1>5, <1>6, <2>1, <3>1, <3>2
  <2> QED BY <1>13, <2>2, <2>3, <2>4
<1>14. ASSUME NEW r \in Requests, RequestError(r)
       PROVE  Fresh(r)'
  <2>1. req[r] \in Request /\ UNCHANGED <<client, cluster>> /\ req' = [req EXCEPT ![r] = req'[r]]
    BY <1>14, RequestTyped DEF RequestError, TypeOK
  <2>2. \/ req'[r] = MenuTail(r, req[r].row) \/ req'[r] = Idle
        \/ req'[r] = [req[r] EXCEPT !.pc = "served_config"]
        \/ req'[r] = [req[r] EXCEPT !.pc = "inventory_insert"]
        \/ req[r].pc = "assign_lookup" /\ req'[r] = [req[r] EXCEPT !.pc = "assign_create"]
        \/ req[r].pc = "mc_inventory" /\ req'[r] = [req[r] EXCEPT !.pc = "mc_cluster"]
    BY <1>14 DEF RequestError, TypeOK
  <2>3. CASE req'[r] = MenuTail(r, req[r].row)
    BY <2>3, MenuTailIsCarefree, CarefreeIsFresh
  <2>4. CASE req'[r] = Idle
    BY <1>3, <2>1, <2>4, IdleIsCarefree
  <2>5. CASE \/ req'[r] = [req[r] EXCEPT !.pc = "served_config"]
             \/ req'[r] = [req[r] EXCEPT !.pc = "inventory_insert"]
    <3>1. req'[r].pc \in {"served_config", "inventory_insert"}
      BY <2>1, <2>5 DEF Request
    <3> QED BY <3>1, CarefreeIsFresh DEF CarefreeSteps, RowSteps, AssignSteps, Steps
  <2>6. CASE req[r].pc = "assign_lookup" /\ req'[r] = [req[r] EXCEPT !.pc = "assign_create"]
    <3>1. /\ req'[r].pc = "assign_create" /\ req'[r].mac = req[r].mac
          /\ req'[r].cluster = req[r].cluster
      BY <2>1, <2>6 DEF Request
    <3>2. req[r].mac \in Clients /\ ClusterExists(req[r].cluster)
      BY <2>6 DEF Fresh, AssignSteps
    <3> QED BY <2>1, <3>1, <3>2, AssigningIsFresh DEF AssignSteps
  <2>7. CASE req[r].pc = "mc_inventory" /\ req'[r] = [req[r] EXCEPT !.pc = "mc_cluster"]
    <3>1. /\ req'[r].pc = "mc_cluster" /\ req'[r].mac = req[r].mac
          /\ req'[r].row = req[r].row
      BY <2>1, <2>7, ReadFields
    <3> QED BY <2>1, <2>7, <3>1, OnIsFresh DEF RowSteps
  <2> QED BY <2>2, <2>3, <2>4, <2>5, <2>6, <2>7
<1>15. ASSUME NEW r \in Requests,
              \/ DeleteClientRow(r) \/ AssignWrite(r) \/ ReinstallWrite(r)
              \/ UnassignWrite(r) \/ MarkWrite(r) \/ CreateClusterRow(r)
              \/ UpdateClusterRow(r) \/ SetClusterConfigs(r) \/ DeleteClusterRow(r)
              \/ SetNodeImageDownloaded(r) \/ DeleteNodeImageRow(r)
              \/ InsertInventory(r) \/ MenuNextBoot(r) \/ Respond(r)
       PROVE  Fresh(r)'
  BY <1>4, <1>15
     DEF DeleteClientRow, AssignWrite, ReinstallWrite, UnassignWrite, MarkWrite,
         CreateClusterRow, UpdateClusterRow, SetClusterConfigs, DeleteClusterRow,
         SetNodeImageDownloaded, DeleteNodeImageRow, InsertInventory, MenuNextBoot,
         Respond
<1>16. ASSUME NEW r \in Requests,
              \/ ClusterConfigImage(r) \/ CountClusters(r)
              \/ InventoryCreateClient(r) \/ MachineConfigWrite(r)
       PROVE  Fresh(r)'
  <2>1. {"config_write", "image_delete", "inventory_insert", "served_config"}
           \subseteq CarefreeSteps
    BY DEF CarefreeSteps, RowSteps, AssignSteps, Steps
  <2> QED BY <1>4, <1>5, <1>16, <2>1
             DEF ClusterConfigImage, CountClusters, InventoryCreateClient,
                 MachineConfigWrite
<1>17. CASE Restart
  <2>1. \A r \in Requests : req'[r].pc \in CarefreeSteps
    BY <1>17 DEF Restart, Idle, CarefreeSteps, RowSteps, AssignSteps, Steps
  <2> QED BY <2>1, CarefreeIsFresh
<1>18. CASE Tick \/ UNCHANGED vars
  BY <1>18 DEF Tick, vars, Fresh, ClientExists, ClusterExists
<1> QED
  BY <1>1, <1>7, <1>8, <1>9, <1>10, <1>11, <1>12, <1>13, <1>14, <1>15, <1>16, <1>17,
     <1>18 DEF Next, RequestStep

\* Rows of the clusters table are only removed by deleteCluster, which leaves
\* the nodes alone and finds none in the cluster.
LEMMA ClusterRowsNext ==
    ASSUME TypeOK, SerialInv, [Next]_vars
    PROVE  \/ \A c \in ClusterIds : cluster[c].row = "live" => cluster'[c].row = "live"
           \/ /\ UNCHANGED client
              /\ \E d : /\ \A c \in ClusterIds \ {d} : cluster'[c] = cluster[c]
                        /\ \A m \in Clients : client[m].cluster # d
<1> DEFINE Kept == \A c \in ClusterIds : cluster[c].row = "live" => cluster'[c].row = "live"
<1>1. ASSUME UNCHANGED cluster PROVE Kept
  BY <1>1
<1>2. ASSUME NEW r \in Requests, DeleteClusterRow(r)
      PROVE  /\ UNCHANGED client
             /\ \E d : /\ \A c \in ClusterIds \ {d} : cluster'[c] = cluster[c]
                       /\ \A m \in Clients : client[m].cluster # d
  <2>1. \A m \in Clients : client[m].cluster # req[r].cluster
    BY <1>2 DEF SerialInv, Fresh, DeleteClusterRow, At
  <2>2. \A c \in ClusterIds \ {req[r].cluster} : cluster'[c] = cluster[c]
    BY <1>2 DEF DeleteClusterRow, TypeOK
  <2> QED BY <1>2, <2>1, <2>2 DEF DeleteClusterRow
<1>3. ASSUME NEW r \in Requests,
             CreateClusterRow(r) \/ UpdateClusterRow(r) \/ SetClusterConfigs(r)
      PROVE  Kept
  BY <1>3 DEF CreateClusterRow, UpdateClusterRow, SetClusterConfigs, TypeOK, ClusterRow
<1>4. ASSUME NEW r \in Requests, ClientArrival(r) \/ ClusterArrival(r) \/ MachineArrival(r)
      PROVE  UNCHANGED cluster
  BY <1>4
     DEF ClientArrival, CreateClient, SetNextBootImage, DeleteClient, AssignNode,
         ReinstallNode, UnassignNode, MarkNodeInstalled, EnrollmentStateAction,
         ClusterArrival, CreateCluster, UpdateCluster, ClusterConfig, DeleteCluster,
         CreateNodeImage, DownloadNodeImage, DeleteNodeImage,
         MachineArrival, IPXEMenu, InventoryReport, MachineConfig
<1>5. ASSUME NEW r \in Requests, RequestStep(r), ~DeleteClusterRow(r),
             ~(CreateClusterRow(r) \/ UpdateClusterRow(r) \/ SetClusterConfigs(r))
      PROVE  UNCHANGED cluster
  BY <1>5
     DEF RequestStep, DeleteClientRow, AssignLookup, AssignCreate, AssignWrite,
         ReinstallWrite, UnassignWrite, MarkWrite, ClusterConfigImage, DetachNodes,
         SetNodeImageDownloaded, CountClusters, DeleteNodeImageRow,
         InventoryCreateClient, InsertInventory, MenuCluster, MenuImage, MenuInstalled,
         MenuNextBoot, MachineConfigInventory, MachineConfigCluster,
         MachineConfigImage, MachineConfigWrite, Respond
<1>6. ASSUME \/ \E r \in Requests : RequestError(r)
             \/ Restart \/ Tick \/ UNCHANGED vars
      PROVE  UNCHANGED cluster
  BY <1>6 DEF RequestError, Restart, Tick, vars
<1> HIDE DEF Kept
<1>7. Kept \/ \E r \in Requests : DeleteClusterRow(r)
  BY <1>1, <1>3, <1>4, <1>5, <1>6 DEF Next
<1> QED BY <1>2, <1>7 DEF Kept

\* Each effect keeps the references of the nodes that are there.
LEMMA EffectKeepsReferences ==
    ASSUME TypeOK, SerialInv, Effect,
           \A c \in ClusterIds : cluster[c].row = "live" => cluster'[c].row = "live"
    PROVE  NoDanglingCluster'
<1>1. \A m \in Clients : /\ client[m].cluster \in ClusterIds \cup {None}
                         /\ client[m].cluster # None => ClusterExists(client[m].cluster)
  BY ClientRefsTyped DEF SerialInv, NoDanglingCluster
<1>2. \A c \in ClusterIds : ClusterExists(c) => ClusterExists(c)'
  BY DEF ClusterExists
<1>3. \A m \in Clients :
         \/ client'[m].cluster = client[m].cluster
         \/ client'[m].cluster = None
         \/ client'[m].cluster \in ClusterIds /\ ClusterExists(client'[m].cluster)
  BY DEF Effect, Quiet, Assigned, Released, Declared, Began, Same, Blank
<1>4. ASSUME NEW m \in Clients, client'[m].cluster # None
      PROVE  client'[m].cluster \in ClusterIds /\ ClusterExists(client'[m].cluster)
  BY <1>1, <1>3, <1>4
<1> QED BY <1>2, <1>4 DEF NoDanglingCluster, ClusterExists

\* A node that is not there looks blank after each effect.
LEMMA EffectKeepsBlank ==
    ASSUME AbsentIsBlank, Effect PROVE AbsentIsBlank'
<1>1. ASSUME NEW n \in Clients, Same(n)
      PROVE  ClientExists(n)' \/ Blank(client'[n])
  BY <1>1 DEF AbsentIsBlank, Same, Blank, ClientExists
<1>2. \A n \in Clients : Same(n) \/ client'[n].id # None \/ Blank(client'[n])
  BY DEF Effect, Quiet, Assigned, Released, Declared, Began
<1>3. \A n \in Clients : ClientExists(n)' \/ Blank(client'[n])
  BY <1>1, <1>2 DEF ClientExists
<1> QED BY <1>3 DEF AbsentIsBlank, Blank, ClientExists

\* The serial invariant is inductive.
LEMMA SerialInvNext ==
    ASSUME OneAtATime, PlainForms, IInv, SerialInv, [Next]_vars
    PROVE  SerialInv'
<1>1. TypeOK /\ RequestBinding /\ AbsentIsBlank /\ NoDanglingCluster
  BY DEF IInv, SerialInv
<1>2. Effect
  BY <1>1, EffectNext
<1>3. \A r \in Requests : Fresh(r)'
  BY <1>1, FreshNext DEF SerialInv
<1>4. AbsentIsBlank'
  BY <1>1, <1>2, EffectKeepsBlank
<1>5. NoDanglingCluster'
  <2>1. CASE \A c \in ClusterIds : cluster[c].row = "live" => cluster'[c].row = "live"
    BY <1>1, <1>2, <2>1, EffectKeepsReferences
  <2>2. CASE /\ UNCHANGED client
             /\ \E d : /\ \A c \in ClusterIds \ {d} : cluster'[c] = cluster[c]
                       /\ \A m \in Clients : client[m].cluster # d
    BY <1>1, <2>2, ClientRefsTyped DEF NoDanglingCluster, ClusterExists
  <2> QED BY <1>1, <2>1, <2>2, ClusterRowsNext
<1> QED BY <1>3, <1>4, <1>5 DEF SerialInv

\* It holds of empty tables.
LEMMA SerialInvInit == Init => SerialInv
<1> SUFFICES ASSUME Init PROVE SerialInv
  OBVIOUS
<1>1. \A m \in Clients : client[m] = NoClient
  BY DEF Init
<1>2. Blank(NoClient)
  BY DEF Blank, NoClient
<1>3. \A r \in Requests : req[r].pc = "idle"
  BY DEF Init, Idle
<1>4. \A r \in Requests : Fresh(r)
  BY <1>3 DEF Fresh, RowSteps, AssignSteps
<1>5. NoDanglingCluster
  BY <1>1, <1>2 DEF NoDanglingCluster, Blank
<1>6. AbsentIsBlank
  BY <1>1, <1>2 DEF AbsentIsBlank
<1> QED BY <1>4, <1>5, <1>6 DEF SerialInv

-----------------------------------------------------------------------------
(* The theorems.                                                           *)

\* On SQLite, which checks no foreign keys, a node never refers to a cluster
\* that is gone as long as requests do not overlap: deleteCluster detaches
\* every node first, and whoever assigns one finds the cluster as he read it.
THEOREM SerialReferences ==
    ASSUME OneAtATime, PlainForms PROVE Spec => []NoDanglingCluster
<1>1. SerialInv /\ IInv /\ [Next]_vars => SerialInv'
  BY SerialInvNext
<1>2. SerialInv => NoDanglingCluster
  BY DEF SerialInv
<1> QED BY <1>1, <1>2, SerialInvInit, InductiveInvariant, PTL DEF Spec

\* Each effect is a step of the lifecycle, or no step at all.
LEMMA EffectIsStep ==
    ASSUME TypeOK, TypeOK', Effect PROVE [Life!Next]_(Life!nodeVars)
<1>1. CASE Quiet
  BY <1>1 DEF Quiet, Same, Life!nodeVars
<1>2. ASSUME NEW m \in Clients, NEW c \in ClusterIds, NEW t \in Tokens, Assigned(m, c, t)
      PROVE  Life!Approve(m)
  <2>1. /\ t \in Tokens \ {u \in Tokens : issued[u] # NoIssue}
        /\ {u \in Tokens : issued'[u] # NoIssue}
              = {u \in Tokens : issued[u] # NoIssue} \cup {t}
    BY <1>2 DEF Assigned
  <2>2. /\ [n \in Clients |-> client'[n].state]
              = [[n \in Clients |-> client[n].state] EXCEPT ![m] = "approved"]
        /\ [n \in Clients |-> client'[n].cluster]
              = [[n \in Clients |-> client[n].cluster] EXCEPT ![m] = c]
        /\ [n \in Clients |-> client'[n].token]
              = [[n \in Clients |-> client[n].token] EXCEPT ![m] = t]
    BY <1>2 DEF Assigned, Same
  <2> QED BY <2>1, <2>2 DEF Life!Approve
<1>3. ASSUME NEW m \in Clients, Released({m})
      PROVE  Life!Release({m})
  BY <1>3 DEF Released, Same, Blank, Life!Release
<1>4. ASSUME NEW m \in Clients, Declared(m)
      PROVE  Life!Declare(m)
  BY <1>4 DEF Declared, Same, Life!Declare
<1>5. ASSUME NEW m \in Clients, Began(m)
      PROVE  Life!Begin(m)
  BY <1>5 DEF Began, Same, Life!Begin
<1>6. ASSUME NEW c \in ClusterIds, Released({n \in Clients : client[n].cluster = c})
      PROVE  Life!Release({n \in Clients : [m \in Clients |-> client[m].cluster][n] = c})
  BY <1>6 DEF Released, Same, Blank, Life!Release
<1> QED BY <1>1, <1>2, <1>3, <1>4, <1>5, <1>6 DEF Effect, Life!Next

\* The empty tables are the initial state of the lifecycle.
LEMMA InitIsInit == Init => Life!Init
<1> SUFFICES ASSUME Init PROVE Life!Init
  OBVIOUS
<1>1. \A m \in Clients : client[m].state = "" /\ client[m].cluster = None
                         /\ client[m].token = None
  BY DEF Init, NoClient
<1>2. {t \in Tokens : issued[t] # NoIssue} = {}
  BY DEF Init
<1> QED BY <1>1, <1>2 DEF Life!Init

\* The handlers implement the node lifecycle as long as requests do not
\* overlap: every statement of every handler is one operation of the lifecycle
\* on some node, or nothing the administrator sees, whatever fails and
\* whenever the process is restarted.
THEOREM SerialImplementsLifecycle ==
    ASSUME OneAtATime, PlainForms PROVE Spec => LifecycleRefined
<1>1. SerialInv /\ IInv /\ [Next]_vars => SerialInv'
  BY SerialInvNext
<1>2. IInv /\ IInv' /\ SerialInv /\ [Next]_vars => [Life!Next]_(Life!nodeVars)
  BY EffectNext, EffectIsStep DEF IInv
<1> QED BY <1>1, <1>2, SerialInvInit, InitIsInit, InductiveInvariant, PTL
           DEF Spec, LifecycleRefined, Life!Spec
=============================================================================
