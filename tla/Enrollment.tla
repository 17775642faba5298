----------------------------- MODULE Enrollment -----------------------------
(***************************************************************************)
(* Kubernetes node enrollment: the clients, clusters, node_images and      *)
(* hardware_inventories tables, the administrator's handlers that assign,  *)
(* reinstall and release nodes, and the two requests a node itself makes   *)
(* when it boots (the iPXE menu and its machine config).                   *)
(*                                                                         *)
(* Every HTTP request runs in a goroutine of its own.  A handler is a      *)
(* sequence of SQL statements with no transaction around them, so a        *)
(* request is a small process: one step per statement, and between two     *)
(* steps it keeps what it has read (row, image, configs) in its slot of    *)
(* req while other requests change the tables.                             *)
(*                                                                         *)
(* A handler that answers an error before its first write leaves the       *)
(* database as it was; such early returns are steps back to Idle, or, when *)
(* the first read already fails, no step at all.                           *)
(***************************************************************************)
EXTENDS Naturals, FiniteSets

CONSTANTS
    Clients,        \* MAC addresses
    RowIds,         \* primary keys of the clients table
    ClusterIds,     \* primary keys of the clusters table
    NodeImageIds,   \* primary keys of the node_images table
    Roles,          \* controlplane and worker
    Tokens,         \* values GenerateToken can return
    Uuids,          \* hardware UUIDs a machine can report
    BootImages,     \* values of next_boot_image
    Requests,       \* request goroutines that can be in flight together
    None,           \* SQL NULL / the empty string
    TTL,            \* kubernetes.DefaultTokenTTL, in clock ticks
    MaxTime,        \* bound on the clock
    EnforceFK,      \* TRUE: PostgreSQL; FALSE: SQLite, opened without foreign_keys
    CreateForms,    \* bodies administrators post to /api/clients
    Ops             \* the kinds of request of this instance

States == {"", "pending", "approved", "installing", "installed", "rejected"}
RowStates == {"unused", "live", "deleted"}

\* The enrollment fields a body posted to /api/clients can carry; the token has
\* no JSON name.
Form == [state: States, cluster: ClusterIds \cup {None}, role: Roles \cup {""},
         next: BootImages \cup {None}]

ASSUME ConstantsAssumption ==
    /\ None \notin Clients \cup RowIds \cup ClusterIds \cup NodeImageIds
    /\ None \notin Tokens \cup Uuids \cup BootImages
    /\ "" \notin Roles
    /\ TTL \in Nat
    /\ MaxTime \in Nat
    /\ EnforceFK \in BOOLEAN
    /\ CreateForms \subseteq Form

VARIABLES
    client,     \* clients: the row of each MAC; id = None where there is none
    cluster,    \* clusters, by id
    nodeImage,  \* node_images, by id
    inventory,  \* UUID of the latest hardware inventory of each MAC
    rowIds,     \* primary keys AUTOINCREMENT has handed out to clients
    issued,     \* history: what each token was issued for
    now,        \* the server's clock; 0 stands for a NULL time
    req         \* requests in flight

vars == <<client, cluster, nodeImage, inventory, rowIds, issued, now, req>>

-----------------------------------------------------------------------------
(* Tables and requests.                                                    *)

ClientRow == [id: RowIds \cup {None}, state: States,
              cluster: ClusterIds \cup {None}, role: Roles \cup {""},
              token: Tokens \cup {None}, expires: Nat,
              next: BootImages \cup {None}]

NoClient == [id |-> None, state |-> "", cluster |-> None, role |-> "",
             token |-> None, expires |-> 0, next |-> None]

ClusterRow == [row: RowStates, image: NodeImageIds \cup {None},
               configs: SUBSET Roles]

NodeImageRow == [row: RowStates, downloaded: BOOLEAN]

Issue == [mac: Clients \cup {None}, cluster: ClusterIds \cup {None},
          role: Roles \cup {""}, expires: Nat]

NoIssue == [mac |-> None, cluster |-> None, role |-> "", expires |-> 0]

\* Where a request is: the statement it executes next.
Steps == {"idle",
          "assign_lookup", "assign_create", "assign_write", "reinstall_write",
          "unassign_write", "mark_write", "client_delete",
          "cluster_create", "cluster_update", "config_image", "config_write",
          "cluster_detach", "cluster_delete",
          "image_count", "image_delete", "image_download",
          "inventory_create", "inventory_insert",
          "menu_cluster", "menu_image", "menu_installed", "menu_next",
          "served_script",
          "mc_inventory", "mc_cluster", "mc_image", "mc_write",
          "served_config"}

Request == [pc: Steps, mac: Clients \cup {None},
            cluster: ClusterIds \cup {None}, image: NodeImageIds \cup {None},
            role: Roles \cup {""}, token: Tokens \cup {None},
            uuid: Uuids \cup {None}, configs: SUBSET Roles, row: ClientRow]

Idle == [pc |-> "idle", mac |-> None, cluster |-> None, image |-> None,
         role |-> "", token |-> None, uuid |-> None, configs |-> {},
         row |-> NoClient]

TypeOK ==
    /\ client \in [Clients -> ClientRow]
    /\ cluster \in [ClusterIds -> ClusterRow]
    /\ nodeImage \in [NodeImageIds -> NodeImageRow]
    /\ inventory \in [Clients -> Uuids \cup {None}]
    /\ rowIds \in SUBSET RowIds
    /\ issued \in [Tokens -> Issue]
    /\ now \in Nat
    /\ req \in [Requests -> Request]

ClientExists(m)    == client[m].id # None
ClusterExists(c)   == c # None /\ cluster[c].row = "live"
NodeImageExists(i) == i # None /\ nodeImage[i].row = "live"

At(r, step) == req[r].pc = step
Goto(r, step) == req' = [req EXCEPT ![r].pc = step]
Finish(r) == req' = [req EXCEPT ![r] = Idle]

\* A request of kind op arrives and is given a goroutine.
Arrives(r, op) == op \in Ops /\ At(r, "idle")

-----------------------------------------------------------------------------
(* Single SQL statements.                                                  *)

\* FOREIGN KEY (cluster_id), FOREIGN KEY (node_image_id): checked by
\* PostgreSQL, ignored by SQLite.
ClusterRefOK(c) == EnforceFK /\ c # None => ClusterExists(c)
ImageRefOK(i)   == EnforceFK /\ i # None => NodeImageExists(i)

CreatedRow(id, form) ==
    [NoClient EXCEPT !.id = id, !.state = form.state, !.cluster = form.cluster,
                     !.role = form.role, !.next = form.next]

CreateClientRow(m, form) ==
    \E id \in RowIds \ rowIds :
        /\ ClusterRefOK(form.cluster)
        /\ rowIds' = rowIds \cup {id}
        /\ client' = [client EXCEPT ![m] = CreatedRow(id, form)]

BlankForm == [state |-> "", cluster |-> None, role |-> "", next |-> None]

\* Variant: a token the node already holds is not replaced.
AssignReusingToken(m, c, role) ==
    \E t \in Tokens :
        /\ issued[t] = NoIssue
        /\ ClientExists(m)
        /\ ClusterRefOK(c)
        /\ client' = [client EXCEPT ![m] =
               [@ EXCEPT !.state = "approved", !.cluster = c, !.role = role,
                         !.token = IF @ = None THEN t ELSE @,
                         !.expires = now + TTL]]
        /\ issued' = [issued EXCEPT ![t] =
               [mac |-> m, cluster |-> c, role |-> role, expires |-> now + TTL]]

\* assignNodeToCluster, with the token generated just before it.
AssignNodeToCluster(m, c, role) ==
    \E t \in Tokens :
        /\ issued[t] = NoIssue
        /\ ClientExists(m)
        /\ ClusterRefOK(c)
        /\ client' = [client EXCEPT ![m] =
               [@ EXCEPT !.state = "approved", !.cluster = c, !.role = role,
                         !.token = t, !.expires = now + TTL]]
        /\ issued' = [issued EXCEPT ![t] =
               [mac |-> m, cluster |-> c, role |-> role, expires |-> now + TTL]]

\* setClientEnrollmentState on a row, whatever its present state.
WithState(row, state) ==
    IF state \in {"installed", "rejected", ""}
    THEN [row EXCEPT !.state = state, !.token = None, !.expires = 0]
    ELSE [row EXCEPT !.state = state]

SetClientEnrollmentState(m, state) ==
    client' = [client EXCEPT ![m] =
        IF ClientExists(m) THEN WithState(@, state) ELSE @]

\* Variant: the node is reset but stays in its cluster.
DetachedInCluster(row) ==
    [row EXCEPT !.state = "", !.role = "", !.token = None, !.expires = 0]

\* resetClientEnrollment, and what deleteCluster does to each of its nodes.
Detached(row) ==
    [row EXCEPT !.state = "", !.cluster = None, !.role = "",
                !.token = None, !.expires = 0]

\* Variant: the stored token is checked, the presented one is not compared.
ValidateStoredToken(row, token) ==
    /\ row.state \in {"approved", "installing"}
    /\ row.token # None
    /\ row.expires # 0
    /\ now <= row.expires

\* ValidateToken, at the present time.
ValidateToken(row, token) ==
    /\ row.state \in {"approved", "installing"}
    /\ row.token # None
    /\ row.token = token
    /\ row.expires # 0
    /\ now <= row.expires

\* ValidateUUID: a machine without a recorded UUID is not bound to one.
ValidateUUID(expected, presented) == expected = None \/ expected = presented

-----------------------------------------------------------------------------
(* The administrator's requests about clients.                             *)

\* CreateClient: one INSERT of the posted row.
CreateClient(r, m) ==
    /\ Arrives(r, "CreateClient")
    /\ ~ClientExists(m)
    /\ \E form \in CreateForms : CreateClientRow(m, form)
    /\ UNCHANGED <<cluster, nodeImage, inventory, issued, now, req>>

\* deleteClientByMAC: find the row, then delete by primary key.
DeleteClient(r, m) ==
    /\ Arrives(r, "DeleteClient")
    /\ ClientExists(m)
    /\ req' = [req EXCEPT ![r] = [Idle EXCEPT !.pc = "client_delete",
                                              !.mac = m, !.row = client[m]]]
    /\ UNCHANGED <<client, cluster, nodeImage, inventory, rowIds, issued, now>>

DeleteClientRow(r) ==
    /\ At(r, "client_delete")
    /\ client' = [client EXCEPT ![req[r].mac] =
                     IF @.id = req[r].row.id THEN NoClient ELSE @]
    /\ Finish(r)
    /\ UNCHANGED <<cluster, nodeImage, inventory, rowIds, issued, now>>

\* SetNextBootImage / ClearNextBootImage from the clients page: one UPDATE.
SetNextBootImage(r, m, image) ==
    /\ Arrives(r, "SetNextBootImage")
    /\ ClientExists(m)
    /\ client' = [client EXCEPT ![m].next = image]
    /\ UNCHANGED <<cluster, nodeImage, inventory, rowIds, issued, now, req>>

AssignNode(r, m, c, role) ==
    /\ Arrives(r, "AssignNode")
    /\ ClusterExists(c)
    /\ req' = [req EXCEPT ![r] = [Idle EXCEPT !.pc = "assign_lookup",
                        !.mac = m, !.cluster = c, !.role = role]]
    /\ UNCHANGED <<client, cluster, nodeImage, inventory, rowIds, issued, now>>

AssignLookup(r) ==
    /\ At(r, "assign_lookup")
    /\ Goto(r, IF ClientExists(req[r].mac) THEN "assign_write"
                                           ELSE "assign_create")
    /\ UNCHANGED <<client, cluster, nodeImage, inventory, rowIds, issued, now>>

\* The INSERT violates the unique index when another request was faster.
AssignCreate(r) ==
    /\ At(r, "assign_create")
    /\ \/ /\ ClientExists(req[r].mac)
          /\ Finish(r)
          /\ UNCHANGED <<client, rowIds>>
       \/ /\ ~ClientExists(req[r].mac)
          /\ CreateClientRow(req[r].mac, BlankForm)
          /\ Goto(r, "assign_write")
    /\ UNCHANGED <<cluster, nodeImage, inventory, issued, now>>

AssignWrite(r) ==
    /\ At(r, "assign_write")
    /\ AssignNodeToCluster(req[r].mac, req[r].cluster, req[r].role)
    /\ Finish(r)
    /\ UNCHANGED <<cluster, nodeImage, inventory, rowIds, now>>

\* enrollmentStateAction: read the client, then apply one of three writes.
EnrollmentStateAction(r, m, op, step) ==
    /\ Arrives(r, op)
    /\ ClientExists(m)
    /\ req' = [req EXCEPT ![r] = [Idle EXCEPT !.pc = step,
                                              !.mac = m, !.row = client[m]]]
    /\ UNCHANGED <<client, cluster, nodeImage, inventory, rowIds, issued, now>>

ReinstallNode(r, m) ==
    /\ client[m].cluster # None
    /\ EnrollmentStateAction(r, m, "ReinstallNode", "reinstall_write")

\* Variant: the row read earlier is saved as a whole, its token included.
ReinstallSavesRow(r) ==
    /\ At(r, "reinstall_write")
    /\ client' = [client EXCEPT ![req[r].mac] =
                     IF @.id = None THEN @
                     ELSE [req[r].row EXCEPT !.state = "approved"]]
    /\ Finish(r)
    /\ UNCHANGED <<cluster, nodeImage, inventory, rowIds, issued, now>>

\* The cluster and the role are those of the row read earlier.
ReinstallWrite(r) ==
    /\ At(r, "reinstall_write")
    /\ AssignNodeToCluster(req[r].mac, req[r].row.cluster, req[r].row.role)
    /\ Finish(r)
    /\ UNCHANGED <<cluster, nodeImage, inventory, rowIds, now>>

UnassignNode(r, m) ==
    EnrollmentStateAction(r, m, "UnassignNode", "unassign_write")

UnassignWrite(r) ==
    /\ At(r, "unassign_write")
    /\ client' = [client EXCEPT ![req[r].mac] = Detached(@)]
    /\ Finish(r)
    /\ UNCHANGED <<cluster, nodeImage, inventory, rowIds, issued, now>>

MarkNodeInstalled(r, m) ==
    EnrollmentStateAction(r, m, "MarkNodeInstalled", "mark_write")

MarkWrite(r) ==
    /\ At(r, "mark_write")
    /\ SetClientEnrollmentState(req[r].mac, "installed")
    /\ Finish(r)
    /\ UNCHANGED <<cluster, nodeImage, inventory, rowIds, issued, now>>

-----------------------------------------------------------------------------
(* The administrator's requests about clusters and node images.            *)

\* POST /api/clusters: the node image is looked up, then the row inserted.
CreateCluster(r, i) ==
    /\ Arrives(r, "CreateCluster")
    /\ i # None => NodeImageExists(i)
    /\ req' = [req EXCEPT ![r] = [Idle EXCEPT !.pc = "cluster_create",
                                              !.image = i]]
    /\ UNCHANGED <<client, cluster, nodeImage, inventory, rowIds, issued, now>>

CreateClusterRow(r) ==
    /\ At(r, "cluster_create")
    /\ ImageRefOK(req[r].image)
    /\ \E c \in ClusterIds :
          /\ cluster[c].row = "unused"
          /\ cluster' = [cluster EXCEPT ![c] =
                 [row |-> "live", image |-> req[r].image, configs |-> {}]]
    /\ Finish(r)
    /\ UNCHANGED <<client, nodeImage, inventory, rowIds, issued, now>>

\* UpdateCluster looks the cluster up but never the node image it is given.
UpdateCluster(r, c, i) ==
    /\ Arrives(r, "UpdateCluster")
    /\ ClusterExists(c)
    /\ req' = [req EXCEPT ![r] = [Idle EXCEPT !.pc = "cluster_update",
                                              !.cluster = c, !.image = i]]
    /\ UNCHANGED <<client, cluster, nodeImage, inventory, rowIds, issued, now>>

UpdateClusterRow(r) ==
    /\ At(r, "cluster_update")
    /\ ClusterExists(req[r].cluster)
    /\ ImageRefOK(req[r].image)
    /\ cluster' = [cluster EXCEPT ![req[r].cluster].image = req[r].image]
    /\ Finish(r)
    /\ UNCHANGED <<client, nodeImage, inventory, rowIds, issued, now>>

\* ClusterConfig: the cluster must have a node image whose provider accepts
\* the posted join configs.
ClusterConfig(r, c, roles) ==
    /\ Arrives(r, "ClusterConfig")
    /\ ClusterExists(c)
    /\ roles # {}
    /\ cluster[c].image # None
    /\ req' = [req EXCEPT ![r] = [Idle EXCEPT !.pc = "config_image",
             !.cluster = c, !.image = cluster[c].image, !.configs = roles]]
    /\ UNCHANGED <<client, cluster, nodeImage, inventory, rowIds, issued, now>>

ClusterConfigImage(r) ==
    /\ At(r, "config_image")
    /\ IF NodeImageExists(req[r].image) THEN Goto(r, "config_write")
                                        ELSE Finish(r)
    /\ UNCHANGED <<client, cluster, nodeImage, inventory, rowIds, issued, now>>

\* setClusterConfigs leaves the document of a role that was not posted alone.
SetClusterConfigs(r) ==
    /\ At(r, "config_write")
    /\ ClusterExists(req[r].cluster)
    /\ cluster' = [cluster EXCEPT ![req[r].cluster].configs =
                                      @ \cup req[r].configs]
    /\ Finish(r)
    /\ UNCHANGED <<client, nodeImage, inventory, rowIds, issued, now>>

\* deleteCluster: detach the nodes, then delete the row.
DeleteCluster(r, c) ==
    /\ Arrives(r, "DeleteCluster")
    /\ ClusterExists(c)
    /\ req' = [req EXCEPT ![r] = [Idle EXCEPT !.pc = "cluster_detach",
                                              !.cluster = c]]
    /\ UNCHANGED <<client, cluster, nodeImage, inventory, rowIds, issued, now>>

\* Variant: the nodes of the cluster keep their reference to it.
DetachNothing(r) ==
    /\ At(r, "cluster_detach")
    /\ Goto(r, "cluster_delete")
    /\ UNCHANGED <<client, cluster, nodeImage, inventory, rowIds, issued, now>>

DetachNodes(r) ==
    /\ At(r, "cluster_detach")
    /\ client' = [m \in Clients |->
                     IF client[m].cluster = req[r].cluster
                     THEN Detached(client[m]) ELSE client[m]]
    /\ Goto(r, "cluster_delete")
    /\ UNCHANGED <<cluster, nodeImage, inventory, rowIds, issued, now>>

DeleteClusterRow(r) ==
    /\ At(r, "cluster_delete")
    /\ EnforceFK => \A m \in Clients : client[m].cluster # req[r].cluster
    /\ cluster' = [cluster EXCEPT ![req[r].cluster] =
                      [row |-> "deleted", image |-> None, configs |-> {}]]
    /\ Finish(r)
    /\ UNCHANGED <<client, nodeImage, inventory, rowIds, issued, now>>

\* POST /api/node-images.
CreateNodeImage(r) ==
    /\ Arrives(r, "CreateNodeImage")
    /\ \E i \in NodeImageIds :
          /\ nodeImage[i].row = "unused"
          /\ nodeImage' = [nodeImage EXCEPT ![i].row = "live"]
    /\ UNCHANGED <<client, cluster, inventory, rowIds, issued, now, req>>

\* DownloadNodeImage: the assets are fetched between the two statements.
DownloadNodeImage(r, i) ==
    /\ Arrives(r, "DownloadNodeImage")
    /\ NodeImageExists(i)
    /\ req' = [req EXCEPT ![r] = [Idle EXCEPT !.pc = "image_download",
                                              !.image = i]]
    /\ UNCHANGED <<client, cluster, nodeImage, inventory, rowIds, issued, now>>

SetNodeImageDownloaded(r) ==
    /\ At(r, "image_download")
    /\ nodeImage' = [nodeImage EXCEPT ![req[r].image].downloaded =
                        NodeImageExists(req[r].image)]
    /\ Finish(r)
    /\ UNCHANGED <<client, cluster, inventory, rowIds, issued, now>>

\* deleteNodeImage: count the clusters that use it, then delete the row.
DeleteNodeImage(r, i) ==
    /\ Arrives(r, "DeleteNodeImage")
    /\ NodeImageExists(i)
    /\ req' = [req EXCEPT ![r] = [Idle EXCEPT !.pc = "image_count",
                                              !.image = i]]
    /\ UNCHANGED <<client, cluster, nodeImage, inventory, rowIds, issued, now>>

CountClusters(r) ==
    /\ At(r, "image_count")
    /\ IF \E c \in ClusterIds : cluster[c].image = req[r].image
       THEN Finish(r) ELSE Goto(r, "image_delete")
    /\ UNCHANGED <<client, cluster, nodeImage, inventory, rowIds, issued, now>>

DeleteNodeImageRow(r) ==
    /\ At(r, "image_delete")
    /\ EnforceFK => \A c \in ClusterIds : cluster[c].image # req[r].image
    /\ nodeImage' = [nodeImage EXCEPT ![req[r].image] =
                        [row |-> "deleted", downloaded |-> FALSE]]
    /\ Finish(r)
    /\ UNCHANGED <<client, cluster, inventory, rowIds, issued, now>>

-----------------------------------------------------------------------------
(* The requests of a booting machine.                                      *)

\* handleInventoryReport and SaveHardwareInventory: create the client when it
\* is unknown (a failed INSERT is ignored), then record the inventory.
InventoryReport(r, m, u) ==
    /\ Arrives(r, "InventoryReport")
    /\ req' = [req EXCEPT ![r] = [Idle EXCEPT
             !.pc = IF ClientExists(m) THEN "inventory_insert"
                                       ELSE "inventory_create",
             !.mac = m, !.uuid = u]]
    /\ UNCHANGED <<client, cluster, nodeImage, inventory, rowIds, issued, now>>

InventoryCreateClient(r) ==
    /\ At(r, "inventory_create")
    /\ \/ /\ ClientExists(req[r].mac)
          /\ UNCHANGED <<client, rowIds>>
       \/ /\ ~ClientExists(req[r].mac)
          /\ CreateClientRow(req[r].mac, BlankForm)
    /\ Goto(r, "inventory_insert")
    /\ UNCHANGED <<cluster, nodeImage, inventory, issued, now>>

InsertInventory(r) ==
    /\ At(r, "inventory_insert")
    /\ inventory' = [inventory EXCEPT ![req[r].mac] = req[r].uuid]
    /\ Finish(r)
    /\ UNCHANGED <<client, cluster, nodeImage, rowIds, issued, now>>

\* What handleIPXEMenu does after the enrollment switch: consume the next-boot
\* image, if the row it read had one, and render the menu.
MenuTail(r, row) ==
    IF row.next # None
    THEN [Idle EXCEPT !.pc = "menu_next", !.mac = req[r].mac, !.row = row]
    ELSE Idle

\* handleIPXEMenu, up to its first statement after GetClient: an approved node
\* with a valid token goes on to its install script, an installing one is
\* reported installed, any other one gets the menu.
IPXEMenu(r, m) ==
    /\ Arrives(r, "IPXEMenu")
    /\ ClientExists(m)
    /\ LET row == client[m]
           seen(step) == [Idle EXCEPT !.pc = step, !.mac = m, !.row = row]
       IN  req' = [req EXCEPT ![r] =
             CASE /\ row.state = "approved"
                  /\ row.cluster # None
                  /\ ValidateToken(row, row.token)   -> seen("menu_cluster")
               [] row.state = "installing"           -> seen("menu_installed")
               [] OTHER -> IF row.next # None THEN seen("menu_next") ELSE Idle]
    /\ UNCHANGED <<client, cluster, nodeImage, inventory, rowIds, issued, now>>

\* provisionInstallScriptFor: the cluster, then its node image; a missing one
\* falls through to the menu.
MenuCluster(r) ==
    /\ At(r, "menu_cluster")
    /\ LET c == req[r].row.cluster
       IN  req' = [req EXCEPT ![r] =
                 IF ClusterExists(c) /\ cluster[c].image # None
                 THEN [@ EXCEPT !.pc = "menu_image", !.image = cluster[c].image]
                 ELSE MenuTail(r, req[r].row)]
    /\ UNCHANGED <<client, cluster, nodeImage, inventory, rowIds, issued, now>>

MenuImage(r) ==
    /\ At(r, "menu_image")
    /\ LET i == req[r].image
       IN  req' = [req EXCEPT ![r] =
                 IF NodeImageExists(i) /\ nodeImage[i].downloaded
                 THEN [@ EXCEPT !.pc = "served_script"]
                 ELSE MenuTail(r, req[r].row)]
    /\ UNCHANGED <<client, cluster, nodeImage, inventory, rowIds, issued, now>>

\* The boot of a node that was installing when the menu read it.
MenuInstalled(r) ==
    /\ At(r, "menu_installed")
    /\ SetClientEnrollmentState(req[r].mac, "installed")
    /\ req' = [req EXCEPT ![r] = MenuTail(r, req[r].row)]
    /\ UNCHANGED <<cluster, nodeImage, inventory, rowIds, issued, now>>

\* ClearNextBootImage, executed whether or not the image is still enabled.
MenuNextBoot(r) ==
    /\ At(r, "menu_next")
    /\ client' = [client EXCEPT ![req[r].mac].next = None]
    /\ Finish(r)
    /\ UNCHANGED <<cluster, nodeImage, inventory, rowIds, issued, now>>

\* handleMachineConfig: the client and its token.
MachineConfig(r, m, token, u) ==
    /\ Arrives(r, "MachineConfig")
    /\ ClientExists(m)
    /\ ValidateToken(client[m], token)
    /\ req' = [req EXCEPT ![r] = [Idle EXCEPT !.pc = "mc_inventory", !.mac = m,
                 !.token = token, !.uuid = u, !.row = client[m]]]
    /\ UNCHANGED <<client, cluster, nodeImage, inventory, rowIds, issued, now>>

MachineConfigInventory(r) ==
    /\ At(r, "mc_inventory")
    /\ IF /\ ValidateUUID(inventory[req[r].mac], req[r].uuid)
          /\ req[r].row.cluster # None
       THEN Goto(r, "mc_cluster")
       ELSE Finish(r)
    /\ UNCHANGED <<client, cluster, nodeImage, inventory, rowIds, issued, now>>

MachineConfigCluster(r) ==
    /\ At(r, "mc_cluster")
    /\ LET c == req[r].row.cluster
       IN  req' = [req EXCEPT ![r] =
                 IF ClusterExists(c) /\ cluster[c].image # None
                 THEN [@ EXCEPT !.pc = "mc_image", !.image = cluster[c].image,
                                !.configs = cluster[c].configs]
                 ELSE Idle]
    /\ UNCHANGED <<client, cluster, nodeImage, inventory, rowIds, issued, now>>

\* GetNodeImage and RenderConfig, which fails without a document for the role.
\* A node that was approved is then reported installing.
MachineConfigImage(r) ==
    /\ At(r, "mc_image")
    /\ IF /\ NodeImageExists(req[r].image)
          /\ req[r].row.role \in req[r].configs
       THEN Goto(r, IF req[r].row.state = "approved" THEN "mc_write"
                                                     ELSE "served_config")
       ELSE Finish(r)
    /\ UNCHANGED <<client, cluster, nodeImage, inventory, rowIds, issued, now>>

\* Variant: a state that is not one of the enrollment states.
MachineConfigWriteOther(r) ==
    /\ At(r, "mc_write")
    /\ SetClientEnrollmentState(req[r].mac, "provisioning")
    /\ Goto(r, "served_config")
    /\ UNCHANGED <<cluster, nodeImage, inventory, rowIds, issued, now>>

MachineConfigWrite(r) ==
    /\ At(r, "mc_write")
    /\ SetClientEnrollmentState(req[r].mac, "installing")
    /\ Goto(r, "served_config")
    /\ UNCHANGED <<cluster, nodeImage, inventory, rowIds, issued, now>>

\* The script or the config has been written to the connection.
Respond(r) ==
    /\ req[r].pc \in {"served_script", "served_config"}
    /\ Finish(r)
    /\ UNCHANGED <<client, cluster, nodeImage, inventory, rowIds, issued, now>>

-----------------------------------------------------------------------------
(* The environment.                                                        *)

\* The statement a request executes fails, affects no row it has to affect,
\* violates a constraint, or the work before it fails (GenerateToken, a
\* download, RenderConfig).  Most handlers answer an error; others carry on:
\* AssignNode takes any failed read for an unknown client, and a machine's
\* requests skip a hardware check they cannot read and only log failed writes.
RequestError(r) ==
    /\ req[r].pc \notin {"idle", "served_script", "served_config"}
    /\ req' = [req EXCEPT ![r] =
           CASE @.pc = "mc_write"         -> [@ EXCEPT !.pc = "served_config"]
             [] @.pc = "inventory_create" -> [@ EXCEPT !.pc = "inventory_insert"]
             [] @.pc = "assign_lookup"    -> [@ EXCEPT !.pc = "assign_create"]
             [] /\ @.pc = "mc_inventory"
                /\ @.row.cluster # None   -> [@ EXCEPT !.pc = "mc_cluster"]
             [] @.pc \in {"menu_cluster", "menu_image", "menu_installed"}
                                          -> MenuTail(r, req[r].row)
             [] OTHER                     -> Idle]
    /\ UNCHANGED <<client, cluster, nodeImage, inventory, rowIds, issued, now>>

\* The server stops and starts again: the tables survive, the requests do not.
Restart ==
    /\ \E r \in Requests : ~At(r, "idle")
    /\ req' = [r \in Requests |-> Idle]
    /\ UNCHANGED <<client, cluster, nodeImage, inventory, rowIds, issued, now>>

Tick ==
    /\ now < MaxTime
    /\ now' = now + 1
    /\ UNCHANGED <<client, cluster, nodeImage, inventory, rowIds, issued, req>>

Init ==
    /\ client = [m \in Clients |-> NoClient]
    /\ cluster = [c \in ClusterIds |->
                     [row |-> "unused", image |-> None, configs |-> {}]]
    /\ nodeImage = [i \in NodeImageIds |->
                       [row |-> "unused", downloaded |-> FALSE]]
    /\ inventory = [m \in Clients |-> None]
    /\ rowIds = {}
    /\ issued = [t \in Tokens |-> NoIssue]
    /\ now = 1
    /\ req = [r \in Requests |-> Idle]

\* A request about clients arrives.
ClientArrival(r) ==
    \E m \in Clients :
        \/ CreateClient(r, m)
        \/ DeleteClient(r, m)
        \/ \E b \in BootImages \cup {None} : SetNextBootImage(r, m, b)
        \/ \E c \in ClusterIds, role \in Roles : AssignNode(r, m, c, role)
        \/ ReinstallNode(r, m)
        \/ UnassignNode(r, m)
        \/ MarkNodeInstalled(r, m)

\* A request about clusters or node images arrives.
ClusterArrival(r) ==
    \/ \E i \in NodeImageIds \cup {None} : CreateCluster(r, i)
    \/ \E c \in ClusterIds :
          \/ \E i \in NodeImageIds \cup {None} : UpdateCluster(r, c, i)
          \/ \E roles \in SUBSET Roles : ClusterConfig(r, c, roles)
          \/ DeleteCluster(r, c)
    \/ CreateNodeImage(r)
    \/ \E i \in NodeImageIds : DownloadNodeImage(r, i) \/ DeleteNodeImage(r, i)

\* A machine boots, reports its hardware or asks for its config.
MachineArrival(r) ==
    \E m \in Clients :
        \/ IPXEMenu(r, m)
        \/ \E u \in Uuids \cup {None} :
              \/ InventoryReport(r, m, u)
              \/ \E t \in Tokens : MachineConfig(r, m, t, u)

\* A request in flight executes its next statement.
RequestStep(r) ==
    \/ DeleteClientRow(r)
    \/ AssignLookup(r) \/ AssignCreate(r) \/ AssignWrite(r)
    \/ ReinstallWrite(r) \/ UnassignWrite(r) \/ MarkWrite(r)
    \/ CreateClusterRow(r) \/ UpdateClusterRow(r)
    \/ ClusterConfigImage(r) \/ SetClusterConfigs(r)
    \/ DetachNodes(r) \/ DeleteClusterRow(r)
    \/ SetNodeImageDownloaded(r) \/ CountClusters(r) \/ DeleteNodeImageRow(r)
    \/ InventoryCreateClient(r) \/ InsertInventory(r)
    \/ MenuCluster(r) \/ MenuImage(r) \/ MenuInstalled(r) \/ MenuNextBoot(r)
    \/ MachineConfigInventory(r) \/ MachineConfigCluster(r)
    \/ MachineConfigImage(r) \/ MachineConfigWrite(r)
    \/ Respond(r)

Next ==
    \/ \E r \in Requests : \/ ClientArrival(r)
                           \/ ClusterArrival(r)
                           \/ MachineArrival(r)
                           \/ RequestStep(r)
                           \/ RequestError(r)
    \/ Restart
    \/ Tick

Spec == Init /\ [][Next]_vars

-----------------------------------------------------------------------------
(* What holds however requests interleave, fail and are cut short.         *)

\* Whoever holds an enrollment token is approved or installing and assigned
\* to a cluster: assignNodeToCluster sets them together, and every statement
\* that leaves these states clears the token.
TokenImpliesEnrolled ==
    \A m \in Clients : client[m].token # None =>
        /\ ClientExists(m)
        /\ client[m].state \in {"approved", "installing"}
        /\ client[m].cluster # None

\* The row that holds a token is the row of the MAC, with the cluster, role and
\* expiry, that the token was issued for.
TokenBinding ==
    \A m \in Clients : client[m].token # None =>
        issued[client[m].token] = [mac |-> m, cluster |-> client[m].cluster,
                                   role |-> client[m].role,
                                   expires |-> client[m].expires]

\* A stored token stands for the one assignment it was issued for, and only
\* while that assignment lasts: a node can never redeem a token for a cluster
\* or a role it was not issued for, or after it was installed or released.
TokensSound == TokenImpliesEnrolled /\ TokenBinding

\* What a row says of the assignment its token belongs to.
Assignment(m, row) ==
    [mac |-> m, cluster |-> row.cluster, role |-> row.role, expires |-> row.expires]

\* handleMachineConfig renders the join config of the cluster and the role of the
\* row it has read: it is only served when the presented token was issued to that
\* MAC for that very assignment, even when the assignment changes between its
\* statements.  The same for the install script, which carries the token to the
\* node.
ServedAsIssued ==
    \A r \in Requests :
        /\ req[r].pc = "served_config" =>
              /\ issued[req[r].token] = Assignment(req[r].mac, req[r].row)
              /\ req[r].row.role \in req[r].configs
        /\ req[r].pc = "served_script" =>
              issued[req[r].row.token] = Assignment(req[r].mac, req[r].row)

Held(t) == \E m \in Clients : client[m].token = t

\* A token that was cleared or replaced (unassign, reinstall, install
\* completed, cluster or client deleted) never becomes valid again, although
\* reinstalls and state changes are written from rows read earlier.
RevokedStaysRevoked ==
    [][\A t \in Tokens : issued[t] # NoIssue /\ ~Held(t) => ~Held(t)']_vars

-----------------------------------------------------------------------------
(* What the tables promise each other as long as requests do not overlap.  *)

\* deleteCluster detaches every node: no client refers to a cluster that is
\* gone, where GetCluster would fail for every later boot of that node.
NoDanglingCluster ==
    \A m \in Clients : client[m].cluster # None => ClusterExists(client[m].cluster)

-----------------------------------------------------------------------------
(* What the handlers tell the administrator; it holds when requests do not  *)
(* overlap.                                                                *)

\* "Node will be reprovisioned on next PXE boot": a boot of the node never
\* takes an approved node to installed; only MarkNodeInstalled may.
BootNeverCancelsApproval ==
    [][\A m \in Clients :
          client[m].state = "approved" /\ client'[m].state = "installed" =>
              \E r \in Requests : At(r, "mark_write") /\ req[r].mac = m]_vars

-----------------------------------------------------------------------------
(* The life of a node, as the administrator sees it.                       *)

Life == INSTANCE NodeLifecycle WITH
    Nodes    <- Clients,
    Clusters <- ClusterIds,
    Keys     <- Tokens,
    phase    <- [m \in Clients |-> client[m].state],
    home     <- [m \in Clients |-> client[m].cluster],
    key      <- [m \in Clients |-> client[m].token],
    spent    <- {t \in Tokens : issued[t] # NoIssue}

\* Every step of the handlers is one atomic operation of the lifecycle on some
\* node, or nothing the administrator sees.  It holds when requests do not
\* overlap, errors and restarts in the middle of a handler included.
LifecycleRefined == Life!Spec

=============================================================================
